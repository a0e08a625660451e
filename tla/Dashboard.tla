----------------------------- MODULE Dashboard -----------------------------
(***************************************************************************)
(* The dashboard of a browser (ui/ui.ts): a single event loop over a tree  *)
(* of namespaces and repositories and a panel with the tags of one         *)
(* repository.  Every handler runs to its first await; what follows runs   *)
(* when its fetch is answered, in whatever order the answers come.         *)
(*                                                                         *)
(* The tree is drawn from the state after every change and needs no state  *)
(* of its own; the panel is changed piecemeal and is a variable.  Folders  *)
(* of the tree count as open, and the copy button is left out: neither     *)
(* touches anything else.  The JSON API answers as it likes.               *)
(***************************************************************************)
EXTENDS Naturals, Bags

CONSTANTS
  Namespaces,   \* the namespaces of the bootstrap data
  Repos,        \* repository names
  NamespaceOf,  \* namespaceFromRepo
  Tags,         \* tag names
  Deletable,    \* the namespaces with delete_allowed
  None,         \* null, undefined, and a field a fetch has no use for
  MaxFetches    \* bound: events that fetch wait while so many fetches are pending

ASSUME DashboardAssumption ==
  /\ NamespaceOf \in [Repos -> Namespaces]
  /\ Deletable \subseteq Namespaces
  /\ None \notin Namespaces \cup Repos \cup Tags
  /\ {"loading", "unavailable"} \cap Repos = {}  \* Repos name digests in Rows
  /\ MaxFetches \in Nat \ {0}

VARIABLES
  expandedNamespace, expandedRepo,  \* what is open in the tree
  reposByNamespace,  \* the answer cached for a namespace, or None
  repoLoading,       \* does its branch say "Loading repositories..."?
  tagsByRepo,        \* the answer cached for a repository, or None
  tagDetailsByTag,   \* "fetched", "empty" after a failure, or None
  layersLoading,     \* is a tag to say "Loading layers..."?
  layersVisible,     \* are the details of a tag to be shown?
  panel,             \* the content of detailEl
  fetches            \* the fetches not yet answered, a bag

tree   == <<expandedNamespace, expandedRepo, reposByNamespace, repoLoading>>
layers == <<tagDetailsByTag, layersLoading, layersVisible>>
vars   == <<tree, tagsByRepo, layers, panel, fetches>>

Images == [repo : Repos, tag : Tags]
ReposIn(ns) == {repo \in Repos : NamespaceOf[repo] = ns}

(* The outcomes of a fetch of a list: an answer, an error status, or an    *)
(* exception.  A cache holds one of the first two.                         *)
Outcomes(items) ==
  [status : {"ok"}, list : SUBSET items] \cup
  [status : {"error", "exception"}, list : {{}}]

ASSUME NoneAssumption == None \notin Outcomes(Tags)

Cached(items) == {answer \in Outcomes(items) : answer.status # "exception"}

(* The row of a tag.  The digest it shows is named by the repository it    *)
(* was fetched for.                                                        *)
Rows ==
  [stat   : {"loading", "unavailable"} \cup Repos,
   layers : {"hidden", "loading", "unavailable", "details"},
   hide   : BOOLEAN,     \* does its toggle say "Hide details"?
   button : {"none", "Delete", "Deleting", "Failed"}]

Panels ==
  [view : {"select", "loading", "message", "tags"},
   repo : Repos \cup {None},
   rows : UNION {[shown -> Rows] : shown \in SUBSET Tags}]

(* A pending fetch.  That of a deletion remembers its button, which is     *)
(* attached until its row is drawn anew; that of a refresh remembers the   *)
(* repository to go on with.                                               *)
Fetches ==
  [kind : {"repos"}, name : Namespaces, tag : {None}, attached : {FALSE},
   next : Repos \cup {None}] \cup
  [kind : {"tags"}, name : Repos, tag : {None}, attached : {FALSE}, next : {None}] \cup
  [kind : {"info", "layers"}, name : Repos, tag : Tags, attached : {FALSE},
   next : {None}] \cup
  [kind : {"delete"}, name : Repos, tag : Tags, attached : BOOLEAN, next : {None}]

Fetch(kind, name, tag) ==
  [kind |-> kind, name |-> name, tag |-> tag, attached |-> FALSE, next |-> None]

TypeOK ==
  /\ expandedNamespace \in Namespaces \cup {None}
  /\ expandedRepo \in Repos \cup {None}
  /\ DOMAIN reposByNamespace = Namespaces
  /\ \A ns \in Namespaces : reposByNamespace[ns] \in Cached(ReposIn(ns)) \cup {None}
  /\ repoLoading \in [Namespaces -> BOOLEAN]
  /\ tagsByRepo \in [Repos -> Cached(Tags) \cup {None}]
  /\ tagDetailsByTag \in [Images -> {"fetched", "empty", None}]
  /\ layersLoading \in [Images -> BOOLEAN]
  /\ layersVisible \in [Images -> BOOLEAN]
  /\ panel \in Panels
  /\ IsABag(fetches) /\ BagToSet(fetches) \subseteq Fetches

Init ==
  /\ expandedNamespace = None /\ expandedRepo = None
  /\ reposByNamespace = [ns \in Namespaces |-> None]
  /\ repoLoading = [ns \in Namespaces |-> FALSE]
  /\ tagsByRepo = [repo \in Repos |-> None]
  /\ tagDetailsByTag = [image \in Images |-> None]
  /\ layersLoading = [image \in Images |-> FALSE]
  /\ layersVisible = [image \in Images |-> FALSE]
  /\ panel = [view |-> "select", repo |-> None, rows |-> <<>>]
  /\ fetches = EmptyBag

-----------------------------------------------------------------------------
(* What handlers do to the panel and to the pending fetches; pending is    *)
(* the bag of those that stay pending.                                     *)

(* An event that fetches waits for room.                                   *)
Room == BagCardinality(fetches) < MaxFetches

Without(fetch) == fetches (-) SetToBag({fetch})

(* The buttons of these rows leave the page.                               *)
Detached(pending, rows) ==
  LET gone == {f \in BagToSet(pending) : f.attached /\ f.tag \in rows}
  IN  [f \in BagToSet(pending) \ gone |-> pending[f]]
      (+) [f \in {[g EXCEPT !.attached = FALSE] : g \in gone} |->
             pending[[f EXCEPT !.attached = TRUE]]]

Show(view, repo, rows, pending, sent) ==
  /\ panel' = [view |-> view, repo |-> repo, rows |-> rows]
  /\ fetches' = Detached(pending, Tags) (+) SetToBag(sent)

ShowMessage(pending) == Show("message", None, <<>>, pending, {})

CanDeleteRepo(repo) == NamespaceOf[repo] \in Deletable

FreshButton(repo) == IF CanDeleteRepo(repo) THEN "Delete" ELSE "none"

LoadTags(repo, pending) ==
  Show("loading", repo, <<>>, pending, {Fetch("tags", repo, None)})

RenderDetail(repo, tags, pending) ==
  Show("tags", repo,
       [tag \in tags |-> [stat |-> "loading", layers |-> "hidden", hide |-> FALSE,
                          button |-> FreshButton(repo)]],
       pending, {Fetch("info", repo, tag) : tag \in tags})

LoadRepos(ns, next) ==
  /\ repoLoading' = [repoLoading EXCEPT ![ns] = TRUE]
  /\ fetches' = fetches (+) SetToBag({[Fetch("repos", ns, None) EXCEPT !.next = next]})

ShownImage(tag) == [repo |-> panel.repo, tag |-> tag]

IsShown(image) == panel.repo = image.repo /\ image.tag \in DOMAIN panel.rows

(* Mutant: an answer fills the container of a row that was closed.         *)
RenderLayersAlways(image) ==
  IF layersLoading'[image]                    THEN "loading"
  ELSE IF tagDetailsByTag'[image] = None      THEN "unavailable"
  ELSE                                             "details"

(* What the container of an image shows, given the new state.              *)
RenderLayers(image) ==
  IF ~layersVisible'[image]                   THEN "hidden"
  ELSE IF layersLoading'[image]               THEN "loading"
  ELSE IF tagDetailsByTag'[image] = None      THEN "unavailable"
  ELSE                                             "details"

-----------------------------------------------------------------------------
(* Events of the user.                                                     *)

(* Mutant: closing a namespace leaves its repository selected.             *)
CollapseNamespaceOnly(ns) ==
  /\ expandedNamespace = ns
  /\ expandedNamespace' = None
  /\ UNCHANGED <<expandedRepo, reposByNamespace, repoLoading, tagsByRepo, layers,
                 panel, fetches>>

CollapseNamespace(ns) ==
  /\ expandedNamespace = ns
  /\ expandedNamespace' = None /\ expandedRepo' = None
  /\ UNCHANGED <<reposByNamespace, repoLoading, tagsByRepo, layers, panel, fetches>>

ExpandNamespace(ns) ==
  /\ expandedNamespace # ns
  /\ reposByNamespace[ns] = None => Room
  /\ expandedNamespace' = ns /\ expandedRepo' = None
  /\ IF reposByNamespace[ns] = None
       THEN LoadRepos(ns, None)
       ELSE UNCHANGED <<repoLoading, fetches>>
  /\ UNCHANGED <<reposByNamespace, tagsByRepo, layers, panel>>

InTree(repo) ==
  LET ns == NamespaceOf[repo]
  IN  /\ expandedNamespace = ns
      /\ ~repoLoading[ns]
      /\ reposByNamespace[ns] # None
      /\ repo \in reposByNamespace[ns].list

CollapseRepo(repo) ==
  /\ InTree(repo)
  /\ expandedRepo = repo
  /\ expandedRepo' = None
  /\ UNCHANGED <<expandedNamespace, reposByNamespace, repoLoading, tagsByRepo,
                 layers, panel, fetches>>

SelectRepo(repo) ==
  /\ InTree(repo)
  /\ expandedRepo # repo
  /\ Room
  /\ expandedRepo' = repo
  /\ IF tagsByRepo[repo] = None
       THEN LoadTags(repo, fetches)
       ELSE RenderDetail(repo, tagsByRepo[repo].list, fetches)
  /\ UNCHANGED <<expandedNamespace, reposByNamespace, repoLoading, tagsByRepo, layers>>

(* toggleDetails, with loadLayers up to its await.                         *)
ToggleDetails(tag) ==
  LET image == ShownImage(tag)
      fetch == ~layersVisible[image] /\ tagDetailsByTag[image] = None
  IN  /\ tag \in DOMAIN panel.rows
      /\ fetch => Room
      /\ layersVisible' = [layersVisible EXCEPT ![image] = ~@]
      /\ layersLoading' = [layersLoading EXCEPT ![image] = @ \/ fetch]
      /\ UNCHANGED tagDetailsByTag
      /\ panel' = [panel EXCEPT !.rows[tag].layers = RenderLayers(image),
                                !.rows[tag].hide = layersVisible'[image]]
      /\ fetches' = fetches (+) SetToBag(IF fetch THEN {Fetch("layers", panel.repo, tag)}
                                                  ELSE {})
      /\ UNCHANGED <<tree, tagsByRepo>>

(* Mutant: the button stays enabled while its request is under way.        *)
DeleteTagEnabled(tag) ==
  /\ tag \in DOMAIN panel.rows
  /\ panel.rows[tag].button # "none"
  /\ Room
  /\ panel' = [panel EXCEPT !.rows[tag].button = "Deleting"]
  /\ fetches' = fetches (+) SetToBag({[Fetch("delete", panel.repo, tag)
                                         EXCEPT !.attached = TRUE]})
  /\ UNCHANGED <<tree, tagsByRepo, layers>>

(* deleteTag, once the user has confirmed, up to its await.                *)
DeleteTag(tag) ==
  /\ tag \in DOMAIN panel.rows
  /\ panel.rows[tag].button = "Delete"
  /\ Room
  /\ panel' = [panel EXCEPT !.rows[tag].button = "Deleting"]
  /\ fetches' = fetches (+) SetToBag({[Fetch("delete", panel.repo, tag)
                                         EXCEPT !.attached = TRUE]})
  /\ UNCHANGED <<tree, tagsByRepo, layers>>

(* refreshView, up to its await.  Without an open namespace there is no    *)
(* open repository either (SelectionIsOpen), and nothing happens.          *)
Refresh ==
  /\ expandedNamespace # None
  /\ Room
  /\ LoadRepos(expandedNamespace, expandedRepo)
  /\ UNCHANGED <<expandedNamespace, expandedRepo, reposByNamespace, tagsByRepo,
                 layers, panel>>

-----------------------------------------------------------------------------
(* Answers.                                                                *)

(* Details and layer flags are kept by image; the flags of an image go     *)
(* only with its details.                                                  *)
ClearRepoCaches(repo) ==
  LET Cleared(image) == image.repo = repo /\ tagDetailsByTag[image] # None
  IN  /\ tagsByRepo' = [tagsByRepo EXCEPT ![repo] = None]
      /\ tagDetailsByTag' = [image \in Images |->
                               IF Cleared(image) THEN None ELSE tagDetailsByTag[image]]
      /\ layersVisible' = [image \in Images |-> layersVisible[image] /\ ~Cleared(image)]
      /\ layersLoading' = [image \in Images |-> layersLoading[image] /\ ~Cleared(image)]

(* loadRepos from its await on, and then refreshView from its own.         *)
FinishRepos(f) ==
  /\ f.kind = "repos"
  /\ repoLoading' = [repoLoading EXCEPT ![f.name] = FALSE]
  /\ \E answer \in Outcomes(ReposIn(f.name)) :
       /\ reposByNamespace' = [reposByNamespace EXCEPT ![f.name] =
                                 IF answer.status = "exception" THEN @ ELSE answer]
       /\ IF f.next # None
            THEN ClearRepoCaches(f.next) /\ LoadTags(f.next, Without(f))
            ELSE /\ IF answer.status = "ok"
                      THEN fetches' = Without(f) /\ UNCHANGED panel
                      ELSE ShowMessage(Without(f))
                 /\ UNCHANGED <<tagsByRepo, layers>>
  /\ UNCHANGED <<expandedNamespace, expandedRepo>>

(* Mutant: loadTags without its catch.                                     *)
FinishTagsUncaught(f) ==
  /\ f.kind = "tags"
  /\ \/ \E answer \in Cached(Tags) :
          /\ tagsByRepo' = [tagsByRepo EXCEPT ![f.name] = answer]
          /\ IF answer.status = "ok"
               THEN RenderDetail(f.name, answer.list, Without(f))
               ELSE ShowMessage(Without(f))
     \/ fetches' = Without(f) /\ UNCHANGED <<tagsByRepo, panel>>
  /\ UNCHANGED <<tree, layers>>

(* loadTags from its await on.                                             *)
FinishTags(f) ==
  /\ f.kind = "tags"
  /\ \E answer \in Outcomes(Tags) :
       /\ tagsByRepo' = [tagsByRepo EXCEPT ![f.name] =
                           IF answer.status = "exception" THEN @ ELSE answer]
       /\ IF answer.status = "ok"
            THEN RenderDetail(f.name, answer.list, Without(f))
            ELSE ShowMessage(Without(f))
  /\ UNCHANGED <<tree, layers>>

(* loadTagInfo from its await on: updateTagRow takes the row of the tag,   *)
(* whatever repository the panel shows, and draws its header anew.         *)
FinishInfo(f) ==
  /\ f.kind = "info"
  /\ IF f.tag \in DOMAIN panel.rows
       THEN /\ \E stat \in {f.name, "unavailable"} :
                 panel' = [panel EXCEPT
                             !.rows[f.tag].stat   = stat,
                             !.rows[f.tag].hide   = layersVisible[ShownImage(f.tag)],
                             !.rows[f.tag].button = FreshButton(panel.repo)]
            /\ fetches' = Detached(Without(f), {f.tag})
       ELSE fetches' = Without(f) /\ UNCHANGED panel
  /\ UNCHANGED <<tree, tagsByRepo, layers>>

(* Mutant: a failed fetch of layers returns without its clean-up.          *)
FinishLayersNoFinally(f) ==
  LET image == [repo |-> f.name, tag |-> f.tag]
  IN  /\ f.kind = "layers"
      /\ \E result \in {"fetched", "empty"} :
           /\ tagDetailsByTag' = [tagDetailsByTag EXCEPT ![image] = result]
           /\ layersLoading' = [layersLoading EXCEPT ![image] = @ /\ result = "empty"]
      /\ UNCHANGED layersVisible
      /\ panel' = IF IsShown(image)
                    THEN [panel EXCEPT !.rows[f.tag].layers = RenderLayers(image)]
                    ELSE panel
      /\ fetches' = Without(f)
      /\ UNCHANGED <<tree, tagsByRepo>>

(* loadLayers from its await on.                                           *)
FinishLayers(f) ==
  LET image == [repo |-> f.name, tag |-> f.tag]
  IN  /\ f.kind = "layers"
      /\ \E result \in {"fetched", "empty"} :
           tagDetailsByTag' = [tagDetailsByTag EXCEPT ![image] = result]
      /\ layersLoading' = [layersLoading EXCEPT ![image] = FALSE]
      /\ UNCHANGED layersVisible
      /\ panel' = IF IsShown(image)
                    THEN [panel EXCEPT !.rows[f.tag].layers = RenderLayers(image)]
                    ELSE panel
      /\ fetches' = Without(f)
      /\ UNCHANGED <<tree, tagsByRepo>>

(* Mutant: the tag is taken out of the cached list instead of dropping it. *)
FinishDeleteFiltering(f) ==
  LET image == [repo |-> f.name, tag |-> f.tag]
  IN  /\ f.kind = "delete"
      /\ tagDetailsByTag' = [tagDetailsByTag EXCEPT ![image] = None]
      /\ layersVisible' = [layersVisible EXCEPT ![image] = FALSE]
      /\ layersLoading' = [layersLoading EXCEPT ![image] = FALSE]
      /\ tagsByRepo' = [tagsByRepo EXCEPT ![f.name] =
                          IF @ = None THEN None ELSE [@ EXCEPT !.list = @ \ {f.tag}]]
      /\ IF expandedRepo = f.name
           THEN LoadTags(f.name, Without(f))
           ELSE fetches' = Without(f) /\ UNCHANGED panel
      /\ UNCHANGED tree

(* Mutant: the list is fetched anew for a button still on the page.        *)
FinishDeleteIfAttached(f) ==
  LET image == [repo |-> f.name, tag |-> f.tag]
  IN  /\ f.kind = "delete"
      /\ tagDetailsByTag' = [tagDetailsByTag EXCEPT ![image] = None]
      /\ layersVisible' = [layersVisible EXCEPT ![image] = FALSE]
      /\ layersLoading' = [layersLoading EXCEPT ![image] = FALSE]
      /\ tagsByRepo' = [tagsByRepo EXCEPT ![f.name] = None]
      /\ IF f.attached /\ expandedRepo = f.name
           THEN LoadTags(f.name, Without(f))
           ELSE fetches' = Without(f) /\ UNCHANGED panel
      /\ UNCHANGED tree

(* deleteTag from its await on: forget the tag and list the repository     *)
(* anew if it is still selected.                                           *)
FinishDelete(f) ==
  LET image == [repo |-> f.name, tag |-> f.tag]
  IN  /\ f.kind = "delete"
      /\ tagDetailsByTag' = [tagDetailsByTag EXCEPT ![image] = None]
      /\ layersVisible' = [layersVisible EXCEPT ![image] = FALSE]
      /\ layersLoading' = [layersLoading EXCEPT ![image] = FALSE]
      /\ tagsByRepo' = [tagsByRepo EXCEPT ![f.name] = None]
      /\ IF expandedRepo = f.name
           THEN LoadTags(f.name, Without(f))
           ELSE fetches' = Without(f) /\ UNCHANGED panel
      /\ UNCHANGED tree

FailDelete(f) ==
  /\ f.kind = "delete"
  /\ panel' = IF f.attached THEN [panel EXCEPT !.rows[f.tag].button = "Failed"]
                            ELSE panel
  /\ fetches' = Without(f)
  /\ UNCHANGED <<tree, tagsByRepo, layers>>

(* A second and a half later.                                              *)
RestoreButton(tag) ==
  /\ tag \in DOMAIN panel.rows
  /\ panel.rows[tag].button = "Failed"
  /\ panel' = [panel EXCEPT !.rows[tag].button = "Delete"]
  /\ UNCHANGED <<tree, tagsByRepo, layers, fetches>>

Deliver(f) ==
  /\ BagIn(f, fetches)
  /\ FinishRepos(f) \/ FinishTags(f) \/ FinishInfo(f) \/ FinishLayers(f)
       \/ FinishDelete(f) \/ FailDelete(f)

Next ==
  \/ \E ns \in Namespaces : CollapseNamespace(ns) \/ ExpandNamespace(ns)
  \/ \E repo \in Repos : CollapseRepo(repo) \/ SelectRepo(repo)
  \/ \E tag \in Tags : ToggleDetails(tag) \/ DeleteTag(tag) \/ RestoreButton(tag)
  \/ Refresh
  \/ \E f \in BagToSet(fetches) : Deliver(f)

Spec == Init /\ [][Next]_vars

(* A fetch ends: the server closes a connection after thirty seconds and   *)
(* a broken one rejects the promise.  Users owe nothing.                   *)
FairSpec == Spec /\ \A f \in Fetches : WF_vars(Deliver(f))

-----------------------------------------------------------------------------
(* Properties.                                                             *)

Pending(kind, name, tag) == Fetch(kind, name, tag) \in BagToSet(fetches)

(* Whatever says "loading" has a fetch under way that will replace it, at  *)
(* every order of answers, clicks, refreshes and deletions.                *)
LoadingIsUnderWay ==
  /\ \A ns \in Namespaces : repoLoading[ns] =>
       \E f \in BagToSet(fetches) : f.kind = "repos" /\ f.name = ns
  /\ panel.view = "loading" => Pending("tags", panel.repo, None)
  /\ \A tag \in DOMAIN panel.rows :
       /\ panel.rows[tag].stat = "loading" => Pending("info", panel.repo, tag)
       /\ panel.rows[tag].layers = "loading" => Pending("layers", panel.repo, tag)
  /\ \A image \in Images :
       layersLoading[image] => Pending("layers", image.repo, image.tag)

(* The rows on display are those of the list cached for their repository,  *)
(* unless a deletion has dropped the list.                                 *)
PanelIsCached ==
  panel.view = "tags" /\ tagsByRepo[panel.repo] # None =>
    DOMAIN panel.rows = tagsByRepo[panel.repo].list

(* The selected repository is never left with the rows of a list that a    *)
(* deletion or a refresh has dropped: each reads the selection only when   *)
(* its own answer is there, however often it has changed in the meantime.  *)
SelectedIsCached ==
  panel.view = "tags" /\ panel.repo = expandedRepo => tagsByRepo[panel.repo] # None

(* Details on display are known to be: the next click on their row hides   *)
(* them, unless a deletion has dropped them.                               *)
ShownCanBeHidden ==
  \A tag \in DOMAIN panel.rows :
    panel.rows[tag].layers # "hidden" /\ tagsByRepo[panel.repo] # None =>
      layersVisible[ShownImage(tag)]

(* The repository selected lies in the namespace that is open: what        *)
(* refreshView relies on when it reloads both.                             *)
SelectionIsOpen ==
  expandedRepo # None => expandedNamespace = NamespaceOf[expandedRepo]

(* A button has one deletion under way at a time, and shows it for as long *)
(* as the button is on the page.                                           *)
ButtonSendsOnce ==
  \A f \in BagToSet(fetches) : f.attached =>
    /\ fetches[f] = 1
    /\ panel.repo = f.name
    /\ f.tag \in DOMAIN panel.rows
    /\ panel.rows[f.tag].button = "Deleting"

(* Only a list of tags has rows, and it and its forerunner name a repository. *)
PanelOfRepo ==
  /\ panel.view # "tags" => DOMAIN panel.rows = {}
  /\ panel.view \in {"loading", "tags"} => panel.repo \in Repos

Inv == TypeOK /\ PanelOfRepo /\ ButtonSendsOnce

(* Nothing says "loading" for ever, however the user clicks about.         *)
RowLoading(tag) ==
  tag \in DOMAIN panel.rows /\ "loading" \in {panel.rows[tag].stat, panel.rows[tag].layers}

LoadingEnds ==
  /\ panel.view = "loading" ~> panel.view # "loading"
  /\ \A ns \in Namespaces : repoLoading[ns] ~> ~repoLoading[ns]
  /\ \A tag \in Tags : RowLoading(tag) ~> ~RowLoading(tag)

-----------------------------------------------------------------------------
(* What the page says of itself, and does not keep.                        *)

(* "Select a repository to view tags" (html.go:157): while a repository is *)
(* selected, the tags on display are its tags.  A late answer for another  *)
(* repository replaces them.                                               *)
PanelIsSelected ==
  expandedRepo # None /\ panel.view \in {"loading", "tags"} =>
    panel.repo = expandedRepo

(* The digest and size in the row of an image are those of that image.     *)
(* updateTagRow looks for the name of the tag only.                        *)
RowsShowTheirImage ==
  \A tag \in DOMAIN panel.rows :
    panel.rows[tag].stat \in {"loading", "unavailable", panel.repo}

(* "No tags available" (ui.ts:461) is what the registry answered.  A       *)
(* failed listing is cached as an empty one.                               *)
EmptyMeansAnswered ==
  panel.view = "tags" /\ DOMAIN panel.rows = {} /\ tagsByRepo[panel.repo] # None =>
    tagsByRepo[panel.repo].status = "ok"
=============================================================================
