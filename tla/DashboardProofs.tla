-------------------------- MODULE DashboardProofs --------------------------
(* Theorems about the dashboard, for any namespaces, repositories and tags *)
(* and any number of pending fetches.                                      *)
EXTENDS Dashboard, TLAPS

(* Nothing but the click handlers of the tree changes what is selected, so *)
(* no answer, however late, and no refresh can select for the user.        *)
LEMMA OnlyClicksSelect ==
  ASSUME NEW f, Deliver(f)
  PROVE  UNCHANGED <<expandedNamespace, expandedRepo>>
<1>1. CASE FinishRepos(f)
  BY <1>1 DEF FinishRepos
<1>2. CASE FinishTags(f)
  BY <1>2 DEF FinishTags, tree
<1>3. CASE FinishInfo(f)
  BY <1>3 DEF FinishInfo, tree
<1>4. CASE FinishLayers(f)
  BY <1>4 DEF FinishLayers, tree
<1>5. CASE FinishDelete(f)
  BY <1>5 DEF FinishDelete, tree
<1>6. CASE FailDelete(f)
  BY <1>6 DEF FailDelete, tree
<1> QED
  BY <1>1, <1>2, <1>3, <1>4, <1>5, <1>6 DEF Deliver

(* The repository selected lies in the open namespace, which refreshView   *)
(* relies on.                                                              *)
THEOREM SelectionLiesInOpenNamespace == Spec => []SelectionIsOpen
<1>1. Init => SelectionIsOpen
  BY DEF Init, SelectionIsOpen
<1>2. SelectionIsOpen /\ [Next]_vars => SelectionIsOpen'
  <2> SUFFICES ASSUME SelectionIsOpen, [Next]_vars
               PROVE  SelectionIsOpen'
    OBVIOUS
  <2> USE DEF SelectionIsOpen
  <2>1. ASSUME NEW ns \in Namespaces, CollapseNamespace(ns)
        PROVE  SelectionIsOpen'
    BY <2>1 DEF CollapseNamespace
  <2>2. ASSUME NEW ns \in Namespaces, ExpandNamespace(ns)
        PROVE  SelectionIsOpen'
    BY <2>2 DEF ExpandNamespace
  <2>3. ASSUME NEW repo \in Repos, CollapseRepo(repo)
        PROVE  SelectionIsOpen'
    BY <2>3 DEF CollapseRepo
  <2>4. ASSUME NEW repo \in Repos, SelectRepo(repo)
        PROVE  SelectionIsOpen'
    BY <2>4 DEF SelectRepo, InTree
  <2>5. ASSUME NEW tag \in Tags, ToggleDetails(tag) \/ DeleteTag(tag) \/ RestoreButton(tag)
        PROVE  SelectionIsOpen'
    BY <2>5 DEF ToggleDetails, DeleteTag, RestoreButton, tree
  <2>6. CASE Refresh
    BY <2>6 DEF Refresh
  <2>7. ASSUME NEW f \in BagToSet(fetches), Deliver(f)
        PROVE  SelectionIsOpen'
    BY <2>7, OnlyClicksSelect
  <2>8. CASE UNCHANGED vars
    BY <2>8 DEF vars, tree
  <2> QED
    BY <2>1, <2>2, <2>3, <2>4, <2>5, <2>6, <2>7, <2>8 DEF Next
<1> QED
  BY <1>1, <1>2, PTL DEF Spec

-----------------------------------------------------------------------------
(* Bags of fetches.                                                        *)

IsFetches(B) == IsABag(B) /\ BagToSet(B) \subseteq Fetches

(* B holds nothing but what A does, and all of it but S.                   *)
LosesOnly(A, B, S) ==
  /\ IsFetches(B)
  /\ BagToSet(B) \subseteq BagToSet(A)
  /\ BagToSet(A) \ S \subseteq BagToSet(B)
  /\ \A f \in BagToSet(B) \ S : B[f] = A[f]

LEMMA SentFetches ==
  ASSUME NEW P, IsFetches(P), NEW S, S \subseteq Fetches
  PROVE  /\ IsFetches(P (+) SetToBag(S))
         /\ BagToSet(P (+) SetToBag(S)) = BagToSet(P) \cup S
         /\ \A f \in BagToSet(P) \ S : (P (+) SetToBag(S))[f] = P[f]
         /\ \A f \in S \ BagToSet(P) : (P (+) SetToBag(S))[f] = 1
BY DEF IsFetches, IsABag, BagToSet, SetToBag, (+)

LEMMA WithoutFetch ==
  ASSUME IsFetches(fetches), NEW f \in BagToSet(fetches)
  PROVE  /\ LosesOnly(fetches, Without(f), {f})
         /\ fetches[f] = 1 => f \notin BagToSet(Without(f))
<1>1. /\ BagToSet(Without(f)) =
           {g \in BagToSet(fetches) : (IF g = f THEN fetches[g] - 1 ELSE fetches[g]) > 0}
      /\ \A g \in BagToSet(Without(f)) :
           Without(f)[g] = IF g = f THEN fetches[g] - 1 ELSE fetches[g]
  BY DEF Without, IsFetches, IsABag, BagToSet, SetToBag, (-)
<1>2. \A g \in BagToSet(fetches) : fetches[g] \in Nat /\ fetches[g] > 0
  BY DEF IsFetches, IsABag, BagToSet
<1>3. /\ BagToSet(Without(f)) \subseteq BagToSet(fetches)
      /\ BagToSet(fetches) \ {f} \subseteq BagToSet(Without(f))
      /\ \A g \in BagToSet(Without(f)) \ {f} : Without(f)[g] = fetches[g]
      /\ fetches[f] = 1 => f \notin BagToSet(Without(f))
  BY <1>1, <1>2
<1>4. /\ \A g \in BagToSet(Without(f)) : Without(f)[g] \in {n \in Nat : n > 0}
      /\ Without(f) = [g \in BagToSet(Without(f)) |-> Without(f)[g]]
  <2>1. \A g \in BagToSet(Without(f)) : Without(f)[g] \in {n \in Nat : n > 0}
    BY <1>1, <1>2
  <2>2. Without(f) = [g \in BagToSet(Without(f)) |-> Without(f)[g]]
    BY DEF Without, BagToSet, (-)
  <2> QED
    BY <2>1, <2>2
<1>5. IsFetches(Without(f))
  BY <1>3, <1>4 DEF IsFetches, IsABag, BagToSet
<1> QED
  BY <1>3, <1>5 DEF LosesOnly

(* Only a pending deletion is attached.                                    *)
LEMMA FetchType ==
  ASSUME NEW f \in Fetches
  PROVE  /\ f.attached \in BOOLEAN
         /\ f.attached => /\ f.kind = "delete" /\ f.name \in Repos /\ f.tag \in Tags
                          /\ f.next = None
         /\ f.attached => [f EXCEPT !.attached = FALSE] \in Fetches
         /\ f.attached => [f EXCEPT !.attached = FALSE].attached = FALSE
         /\ f.attached => [[f EXCEPT !.attached = FALSE] EXCEPT !.attached = TRUE] = f
BY DEF Fetches

LEMMA DetachedFetches ==
  ASSUME NEW P, IsFetches(P), NEW rows
  PROVE  /\ IsFetches(Detached(P, rows))
         /\ \A f \in BagToSet(P) : ~f.attached => f \in BagToSet(Detached(P, rows))
         /\ \A f \in BagToSet(Detached(P, rows)) : f.attached =>
              f \in BagToSet(P) /\ f.tag \notin rows /\ Detached(P, rows)[f] = P[f]
<1> DEFINE gone == {f \in BagToSet(P) : f.attached /\ f.tag \in rows}
           left == {[g EXCEPT !.attached = FALSE] : g \in gone}
           A == [f \in BagToSet(P) \ gone |-> P[f]]
           B == [f \in left |-> P[[f EXCEPT !.attached = TRUE]]]
<1>1. Detached(P, rows) = A (+) B
  BY DEF Detached
<1>2. IsFetches(A)
  BY DEF IsFetches, IsABag, BagToSet
<1>3. gone \subseteq Fetches /\ gone \subseteq BagToSet(P)
  BY DEF IsFetches
<1>4. \A f \in left : /\ f \in Fetches /\ ~f.attached
                      /\ [f EXCEPT !.attached = TRUE] \in gone
  BY <1>3, FetchType
<1>5. IsFetches(B)
  <2>1. \A f \in left : B[f] \in {n \in Nat : n > 0}
    BY <1>3, <1>4 DEF IsFetches, IsABag, BagToSet
  <2> HIDE DEF gone
  <2>2. DOMAIN B = left /\ B = [f \in left |-> B[f]]
    OBVIOUS
  <2>3. left \subseteq Fetches
    BY <1>4
  <2> HIDE DEF B, left
  <2> QED
    BY <2>1, <2>2, <2>3 DEF IsFetches, IsABag, BagToSet
<1>6. BagToSet(A) = BagToSet(P) \ gone /\ BagToSet(B) = left
  BY DEF BagToSet
<1>7. \A f \in BagToSet(A) : A[f] = P[f]
  BY DEF BagToSet
<1>8. \A f \in BagToSet(P) : f \in gone <=> f.attached /\ f.tag \in rows
  OBVIOUS
<1> HIDE DEF A, B, gone, left
<1>9. /\ IsFetches(A (+) B) /\ BagToSet(A (+) B) = BagToSet(A) \cup BagToSet(B)
      /\ \A f \in BagToSet(A) \ BagToSet(B) : (A (+) B)[f] = A[f]
  BY <1>2, <1>5 DEF IsFetches, IsABag, BagToSet, (+)
<1> QED
  BY <1>1, <1>4, <1>6, <1>7, <1>8, <1>9


-----------------------------------------------------------------------------
(* The panel.                                                              *)

LEMMA PanelType ==
  ASSUME NEW view \in {"select", "loading", "message", "tags"},
         NEW repo \in Repos \cup {None}, NEW shown \in SUBSET Tags,
         NEW rows \in [shown -> Rows]
  PROVE  [view |-> view, repo |-> repo, rows |-> rows] \in Panels
BY DEF Panels

LEMMA NoRows == <<>> \in [{} -> Rows] /\ DOMAIN <<>> = {}
OBVIOUS

LEMMA PanelFields ==
  ASSUME panel \in Panels
  PROVE  /\ panel.view \in {"select", "loading", "message", "tags"}
         /\ panel.repo \in Repos \cup {None}
         /\ DOMAIN panel.rows \in SUBSET Tags
         /\ panel.rows \in [DOMAIN panel.rows -> Rows]
         /\ panel = [view |-> panel.view, repo |-> panel.repo, rows |-> panel.rows]
BY DEF Panels

LEMMA RowChange ==
  ASSUME panel \in Panels, NEW tag \in DOMAIN panel.rows, NEW row \in Rows,
         NEW new, new = [panel EXCEPT !.rows[tag] = row]
  PROVE  /\ new \in Panels
         /\ new.view = panel.view /\ new.repo = panel.repo
         /\ DOMAIN new.rows = DOMAIN panel.rows
         /\ \A t \in DOMAIN panel.rows : new.rows[t] = IF t = tag THEN row ELSE panel.rows[t]
<1>1. new = [view |-> panel.view, repo |-> panel.repo, rows |-> [panel.rows EXCEPT ![tag] = row]]
  BY PanelFields
<1>2. [panel.rows EXCEPT ![tag] = row] \in [DOMAIN panel.rows -> Rows]
  BY PanelFields
<1> QED
  BY <1>1, <1>2, PanelFields, PanelType

LEMMA FetchIsFetch ==
  /\ \A ns \in Namespaces, next \in Repos \cup {None} :
       [Fetch("repos", ns, None) EXCEPT !.next = next] \in Fetches
  /\ \A repo \in Repos : Fetch("tags", repo, None) \in Fetches
  /\ \A kind \in {"info", "layers"}, repo \in Repos, tag \in Tags :
       Fetch(kind, repo, tag) \in Fetches
  /\ \A kind, name, tag : ~Fetch(kind, name, tag).attached
  /\ \A ns, next : ~[Fetch("repos", ns, None) EXCEPT !.next = next].attached
BY DEF Fetch, Fetches

(* A panel that is drawn anew is right in itself and has no button of a    *)
(* deletion under way.                                                     *)
LEMMA ShowPanel ==
  ASSUME NEW P, IsFetches(P), NEW view \in {"select", "loading", "message", "tags"},
         NEW repo \in Repos \cup {None}, NEW shown \in SUBSET Tags,
         NEW rows \in [shown -> Rows],
         view # "tags" => shown = {}, view \in {"loading", "tags"} => repo \in Repos,
         NEW S, S \subseteq Fetches, \A f \in S : ~f.attached,
         Show(view, repo, rows, P, S)
  PROVE  /\ panel' \in Panels /\ IsFetches(fetches') /\ PanelOfRepo' /\ ButtonSendsOnce'
         /\ S \subseteq BagToSet(fetches')
         /\ \A f \in BagToSet(P) : ~f.attached => f \in BagToSet(fetches')
<1>1. panel' = [view |-> view, repo |-> repo, rows |-> rows]
      /\ fetches' = Detached(P, Tags) (+) SetToBag(S)
  BY DEF Show
<1>2. panel' \in Panels /\ PanelOfRepo'
  BY <1>1, PanelType DEF PanelOfRepo
<1> DEFINE D == Detached(P, Tags)
<1>3. /\ IsFetches(D)
      /\ \A f \in BagToSet(P) : ~f.attached => f \in BagToSet(D)
      /\ \A f \in BagToSet(D) : f.attached => f.tag \notin Tags
  BY DetachedFetches
<1> HIDE DEF D
<1>4. /\ IsFetches(D (+) SetToBag(S))
      /\ BagToSet(D (+) SetToBag(S)) = BagToSet(D) \cup S
  BY <1>3, SentFetches
<1>5. IsFetches(fetches') /\ BagToSet(fetches') = BagToSet(D) \cup S
  BY <1>1, <1>4 DEF D
<1>6. \A f \in BagToSet(fetches') : ~f.attached
  BY <1>3, <1>5, FetchType DEF IsFetches
<1> QED
  BY <1>2, <1>3, <1>5, <1>6 DEF ButtonSendsOnce

LEMMA DrawnPanel ==
  ASSUME NEW P, IsFetches(P),
         \/ \E repo \in Repos : LoadTags(repo, P)
         \/ \E repo \in Repos, tags \in SUBSET Tags : RenderDetail(repo, tags, P)
         \/ ShowMessage(P)
  PROVE  /\ panel' \in Panels /\ IsFetches(fetches') /\ PanelOfRepo' /\ ButtonSendsOnce'
         /\ \A f \in BagToSet(P) : ~f.attached => f \in BagToSet(fetches')
<1>1. ASSUME NEW repo \in Repos, LoadTags(repo, P)
      PROVE  /\ panel' \in Panels /\ IsFetches(fetches') /\ PanelOfRepo' /\ ButtonSendsOnce'
             /\ Fetch("tags", repo, None) \in BagToSet(fetches')
             /\ \A f \in BagToSet(P) : ~f.attached => f \in BagToSet(fetches')
  <2> DEFINE S == {Fetch("tags", repo, None)}
  <2>1. Show("loading", repo, <<>>, P, S) /\ Fetch("tags", repo, None) \in S
    BY <1>1 DEF LoadTags
  <2>2. S \subseteq Fetches /\ \A f \in S : ~f.attached
    BY FetchIsFetch
  <2> HIDE DEF S
  <2> QED
    BY <2>1, <2>2, ShowPanel, NoRows
<1>2. ASSUME NEW repo \in Repos, NEW tags \in SUBSET Tags, RenderDetail(repo, tags, P)
      PROVE  /\ panel' \in Panels /\ IsFetches(fetches') /\ PanelOfRepo' /\ ButtonSendsOnce'
             /\ \A f \in BagToSet(P) : ~f.attached => f \in BagToSet(fetches')
  <2> DEFINE rows == [tag \in tags |-> [stat |-> "loading", layers |-> "hidden",
                                        hide |-> FALSE, button |-> FreshButton(repo)]]
             S == {Fetch("info", repo, tag) : tag \in tags}
  <2>1. Show("tags", repo, rows, P, S)
    BY <1>2 DEF RenderDetail
  <2>2. rows \in [tags -> Rows]
    BY DEF Rows, FreshButton
  <2>3. S \subseteq Fetches /\ \A f \in S : ~f.attached
    BY FetchIsFetch
  <2> HIDE DEF rows, S
  <2> QED
    BY <2>1, <2>2, <2>3, ShowPanel
<1>3. CASE ShowMessage(P)
  <2>1. Show("message", None, <<>>, P, {})
    BY <1>3 DEF ShowMessage
  <2> QED
    BY <2>1, ShowPanel, NoRows
<1> QED
  BY <1>1, <1>2, <1>3


(* The panel and the pending fetches agree.                                *)
PanelInv ==
  panel \in Panels /\ IsFetches(fetches) /\ PanelOfRepo /\ ButtonSendsOnce

LEMMA SamePanel ==
  ASSUME PanelInv, panel' = panel, IsFetches(fetches'),
         \A f \in BagToSet(fetches') : f.attached =>
           f \in BagToSet(fetches) /\ fetches'[f] = fetches[f]
  PROVE  PanelInv'
BY DEF PanelInv, PanelOfRepo, ButtonSendsOnce

LEMMA RowStep ==
  ASSUME PanelInv, NEW tag \in DOMAIN panel.rows, NEW row \in Rows,
         panel' = [panel EXCEPT !.rows[tag] = row],
         IsFetches(fetches'),
         \A f \in BagToSet(fetches') : f.attached =>
           \/ /\ f \in BagToSet(fetches) /\ fetches'[f] = fetches[f]
              /\ f.tag = tag => row.button = "Deleting"
           \/ /\ fetches'[f] = 1 /\ f.name = panel.repo
              /\ f.tag = tag /\ row.button = "Deleting"
  PROVE  PanelInv'
<1>1. /\ panel' \in Panels
      /\ panel'.view = panel.view /\ panel'.repo = panel.repo
      /\ DOMAIN panel'.rows = DOMAIN panel.rows
      /\ \A t \in DOMAIN panel.rows : panel'.rows[t] = IF t = tag THEN row ELSE panel.rows[t]
  BY RowChange DEF PanelInv
<1>2. PanelOfRepo'
  BY <1>1 DEF PanelInv, PanelOfRepo
<1>3. ASSUME NEW f \in BagToSet(fetches'), f.attached
      PROVE  /\ fetches'[f] = 1
             /\ panel'.repo = f.name
             /\ f.tag \in DOMAIN panel'.rows
             /\ panel'.rows[f.tag].button = "Deleting"
  BY <1>1, <1>3 DEF PanelInv, ButtonSendsOnce
<1> QED
  BY <1>1, <1>2, <1>3 DEF PanelInv, ButtonSendsOnce

(* A button on the page has one deletion at most.                          *)
LEMMA OneDeletion ==
  ASSUME PanelInv, NEW f \in BagToSet(fetches), f.attached,
         NEW g \in BagToSet(fetches), g.attached, f.tag = g.tag
  PROVE  f = g
<1>1. f \in Fetches /\ g \in Fetches /\ f.name = g.name
  BY DEF PanelInv, IsFetches, ButtonSendsOnce
<1>2. /\ f = [kind |-> f.kind, name |-> f.name, tag |-> f.tag,
              attached |-> f.attached, next |-> f.next]
      /\ g = [kind |-> g.kind, name |-> g.name, tag |-> g.tag,
              attached |-> g.attached, next |-> g.next]
  BY <1>1 DEF Fetches
<1>3. f.kind = g.kind /\ f.next = g.next
  BY <1>1, FetchType
<1>4. f.attached = TRUE /\ g.attached = TRUE
  BY <1>1, FetchType, Zenon
<1> QED
  BY <1>1, <1>2, <1>3, <1>4

LEMMA RowType ==
  ASSUME panel \in Panels, NEW tag \in DOMAIN panel.rows
  PROVE  /\ panel.rows[tag] \in Rows /\ tag \in Tags
         /\ \A button \in {"none", "Delete", "Deleting", "Failed"} :
              /\ [panel.rows[tag] EXCEPT !.button = button] \in Rows
              /\ [panel.rows[tag] EXCEPT !.button = button].button = button
              /\ [panel.rows[tag] EXCEPT !.button = button].stat = panel.rows[tag].stat
              /\ [panel.rows[tag] EXCEPT !.button = button].layers = panel.rows[tag].layers
              /\ [panel EXCEPT !.rows[tag].button = button] =
                 [panel EXCEPT !.rows[tag] = [panel.rows[tag] EXCEPT !.button = button]]
<1>1. panel.rows[tag] \in Rows /\ tag \in Tags
  BY PanelFields
<1>2. ASSUME NEW button \in {"none", "Delete", "Deleting", "Failed"}
      PROVE  /\ [panel.rows[tag] EXCEPT !.button = button] \in Rows
             /\ [panel.rows[tag] EXCEPT !.button = button].button = button
             /\ [panel.rows[tag] EXCEPT !.button = button].stat = panel.rows[tag].stat
             /\ [panel.rows[tag] EXCEPT !.button = button].layers = panel.rows[tag].layers
  BY <1>1 DEF Rows
<1>3. ASSUME NEW button
      PROVE  [panel EXCEPT !.rows[tag].button = button] =
             [panel EXCEPT !.rows[tag] = [panel.rows[tag] EXCEPT !.button = button]]
  BY PanelFields
<1> QED
  BY <1>1, <1>2, <1>3

LEMMA SendKeepsPanel ==
  ASSUME PanelInv, panel' = panel, NEW f \in Fetches, ~f.attached,
         fetches' = fetches (+) SetToBag({f})
  PROVE  PanelInv'
<1>1. /\ IsFetches(fetches') /\ BagToSet(fetches') = BagToSet(fetches) \cup {f}
      /\ \A g \in BagToSet(fetches) \ {f} : fetches'[g] = fetches[g]
  BY SentFetches DEF PanelInv
<1> QED
  BY <1>1, SamePanel

LEMMA AnswerKeepsPanel ==
  ASSUME PanelInv, panel' = panel, NEW f \in BagToSet(fetches), fetches' = Without(f)
  PROVE  PanelInv'
<1>1. /\ LosesOnly(fetches, fetches', {f})
      /\ f.attached => f \notin BagToSet(fetches')
  BY WithoutFetch DEF PanelInv, ButtonSendsOnce
<1> QED
  BY <1>1, SamePanel DEF LosesOnly

LEMMA ToggledRow ==
  ASSUME PanelInv, TypeOK, NEW tag \in Tags, ToggleDetails(tag)
  PROVE  /\ tag \in DOMAIN panel.rows /\ panel.repo \in Repos
         /\ \E row \in Rows :
              /\ panel' = [panel EXCEPT !.rows[tag] = row]
              /\ row.stat = panel.rows[tag].stat
              /\ row.layers = RenderLayers(ShownImage(tag))
              /\ row.button = panel.rows[tag].button
<1> DEFINE image == ShownImage(tag)
           row == [panel.rows[tag] EXCEPT !.layers = RenderLayers(image),
                                          !.hide = layersVisible'[image]]
<1>1. tag \in DOMAIN panel.rows /\ panel.repo \in Repos /\ panel.rows[tag] \in Rows
  BY PanelFields DEF ToggleDetails, PanelInv, PanelOfRepo
<1>2. layersVisible'[image] \in BOOLEAN
  BY <1>1 DEF ToggleDetails, TypeOK, ShownImage, Images
<1>3. RenderLayers(image) \in {"hidden", "loading", "unavailable", "details"}
  BY DEF RenderLayers
<1>4. panel' = [panel EXCEPT !.rows[tag].layers = RenderLayers(image),
                             !.rows[tag].hide = layersVisible'[image]]
  BY DEF ToggleDetails
<1> HIDE DEF image
<1>5. panel' = [panel EXCEPT !.rows[tag] = row]
  BY <1>1, <1>4, PanelFields DEF PanelInv
<1>6. /\ row \in Rows /\ row.button = panel.rows[tag].button
      /\ row.stat = panel.rows[tag].stat /\ row.layers = RenderLayers(image)
  BY <1>1, <1>2, <1>3 DEF Rows
<1> QED
  BY <1>1, <1>5, <1>6 DEF image

LEMMA ToggleKeepsPanel ==
  ASSUME PanelInv, NEW tag \in Tags, ToggleDetails(tag), TypeOK
  PROVE  PanelInv'
<1> DEFINE image == ShownImage(tag)
           S == IF ~layersVisible[image] /\ tagDetailsByTag[image] = None
                  THEN {Fetch("layers", panel.repo, tag)} ELSE {}
<1>1. S \subseteq Fetches /\ \A f \in S : ~f.attached
  BY ToggledRow, FetchIsFetch
<1>2. fetches' = fetches (+) SetToBag(S)
  BY DEF ToggleDetails
<1> HIDE DEF S
<1>3. PICK row \in Rows : /\ panel' = [panel EXCEPT !.rows[tag] = row]
                         /\ row.button = panel.rows[tag].button
  BY ToggledRow
<1>4. /\ IsFetches(fetches') /\ BagToSet(fetches') = BagToSet(fetches) \cup S
      /\ \A g \in BagToSet(fetches) \ S : fetches'[g] = fetches[g]
  BY <1>1, <1>2, SentFetches DEF PanelInv
<1>5. \A g \in BagToSet(fetches') : g.attached =>
        /\ g \in BagToSet(fetches) /\ fetches'[g] = fetches[g]
        /\ g.tag = tag => row.button = "Deleting"
  BY <1>1, <1>3, <1>4 DEF PanelInv, ButtonSendsOnce
<1>6. tag \in DOMAIN panel.rows
  BY ToggledRow
<1> QED
  BY <1>3, <1>4, <1>5, <1>6, RowStep

LEMMA DeleteKeepsPanel ==
  ASSUME PanelInv, NEW tag \in Tags, DeleteTag(tag)
  PROVE  PanelInv'
<1> DEFINE f == [Fetch("delete", panel.repo, tag) EXCEPT !.attached = TRUE]
           row == [panel.rows[tag] EXCEPT !.button = "Deleting"]
<1>1. tag \in DOMAIN panel.rows /\ panel.repo \in Repos /\ panel.rows[tag] \in Rows
  BY PanelFields DEF DeleteTag, PanelInv, PanelOfRepo
<1>2. /\ f \in Fetches /\ f.attached /\ f.name = panel.repo /\ f.tag = tag
  BY <1>1 DEF Fetch, Fetches
<1>3. fetches' = fetches (+) SetToBag({f}) /\ panel' = [panel EXCEPT !.rows[tag] = row]
  BY <1>1, RowType DEF DeleteTag, PanelInv
<1>4. row \in Rows /\ row.button = "Deleting"
  BY <1>1, RowType DEF PanelInv
<1>5. \A g \in BagToSet(fetches) : g.attached => g.tag # tag
  BY DEF PanelInv, ButtonSendsOnce, DeleteTag
<1> HIDE DEF f, row
<1>6. /\ IsFetches(fetches') /\ BagToSet(fetches') = BagToSet(fetches) \cup {f}
      /\ \A g \in BagToSet(fetches) \ {f} : fetches'[g] = fetches[g]
      /\ fetches'[f] = 1
  BY <1>2, <1>3, <1>5, SentFetches DEF PanelInv
<1>7. \A g \in BagToSet(fetches') : g.attached =>
        \/ /\ g \in BagToSet(fetches) /\ fetches'[g] = fetches[g]
           /\ g.tag = tag => row.button = "Deleting"
        \/ /\ fetches'[g] = 1 /\ g.name = panel.repo
           /\ g.tag = tag /\ row.button = "Deleting"
  BY <1>2, <1>4, <1>6
<1> QED
  BY <1>1, <1>3, <1>4, <1>6, <1>7, RowStep

LEMMA RestoreKeepsPanel ==
  ASSUME PanelInv, NEW tag \in Tags, RestoreButton(tag)
  PROVE  PanelInv'
<1> DEFINE row == [panel.rows[tag] EXCEPT !.button = "Delete"]
<1>1. tag \in DOMAIN panel.rows /\ panel.rows[tag].button = "Failed" /\ fetches' = fetches
  BY DEF RestoreButton
<1>2. panel' = [panel EXCEPT !.rows[tag] = row] /\ row \in Rows
  BY <1>1, RowType DEF RestoreButton, PanelInv
<1>3. \A g \in BagToSet(fetches) : g.attached => g.tag # tag
  BY <1>1 DEF PanelInv, ButtonSendsOnce
<1> HIDE DEF row
<1>4. IsFetches(fetches')
  BY <1>1 DEF PanelInv
<1> QED
  BY <1>1, <1>2, <1>3, <1>4, RowStep

LEMMA FailKeepsPanel ==
  ASSUME PanelInv, NEW f \in BagToSet(fetches), FailDelete(f)
  PROVE  PanelInv'
<1>1. CASE ~f.attached
  BY <1>1, AnswerKeepsPanel DEF FailDelete
<1>2. CASE f.attached
  <2> DEFINE row == [panel.rows[f.tag] EXCEPT !.button = "Failed"]
  <2>1. f.tag \in DOMAIN panel.rows
    BY <1>2 DEF PanelInv, ButtonSendsOnce
  <2>2. panel' = [panel EXCEPT !.rows[f.tag] = row] /\ row \in Rows /\ fetches' = Without(f)
    BY <1>2, <2>1, RowType DEF FailDelete, PanelInv
  <2>3. LosesOnly(fetches, fetches', {f}) /\ f \notin BagToSet(fetches')
    BY <1>2, <2>2, WithoutFetch DEF PanelInv, ButtonSendsOnce
  <2>4. \A g \in BagToSet(fetches) : g.attached /\ g.tag = f.tag => g = f
    BY <1>2, OneDeletion
  <2> HIDE DEF row
  <2>5. \A g \in BagToSet(fetches') : g.attached =>
          g \in BagToSet(fetches) /\ fetches'[g] = fetches[g] /\ g.tag # f.tag
    BY <2>3, <2>4 DEF LosesOnly
  <2> QED
    BY <2>1, <2>2, <2>3, <2>5, RowStep DEF LosesOnly
<1> QED
  BY <1>1, <1>2, FetchType DEF PanelInv, IsFetches


LEMMA InfoRow ==
  ASSUME PanelInv, TypeOK, NEW f \in BagToSet(fetches), FinishInfo(f),
         f.tag \in DOMAIN panel.rows
  PROVE  /\ f.name \in Repos
         /\ \E row \in Rows :
              /\ panel' = [panel EXCEPT !.rows[f.tag] = row]
              /\ row.stat \in {f.name, "unavailable"}
              /\ row.layers = panel.rows[f.tag].layers
<1>1. f \in Fetches /\ f.kind = "info" /\ f.name \in Repos /\ f.tag \in Tags
  BY DEF FinishInfo, PanelInv, IsFetches, Fetches
<1>2. PICK stat \in {f.name, "unavailable"} :
        panel' = [panel EXCEPT !.rows[f.tag].stat   = stat,
                               !.rows[f.tag].hide   = layersVisible[ShownImage(f.tag)],
                               !.rows[f.tag].button = FreshButton(panel.repo)]
  BY DEF FinishInfo
<1> DEFINE hide == layersVisible[ShownImage(f.tag)]
           row == [panel.rows[f.tag] EXCEPT !.stat = stat, !.hide = hide,
                                            !.button = FreshButton(panel.repo)]
<1>3. panel.rows[f.tag] \in Rows /\ panel.repo \in Repos
  BY PanelFields DEF PanelInv, PanelOfRepo
<1>4. hide \in BOOLEAN
  BY <1>1, <1>3 DEF TypeOK, ShownImage, Images
<1>5. panel' = [panel EXCEPT !.rows[f.tag] = row]
  BY <1>2, PanelFields DEF PanelInv
<1>6. FreshButton(panel.repo) \in {"none", "Delete"}
  BY DEF FreshButton
<1> HIDE DEF hide
<1>7. row \in Rows /\ row.stat = stat /\ row.layers = panel.rows[f.tag].layers
  BY <1>1, <1>3, <1>4, <1>6 DEF Rows
<1> QED
  BY <1>1, <1>5, <1>7

LEMMA InfoKeepsPanel ==
  ASSUME PanelInv, NEW f \in BagToSet(fetches), FinishInfo(f), TypeOK
  PROVE  PanelInv'
<1>1. CASE f.tag \notin DOMAIN panel.rows
  BY <1>1, AnswerKeepsPanel DEF FinishInfo
<1>2. CASE f.tag \in DOMAIN panel.rows
  <2>1. PICK row \in Rows : panel' = [panel EXCEPT !.rows[f.tag] = row]
    BY <1>2, InfoRow
  <2> DEFINE P == Without(f)
  <2>2. LosesOnly(fetches, P, {f}) /\ (f.attached => f \notin BagToSet(P))
    BY WithoutFetch DEF PanelInv, ButtonSendsOnce
  <2>3. fetches' = Detached(P, {f.tag})
    BY <1>2 DEF FinishInfo
  <2> HIDE DEF P
  <2>4. /\ IsFetches(fetches')
        /\ \A g \in BagToSet(fetches') : g.attached =>
             g \in BagToSet(P) /\ g.tag \notin {f.tag} /\ fetches'[g] = P[g]
    BY <2>2, <2>3, DetachedFetches DEF LosesOnly
  <2>5. \A g \in BagToSet(fetches') : g.attached =>
          g \in BagToSet(fetches) /\ fetches'[g] = fetches[g] /\ g.tag # f.tag
    BY <2>2, <2>4 DEF LosesOnly
  <2> QED
    BY <1>2, <2>1, <2>4, <2>5, RowStep
<1> QED
  BY <1>1, <1>2

LEMMA LayersRow ==
  ASSUME PanelInv, NEW f \in BagToSet(fetches), FinishLayers(f),
         NEW image, image = [repo |-> f.name, tag |-> f.tag], IsShown(image)
  PROVE  /\ f.tag \in DOMAIN panel.rows /\ image = ShownImage(f.tag)
         /\ \E row \in Rows :
              /\ panel' = [panel EXCEPT !.rows[f.tag] = row]
              /\ row.stat = panel.rows[f.tag].stat
              /\ row.layers = RenderLayers(image)
              /\ row.button = panel.rows[f.tag].button
<1> DEFINE row == [panel.rows[f.tag] EXCEPT !.layers = RenderLayers(image)]
<1>1. /\ f.tag \in DOMAIN panel.rows /\ panel.rows[f.tag] \in Rows
      /\ image = ShownImage(f.tag)
  BY PanelFields DEF IsShown, PanelInv, ShownImage
<1>2. panel' = [panel EXCEPT !.rows[f.tag].layers = RenderLayers(image)]
  BY DEF FinishLayers
<1>3. RenderLayers(image) \in {"hidden", "loading", "unavailable", "details"}
  BY DEF RenderLayers
<1>4. panel' = [panel EXCEPT !.rows[f.tag] = row]
  BY <1>1, <1>2, PanelFields DEF PanelInv
<1>5. /\ row \in Rows /\ row.button = panel.rows[f.tag].button
      /\ row.stat = panel.rows[f.tag].stat /\ row.layers = RenderLayers(image)
  BY <1>1, <1>3 DEF Rows
<1> QED
  BY <1>1, <1>4, <1>5

LEMMA LayersKeepPanel ==
  ASSUME PanelInv, NEW f \in BagToSet(fetches), FinishLayers(f)
  PROVE  PanelInv'
<1> DEFINE image == [repo |-> f.name, tag |-> f.tag]
<1>1. fetches' = Without(f)
  BY DEF FinishLayers
<1>2. CASE ~IsShown(image)
  BY <1>1, <1>2, AnswerKeepsPanel DEF FinishLayers
<1>3. CASE IsShown(image)
  <2>1. PICK row \in Rows : /\ panel' = [panel EXCEPT !.rows[f.tag] = row]
                           /\ row.button = panel.rows[f.tag].button
    BY <1>3, LayersRow
  <2>2. LosesOnly(fetches, fetches', {f}) /\ (f.attached => f \notin BagToSet(fetches'))
    BY <1>1, WithoutFetch DEF PanelInv, ButtonSendsOnce
  <2>3. \A g \in BagToSet(fetches') : g.attached =>
          /\ g \in BagToSet(fetches) /\ fetches'[g] = fetches[g]
          /\ g.tag = f.tag => row.button = "Deleting"
    BY <2>1, <2>2 DEF LosesOnly, PanelInv, ButtonSendsOnce
  <2>4. f.tag \in DOMAIN panel.rows
    BY <1>3, LayersRow
  <2> QED
    BY <2>1, <2>2, <2>3, <2>4, RowStep DEF LosesOnly
<1> QED
  BY <1>2, <1>3

(* An answer after which the panel is drawn anew or stays as it is.        *)
LEMMA AnswerDraws ==
  ASSUME PanelInv, NEW f \in BagToSet(fetches),
         \/ panel' = panel /\ fetches' = Without(f)
         \/ \E repo \in Repos : LoadTags(repo, Without(f))
         \/ \E repo \in Repos, tags \in SUBSET Tags : RenderDetail(repo, tags, Without(f))
         \/ ShowMessage(Without(f))
  PROVE  PanelInv'
<1>1. CASE panel' = panel /\ fetches' = Without(f)
  BY <1>1, AnswerKeepsPanel
<1>2. CASE ~(panel' = panel /\ fetches' = Without(f))
  <2> DEFINE P == Without(f)
  <2>1. IsFetches(P)
    BY WithoutFetch DEF PanelInv, LosesOnly
  <2>2. \/ \E repo \in Repos : LoadTags(repo, P)
        \/ \E repo \in Repos, tags \in SUBSET Tags : RenderDetail(repo, tags, P)
        \/ ShowMessage(P)
    BY <1>2
  <2> HIDE DEF P
  <2> QED
    BY <2>1, <2>2, DrawnPanel DEF PanelInv
<1> QED
  BY <1>1, <1>2

LEMMA OutcomeType ==
  ASSUME NEW items, NEW answer \in Outcomes(items)
  PROVE  /\ answer.list \in SUBSET items /\ answer.status \in {"ok", "error", "exception"}
         /\ answer.status # "exception" => answer \in Cached(items)
BY DEF Outcomes, Cached

LEMMA CachedType ==
  ASSUME NEW items, NEW answer \in Cached(items)
  PROVE  answer.list \in SUBSET items
BY DEF Outcomes, Cached

LEMMA FetchFields ==
  ASSUME NEW f \in Fetches
  PROVE  /\ f.kind = "repos" => f.name \in Namespaces
         /\ f.kind # "repos" => f.name \in Repos
         /\ f.kind \in {"info", "layers", "delete"} => f.tag \in Tags
         /\ f.next \in Repos \cup {None}
BY DEF Fetches

LEMMA DeliverKeepsPanel ==
  ASSUME PanelInv, TypeOK, NEW f \in BagToSet(fetches), Deliver(f)
  PROVE  PanelInv'
<1>1. f \in Fetches
  BY DEF PanelInv, IsFetches
<1>2. CASE FinishRepos(f)
  <2>1. PICK answer : IF f.next # None
            THEN LoadTags(f.next, Without(f))
            ELSE IF answer.status = "ok" THEN fetches' = Without(f) /\ UNCHANGED panel
                                         ELSE ShowMessage(Without(f))
    BY <1>2 DEF FinishRepos
  <2> QED
    BY <1>1, <2>1, FetchFields, AnswerDraws
<1>3. CASE FinishTags(f)
  <2>1. PICK answer \in Outcomes(Tags) :
          IF answer.status = "ok" THEN RenderDetail(f.name, answer.list, Without(f))
                                  ELSE ShowMessage(Without(f))
    BY <1>3 DEF FinishTags
  <2>2. f.name \in Repos /\ answer.list \in SUBSET Tags
    BY <1>1, <1>3, FetchFields, OutcomeType DEF FinishTags
  <2> QED
    BY <2>1, <2>2, AnswerDraws
<1>4. CASE FinishInfo(f)
  BY <1>4, InfoKeepsPanel
<1>5. CASE FinishLayers(f)
  BY <1>5, LayersKeepPanel
<1>6. CASE FinishDelete(f)
  <2>1. f.name \in Repos
    BY <1>1, <1>6, FetchFields DEF FinishDelete
  <2> QED
    BY <1>6, <2>1, AnswerDraws DEF FinishDelete
<1>7. CASE FailDelete(f)
  BY <1>7, FailKeepsPanel
<1> QED
  BY <1>2, <1>3, <1>4, <1>5, <1>6, <1>7 DEF Deliver

LEMMA ReposKeepPanel ==
  ASSUME PanelInv, panel' = panel, NEW ns \in Namespaces, NEW next \in Repos \cup {None},
         LoadRepos(ns, next)
  PROVE  PanelInv'
<1> DEFINE f == [Fetch("repos", ns, None) EXCEPT !.next = next]
<1>1. f \in Fetches /\ ~f.attached /\ fetches' = fetches (+) SetToBag({f})
  BY FetchIsFetch DEF LoadRepos
<1> HIDE DEF f
<1> QED
  BY <1>1, SendKeepsPanel

LEMMA PanelStep ==
  ASSUME PanelInv, TypeOK, [Next]_vars
  PROVE  PanelInv'
<1>1. ASSUME NEW ns \in Namespaces, CollapseNamespace(ns)
      PROVE  PanelInv'
  BY <1>1, SamePanel DEF CollapseNamespace, PanelInv
<1>2. ASSUME NEW ns \in Namespaces, ExpandNamespace(ns)
      PROVE  PanelInv'
  BY <1>2, SamePanel, ReposKeepPanel DEF ExpandNamespace, PanelInv
<1>3. ASSUME NEW repo \in Repos, CollapseRepo(repo)
      PROVE  PanelInv'
  BY <1>3, SamePanel DEF CollapseRepo, PanelInv
<1>4. ASSUME NEW repo \in Repos, SelectRepo(repo)
      PROVE  PanelInv'
  <2>1. tagsByRepo[repo] # None => tagsByRepo[repo].list \in SUBSET Tags
    BY CachedType DEF TypeOK
  <2>2. \/ LoadTags(repo, fetches)
        \/ tagsByRepo[repo] # None /\ RenderDetail(repo, tagsByRepo[repo].list, fetches)
    BY <1>4 DEF SelectRepo
  <2>3. \/ \E r \in Repos : LoadTags(r, fetches)
        \/ \E r \in Repos, tags \in SUBSET Tags : RenderDetail(r, tags, fetches)
    BY <2>1, <2>2
  <2>4. IsFetches(fetches)
    BY DEF PanelInv
  <2> QED
    BY <2>3, <2>4, DrawnPanel DEF PanelInv
<1>5. ASSUME NEW tag \in Tags, ToggleDetails(tag)
      PROVE  PanelInv'
  BY <1>5, ToggleKeepsPanel
<1>6. ASSUME NEW tag \in Tags, DeleteTag(tag)
      PROVE  PanelInv'
  BY <1>6, DeleteKeepsPanel
<1>7. ASSUME NEW tag \in Tags, RestoreButton(tag)
      PROVE  PanelInv'
  BY <1>7, RestoreKeepsPanel
<1>8. CASE Refresh
  BY <1>8, ReposKeepPanel DEF Refresh, TypeOK
<1>9. ASSUME NEW f \in BagToSet(fetches), Deliver(f)
      PROVE  PanelInv'
  BY <1>9, DeliverKeepsPanel
<1>10. CASE UNCHANGED vars
  BY <1>10, SamePanel DEF vars, PanelInv
<1> QED
  BY <1>1, <1>2, <1>3, <1>4, <1>5, <1>6, <1>7, <1>8, <1>9, <1>10 DEF Next


LEMMA LayersType ==
  ASSUME TypeOK, NEW tag, tag \in Tags, ToggleDetails(tag), PanelInv
  PROVE  layersVisible' \in [Images -> BOOLEAN] /\ layersLoading' \in [Images -> BOOLEAN]
BY DEF TypeOK, ToggleDetails

LEMMA DeliverType ==
  ASSUME PanelInv, PanelInv', TypeOK, NEW f \in BagToSet(fetches), Deliver(f)
  PROVE  TypeOK'
<1> USE DEF TypeOK, PanelInv, IsFetches
<1>1. f \in Fetches /\ UNCHANGED <<expandedNamespace, expandedRepo>>
  BY OnlyClicksSelect
<1>2. CASE FinishRepos(f)
  <2>1. f.name \in Namespaces /\ f.next \in Repos \cup {None}
    BY <1>1, <1>2, FetchFields DEF FinishRepos
  <2>2. repoLoading' \in [Namespaces -> BOOLEAN]
    BY <1>2 DEF FinishRepos
  <2>3. /\ DOMAIN reposByNamespace' = Namespaces
        /\ \A ns \in Namespaces : reposByNamespace'[ns] \in Cached(ReposIn(ns)) \cup {None}
    BY <1>2, <2>1, OutcomeType DEF FinishRepos
  <2>4. /\ tagsByRepo' \in [Repos -> Cached(Tags) \cup {None}]
        /\ tagDetailsByTag' \in [Images -> {"fetched", "empty", None}]
    BY <1>2 DEF FinishRepos, ClearRepoCaches, layers
  <2>5. layersVisible' \in [Images -> BOOLEAN] /\ layersLoading' \in [Images -> BOOLEAN]
    <3>1. CASE f.next # None
      <4> DEFINE Cleared(image) == image.repo = f.next /\ tagDetailsByTag[image] # None
      <4>1. /\ layersVisible' = [image \in Images |-> layersVisible[image] /\ ~Cleared(image)]
            /\ layersLoading' = [image \in Images |-> layersLoading[image] /\ ~Cleared(image)]
        BY <1>2, <3>1 DEF FinishRepos, ClearRepoCaches
      <4>2. \A image \in Images :
              /\ (layersVisible[image] /\ ~Cleared(image)) \in BOOLEAN
              /\ (layersLoading[image] /\ ~Cleared(image)) \in BOOLEAN
        BY Zenon
      <4> HIDE DEF Cleared
      <4> QED
        BY <4>1, <4>2, Zenon
    <3>2. CASE f.next = None
      BY <1>2, <3>2 DEF FinishRepos, layers
    <3> QED
      BY <3>1, <3>2
  <2> QED
    BY <1>1, <2>2, <2>3, <2>4, <2>5
<1>3. CASE FinishTags(f)
  <2>1. PICK answer \in Outcomes(Tags) :
          tagsByRepo' = [tagsByRepo EXCEPT ![f.name] =
                           IF answer.status = "exception" THEN @ ELSE answer]
    BY <1>3 DEF FinishTags
  <2>2. answer.status # "exception" => answer \in Cached(Tags)
    BY OutcomeType
  <2>3. tagsByRepo' \in [Repos -> Cached(Tags) \cup {None}]
    BY <2>1, <2>2
  <2> QED
    BY <1>1, <1>3, <2>3 DEF FinishTags, tree, layers
<1>4. CASE FinishInfo(f)
  BY <1>1, <1>4 DEF FinishInfo, tree, layers
<1>5. CASE FinishLayers(f)
  BY <1>1, <1>5 DEF FinishLayers, tree
<1>6. CASE FinishDelete(f)
  BY <1>1, <1>6 DEF FinishDelete, tree
<1>7. CASE FailDelete(f)
  BY <1>1, <1>7 DEF FailDelete, tree, layers
<1> QED
  BY <1>2, <1>3, <1>4, <1>5, <1>6, <1>7 DEF Deliver

LEMMA TypeStep ==
  ASSUME PanelInv, PanelInv', TypeOK, [Next]_vars
  PROVE  TypeOK'
<1> USE DEF TypeOK, PanelInv, IsFetches
<1>1. ASSUME NEW ns \in Namespaces, CollapseNamespace(ns)
      PROVE  TypeOK'
  BY <1>1 DEF CollapseNamespace, layers
<1>2. ASSUME NEW ns \in Namespaces, ExpandNamespace(ns)
      PROVE  TypeOK'
  BY <1>2 DEF ExpandNamespace, LoadRepos, layers
<1>3. ASSUME NEW repo \in Repos, CollapseRepo(repo)
      PROVE  TypeOK'
  BY <1>3 DEF CollapseRepo, layers
<1>4. ASSUME NEW repo \in Repos, SelectRepo(repo)
      PROVE  TypeOK'
  BY <1>4 DEF SelectRepo, layers
<1>5. ASSUME NEW tag \in Tags, ToggleDetails(tag)
      PROVE  TypeOK'
  BY <1>5, LayersType DEF ToggleDetails, tree
<1>6. ASSUME NEW tag \in Tags, DeleteTag(tag) \/ RestoreButton(tag)
      PROVE  TypeOK'
  BY <1>6 DEF DeleteTag, RestoreButton, tree, layers
<1>7. CASE Refresh
  BY <1>7 DEF Refresh, LoadRepos, layers
<1>8. ASSUME NEW f \in BagToSet(fetches), Deliver(f)
      PROVE  TypeOK'
  BY <1>8, DeliverType
<1>9. CASE UNCHANGED vars
  BY <1>9 DEF vars, tree, layers
<1> QED
  BY <1>1, <1>2, <1>3, <1>4, <1>5, <1>6, <1>7, <1>8, <1>9 DEF Next

(* The types, what the panel is about, and the buttons: a button has one   *)
(* deletion under way at most, and shows it for as long as it is on the    *)
(* page, whatever answers, clicks and redrawn rows come in between.        *)
THEOREM Invariance == Spec => []Inv
<1>1. Init => Inv
  <2> SUFFICES ASSUME Init
               PROVE  Inv
    OBVIOUS
  <2> USE DEF Init
  <2>1. panel \in Panels
    BY PanelType, NoRows
  <2>2. IsABag(fetches) /\ BagToSet(fetches) = {}
    BY DEF EmptyBag, SetToBag, IsABag, BagToSet
  <2>3. TypeOK
    BY <2>1, <2>2 DEF TypeOK
  <2> QED
    BY <2>2, <2>3, NoRows DEF Inv, PanelOfRepo, ButtonSendsOnce
<1>2. Inv /\ [Next]_vars => Inv'
  <2> SUFFICES ASSUME Inv, [Next]_vars
               PROVE  Inv'
    OBVIOUS
  <2>1. PanelInv /\ TypeOK
    BY DEF Inv, PanelInv, TypeOK, IsFetches
  <2>2. PanelInv'
    BY <2>1, PanelStep
  <2>3. TypeOK'
    BY <2>1, <2>2, TypeStep
  <2> QED
    BY <2>2, <2>3 DEF Inv, PanelInv
<1> QED
  BY <1>1, <1>2, PTL DEF Spec


-----------------------------------------------------------------------------
(* What a step does to the pending fetches and to the panel.               *)

(* A fetch that is not attached stays pending until it is answered.        *)
LEMMA AnswerLosesOne ==
  ASSUME PanelInv, TypeOK, NEW f \in BagToSet(fetches), Deliver(f),
         NEW g \in BagToSet(fetches), ~g.attached, g # f
  PROVE  g \in BagToSet(fetches')
<1> DEFINE P == Without(f)
<1>1. IsFetches(P) /\ g \in BagToSet(P)
  BY WithoutFetch DEF PanelInv, LosesOnly
<1>2. f \in Fetches
  BY DEF PanelInv, IsFetches
<1>3. CASE fetches' = P
  BY <1>1, <1>3
<1>4. CASE FinishInfo(f) /\ fetches' # P
  <2>1. fetches' = Detached(P, {f.tag})
    BY <1>4 DEF FinishInfo
  <2> HIDE DEF P
  <2> QED
    BY <1>1, <2>1, DetachedFetches
<1>5. CASE ~FinishInfo(f) /\ fetches' # P
  <2>1. \/ \E repo \in Repos : LoadTags(repo, P)
        \/ \E repo \in Repos, tags \in SUBSET Tags : RenderDetail(repo, tags, P)
        \/ ShowMessage(P)
    <3>1. CASE FinishRepos(f)
      BY <1>2, <1>5, <3>1, FetchFields DEF FinishRepos
    <3>2. CASE FinishTags(f)
      <4>1. PICK answer \in Outcomes(Tags) :
              IF answer.status = "ok" THEN RenderDetail(f.name, answer.list, P)
                                      ELSE ShowMessage(P)
        BY <3>2 DEF FinishTags
      <4>2. f.name \in Repos /\ answer.list \in SUBSET Tags
        BY <1>2, <3>2, FetchFields, OutcomeType DEF FinishTags
      <4> QED
        BY <4>1, <4>2
    <3>3. CASE FinishLayers(f) \/ FailDelete(f)
      BY <1>5, <3>3 DEF FinishLayers, FailDelete
    <3>4. CASE FinishDelete(f)
      BY <1>2, <1>5, <3>4, FetchFields DEF FinishDelete
    <3> QED
      BY <1>5, <3>1, <3>2, <3>3, <3>4 DEF Deliver
  <2> HIDE DEF P
  <2> QED
    BY <1>1, <2>1, DrawnPanel
<1> QED
  BY <1>3, <1>4, <1>5

LEMMA SelectDraws ==
  ASSUME TypeOK, NEW repo \in Repos, SelectRepo(repo)
  PROVE  \/ LoadTags(repo, fetches)
         \/ /\ tagsByRepo[repo] # None /\ tagsByRepo[repo].list \in SUBSET Tags
            /\ RenderDetail(repo, tagsByRepo[repo].list, fetches)
BY CachedType DEF TypeOK, SelectRepo

LEMMA StaysPending ==
  ASSUME PanelInv, TypeOK, [Next]_vars, NEW g \in BagToSet(fetches), ~g.attached
  PROVE  g \in BagToSet(fetches') \/ Deliver(g)
<1> SUFFICES ASSUME ~Deliver(g)
             PROVE  g \in BagToSet(fetches')
  OBVIOUS
<1>1. ASSUME NEW S, S \subseteq Fetches, fetches' = fetches (+) SetToBag(S)
      PROVE  g \in BagToSet(fetches')
  BY <1>1, SentFetches DEF PanelInv
<1>2. ASSUME NEW ns \in Namespaces, NEW next \in Repos \cup {None}, LoadRepos(ns, next)
      PROVE  g \in BagToSet(fetches')
  BY <1>1, <1>2, FetchIsFetch DEF LoadRepos
<1>3. ASSUME NEW ns \in Namespaces, CollapseNamespace(ns) \/ ExpandNamespace(ns)
      PROVE  g \in BagToSet(fetches')
  BY <1>2, <1>3 DEF CollapseNamespace, ExpandNamespace
<1>4. ASSUME NEW repo \in Repos, CollapseRepo(repo)
      PROVE  g \in BagToSet(fetches')
  BY <1>4 DEF CollapseRepo
<1>5. ASSUME NEW repo \in Repos, SelectRepo(repo)
      PROVE  g \in BagToSet(fetches')
  BY <1>5, SelectDraws, DrawnPanel DEF PanelInv
<1>6. ASSUME NEW tag \in Tags, ToggleDetails(tag)
      PROVE  g \in BagToSet(fetches')
  <2>1. panel.repo \in Repos
    BY <1>6 DEF PanelInv, PanelOfRepo, ToggleDetails
  <2>2. fetches' = fetches (+) SetToBag({Fetch("layers", panel.repo, tag)}) \/
        fetches' = fetches (+) SetToBag({})
    BY <1>6 DEF ToggleDetails
  <2> QED
    BY <1>1, <2>1, <2>2, FetchIsFetch
<1>7. ASSUME NEW tag \in Tags, DeleteTag(tag)
      PROVE  g \in BagToSet(fetches')
  <2> DEFINE f == [Fetch("delete", panel.repo, tag) EXCEPT !.attached = TRUE]
  <2>1. panel.repo \in Repos
    BY <1>7 DEF PanelInv, PanelOfRepo, DeleteTag
  <2>2. {f} \subseteq Fetches
    BY <2>1 DEF Fetch, Fetches
  <2>3. fetches' = fetches (+) SetToBag({f})
    BY <1>7 DEF DeleteTag
  <2> HIDE DEF f
  <2> QED
    BY <1>1, <2>2, <2>3
<1>8. ASSUME NEW tag \in Tags, RestoreButton(tag)
      PROVE  g \in BagToSet(fetches')
  BY <1>8 DEF RestoreButton
<1>9. CASE Refresh
  BY <1>2, <1>9 DEF Refresh, TypeOK
<1>10. ASSUME NEW f \in BagToSet(fetches), Deliver(f)
       PROVE  g \in BagToSet(fetches')
  BY <1>10, AnswerLosesOne
<1>11. CASE UNCHANGED vars
  BY <1>11 DEF vars
<1> QED
  BY <1>3, <1>4, <1>5, <1>6, <1>7, <1>8, <1>9, <1>10, <1>11 DEF Next

(* The panel is drawn anew, with a fetch for all it says is loading.       *)
Redrawn ==
  /\ panel'.view = "loading" => Pending("tags", panel.repo, None)'
  /\ \A tag \in DOMAIN panel'.rows :
       panel'.rows[tag].layers = "hidden" /\ Pending("info", panel.repo, tag)'
  /\ panel'.view = "tags" /\ tagsByRepo'[panel'.repo] # None =>
       DOMAIN panel'.rows = tagsByRepo'[panel'.repo].list

(* The rows stay, the layers of a row may be rendered again, and whatever  *)
(* changes of the caches otherwise drops the list.                         *)
RowKept(tag) ==
  /\ panel'.rows[tag].stat = "loading" => panel.rows[tag].stat = "loading"
  /\ \/ panel'.rows[tag].layers = RenderLayers(ShownImage(tag))
     \/ /\ panel'.rows[tag].layers = panel.rows[tag].layers
        /\ \/ tagsByRepo'[panel.repo] = None
           \/ layersVisible'[ShownImage(tag)] = layersVisible[ShownImage(tag)]

RowsKept ==
  /\ panel'.view = panel.view /\ panel'.repo = panel.repo
  /\ DOMAIN panel'.rows = DOMAIN panel.rows
  /\ \A repo \in Repos : tagsByRepo'[repo] \in {tagsByRepo[repo], None}
  /\ \A tag \in DOMAIN panel.rows : RowKept(tag)

LEMMA LoadRedraws ==
  ASSUME NEW P, IsFetches(P), NEW repo \in Repos, LoadTags(repo, P)
  PROVE  Redrawn
<1> DEFINE S == {Fetch("tags", repo, None)}
<1>1. /\ Show("loading", repo, <<>>, P, S) /\ Fetch("tags", repo, None) \in S
      /\ S \subseteq Fetches /\ \A f \in S : ~f.attached
  BY FetchIsFetch DEF LoadTags
<1>2. panel'.view = "loading" /\ panel'.repo = repo /\ DOMAIN panel'.rows = {}
  BY <1>1, NoRows DEF Show
<1> HIDE DEF S
<1>3. Fetch("tags", repo, None) \in BagToSet(fetches')
  BY <1>1, ShowPanel, NoRows
<1> QED
  BY <1>2, <1>3 DEF Redrawn, Pending

LEMMA MessageRedraws ==
  ASSUME NEW P, ShowMessage(P)
  PROVE  Redrawn
BY NoRows DEF ShowMessage, Show, Redrawn

LEMMA DetailRedraws ==
  ASSUME NEW P, IsFetches(P), NEW repo \in Repos, NEW tags \in SUBSET Tags,
         RenderDetail(repo, tags, P),
         tagsByRepo'[repo] # None => tags = tagsByRepo'[repo].list
  PROVE  Redrawn
<1> DEFINE rows == [tag \in tags |-> [stat |-> "loading", layers |-> "hidden",
                                      hide |-> FALSE, button |-> FreshButton(repo)]]
           S == {Fetch("info", repo, tag) : tag \in tags}
<1>1. Show("tags", repo, rows, P, S)
  BY DEF RenderDetail
<1>2. rows \in [tags -> Rows]
  BY DEF Rows, FreshButton
<1>3. /\ S \subseteq Fetches /\ \A f \in S : ~f.attached
      /\ \A tag \in tags : Fetch("info", repo, tag) \in S /\ rows[tag].layers = "hidden"
  BY FetchIsFetch
<1> HIDE DEF rows, S
<1>4. panel'.view = "tags" /\ panel'.repo = repo /\ panel'.rows = rows
  BY <1>1 DEF Show
<1>5. S \subseteq BagToSet(fetches')
  BY <1>1, <1>2, <1>3, ShowPanel
<1> QED
  BY <1>2, <1>3, <1>4, <1>5 DEF Redrawn, Pending


LEMMA SameRows ==
  ASSUME panel' = panel, \A repo \in Repos : tagsByRepo'[repo] \in {tagsByRepo[repo], None},
         \A tag \in DOMAIN panel.rows :
           \/ tagsByRepo'[panel.repo] = None
           \/ layersVisible'[ShownImage(tag)] = layersVisible[ShownImage(tag)]
  PROVE  RowsKept
BY DEF RowsKept, RowKept

LEMMA OneRow ==
  ASSUME PanelInv, NEW tag \in DOMAIN panel.rows, NEW row \in Rows,
         panel' = [panel EXCEPT !.rows[tag] = row],
         row.stat = "loading" => panel.rows[tag].stat = "loading",
         UNCHANGED tagsByRepo,
         \/ row.layers = RenderLayers(ShownImage(tag))
         \/ row.layers = panel.rows[tag].layers /\ UNCHANGED layersVisible,
         \A t \in DOMAIN panel.rows \ {tag} :
           layersVisible'[ShownImage(t)] = layersVisible[ShownImage(t)]
  PROVE  RowsKept
<1>1. /\ panel'.view = panel.view /\ panel'.repo = panel.repo
      /\ DOMAIN panel'.rows = DOMAIN panel.rows
      /\ \A t \in DOMAIN panel.rows : panel'.rows[t] = IF t = tag THEN row ELSE panel.rows[t]
  BY RowChange DEF PanelInv
<1> QED
  BY <1>1 DEF RowsKept, RowKept

LEMMA DeletionDropsList ==
  ASSUME PanelInv, TypeOK, NEW f \in BagToSet(fetches), FinishDelete(f)
  PROVE  Redrawn \/ RowsKept
<1>1. f.name \in Repos /\ IsFetches(Without(f))
  BY FetchFields, WithoutFetch DEF FinishDelete, PanelInv, IsFetches, LosesOnly
<1>2. CASE LoadTags(f.name, Without(f))
  BY <1>1, <1>2, LoadRedraws
<1>3. CASE panel' = panel
  <2>1. \A repo \in Repos : tagsByRepo'[repo] = IF repo = f.name THEN None ELSE tagsByRepo[repo]
    BY DEF FinishDelete, TypeOK
  <2>2. \A tag \in DOMAIN panel.rows :
          panel.repo # f.name => layersVisible'[ShownImage(tag)] = layersVisible[ShownImage(tag)]
    <3> SUFFICES ASSUME NEW tag \in DOMAIN panel.rows, panel.repo # f.name
                 PROVE  layersVisible'[ShownImage(tag)] = layersVisible[ShownImage(tag)]
      OBVIOUS
    <3>1. panel.repo \in Repos /\ tag \in Tags
      BY PanelFields DEF PanelInv, PanelOfRepo
    <3>2. ShownImage(tag) \in Images /\ ShownImage(tag) # [repo |-> f.name, tag |-> f.tag]
      BY <3>1 DEF ShownImage, Images
    <3>3. layersVisible' = [layersVisible EXCEPT ![[repo |-> f.name, tag |-> f.tag]] = FALSE]
      BY DEF FinishDelete
    <3> QED
      BY <3>2, <3>3 DEF TypeOK
  <2>3. panel.repo = f.name => tagsByRepo'[panel.repo] = None
    BY <1>1, <2>1
  <2> QED
    BY <1>3, <2>1, <2>2, <2>3, SameRows
<1> QED
  BY <1>2, <1>3 DEF FinishDelete

LEMMA DeliverRows ==
  ASSUME PanelInv, TypeOK, NEW f \in BagToSet(fetches), Deliver(f)
  PROVE  Redrawn \/ RowsKept
<1>1. f \in Fetches /\ IsFetches(Without(f))
  BY WithoutFetch DEF PanelInv, IsFetches, LosesOnly
<1>2. CASE FinishRepos(f)
  <2>1. f.next # None => f.next \in Repos /\ LoadTags(f.next, Without(f))
    BY <1>1, <1>2, FetchFields DEF FinishRepos
  <2>2. f.next = None => /\ UNCHANGED <<tagsByRepo, layersVisible>>
                         /\ UNCHANGED panel \/ ShowMessage(Without(f))
    BY <1>2 DEF FinishRepos, layers
  <2> QED
    BY <1>1, <2>1, <2>2, LoadRedraws, MessageRedraws, SameRows
<1>3. CASE FinishTags(f)
  <2>1. PICK answer \in Outcomes(Tags) :
          /\ tagsByRepo' = [tagsByRepo EXCEPT ![f.name] =
                              IF answer.status = "exception" THEN @ ELSE answer]
          /\ IF answer.status = "ok" THEN RenderDetail(f.name, answer.list, Without(f))
                                     ELSE ShowMessage(Without(f))
    BY <1>3 DEF FinishTags
  <2>2. f.name \in Repos /\ answer.list \in SUBSET Tags
    BY <1>1, <1>3, FetchFields, OutcomeType DEF FinishTags
  <2>3. answer.status = "ok" => answer.list = tagsByRepo'[f.name].list
    BY <2>1, <2>2 DEF TypeOK
  <2> QED
    BY <1>1, <2>1, <2>2, <2>3, MessageRedraws, DetailRedraws
<1>4. CASE FinishInfo(f)
  <2>1. UNCHANGED <<tagsByRepo, layersVisible>>
    BY <1>4 DEF FinishInfo, layers
  <2>2. CASE f.tag \notin DOMAIN panel.rows
    BY <1>4, <2>1, <2>2, SameRows DEF FinishInfo
  <2>3. CASE f.tag \in DOMAIN panel.rows
    <3>1. PICK row \in Rows : /\ panel' = [panel EXCEPT !.rows[f.tag] = row]
                              /\ row.stat \in {f.name, "unavailable"}
                              /\ row.layers = panel.rows[f.tag].layers
      BY <1>4, <2>3, InfoRow
    <3>2. row.stat # "loading"
      BY <1>4, <2>3, <3>1, InfoRow, DashboardAssumption
    <3> QED
      BY <2>1, <2>3, <3>1, <3>2, OneRow
  <2> QED
    BY <2>2, <2>3
<1>5. CASE FinishLayers(f)
  <2> DEFINE image == [repo |-> f.name, tag |-> f.tag]
  <2>1. UNCHANGED <<tagsByRepo, layersVisible>>
    BY <1>5 DEF FinishLayers
  <2>2. CASE ~IsShown(image)
    BY <1>5, <2>1, <2>2, SameRows DEF FinishLayers
  <2>3. CASE IsShown(image)
    <3>1. PICK row \in Rows : /\ panel' = [panel EXCEPT !.rows[f.tag] = row]
                              /\ row.stat = panel.rows[f.tag].stat
                              /\ row.layers = RenderLayers(image)
      BY <1>5, <2>3, LayersRow
    <3>2. image = ShownImage(f.tag) /\ f.tag \in DOMAIN panel.rows
      BY <1>5, <2>3, LayersRow
    <3> QED
      BY <2>1, <3>1, <3>2, OneRow
  <2> QED
    BY <2>2, <2>3
<1>6. CASE FinishDelete(f)
  BY <1>6, DeletionDropsList
<1>7. CASE FailDelete(f)
  <2>1. UNCHANGED <<tagsByRepo, layersVisible>>
    BY <1>7 DEF FailDelete, layers
  <2>2. CASE ~f.attached
    BY <1>7, <2>1, <2>2, SameRows DEF FailDelete
  <2>3. CASE f.attached
    <3>1. f.tag \in DOMAIN panel.rows
      BY <2>3 DEF PanelInv, ButtonSendsOnce
    <3> QED
      BY <1>7, <2>1, <2>3, <3>1, RowType, OneRow DEF FailDelete, PanelInv
  <2> QED
    BY <2>2, <2>3
<1> QED
  BY <1>2, <1>3, <1>4, <1>5, <1>6, <1>7 DEF Deliver

LEMMA RedrawnOrKept ==
  ASSUME PanelInv, TypeOK, [Next]_vars
  PROVE  Redrawn \/ RowsKept
<1>1. ASSUME UNCHANGED <<panel, tagsByRepo, layersVisible>>
      PROVE  RowsKept
  BY <1>1, SameRows
<1>2. ASSUME NEW ns \in Namespaces, CollapseNamespace(ns) \/ ExpandNamespace(ns)
      PROVE  RowsKept
  BY <1>1, <1>2 DEF CollapseNamespace, ExpandNamespace, layers
<1>3. ASSUME NEW repo \in Repos, CollapseRepo(repo)
      PROVE  RowsKept
  BY <1>1, <1>3 DEF CollapseRepo, layers
<1>4. ASSUME NEW repo \in Repos, SelectRepo(repo)
      PROVE  Redrawn
  <2>1. UNCHANGED tagsByRepo /\ IsFetches(fetches)
    BY <1>4 DEF SelectRepo, PanelInv
  <2> QED
    BY <1>4, <2>1, SelectDraws, LoadRedraws, DetailRedraws
<1>5. ASSUME NEW tag \in Tags, ToggleDetails(tag)
      PROVE  RowsKept
  <2>1. PICK row \in Rows : /\ panel' = [panel EXCEPT !.rows[tag] = row]
                            /\ row.stat = panel.rows[tag].stat
                            /\ row.layers = RenderLayers(ShownImage(tag))
    BY <1>5, ToggledRow
  <2>2. tag \in DOMAIN panel.rows /\ panel.repo \in Repos
    BY <1>5, ToggledRow
  <2>3. \A t \in DOMAIN panel.rows \ {tag} :
          layersVisible'[ShownImage(t)] = layersVisible[ShownImage(t)]
    BY <1>5 DEF ToggleDetails, ShownImage, TypeOK
  <2>4. UNCHANGED tagsByRepo
    BY <1>5 DEF ToggleDetails
  <2> QED
    BY <2>1, <2>2, <2>3, <2>4, OneRow
<1>6. ASSUME NEW tag \in Tags, DeleteTag(tag) \/ RestoreButton(tag)
      PROVE  RowsKept
  <2>1. tag \in DOMAIN panel.rows /\ UNCHANGED <<tagsByRepo, layersVisible>>
    BY <1>6 DEF DeleteTag, RestoreButton, layers
  <2>2. PICK button \in {"Delete", "Deleting"} :
          panel' = [panel EXCEPT !.rows[tag].button = button]
    BY <1>6 DEF DeleteTag, RestoreButton
  <2> QED
    BY <2>1, <2>2, RowType, OneRow DEF PanelInv
<1>7. CASE Refresh
  BY <1>1, <1>7 DEF Refresh, layers
<1>8. ASSUME NEW f \in BagToSet(fetches), Deliver(f)
      PROVE  Redrawn \/ RowsKept
  BY <1>8, DeliverRows
<1>9. CASE UNCHANGED vars
  BY <1>1, <1>9 DEF vars, layers
<1> QED
  BY <1>2, <1>3, <1>4, <1>5, <1>6, <1>7, <1>8, <1>9 DEF Next


(* What the flags say is loading was loading before, or was just fetched.  *)
LEMMA FlagsRaised ==
  ASSUME PanelInv, TypeOK, [Next]_vars
  PROVE  /\ \A ns \in Namespaces : repoLoading'[ns] =>
              repoLoading[ns] \/ \E f \in BagToSet(fetches') : f.kind = "repos" /\ f.name = ns
         /\ \A image \in Images : layersLoading'[image] =>
              layersLoading[image] \/ Pending("layers", image.repo, image.tag)'
<1> DEFINE Branches == \A ns \in Namespaces : repoLoading'[ns] =>
             repoLoading[ns] \/ \E f \in BagToSet(fetches') : f.kind = "repos" /\ f.name = ns
           Layers == \A image \in Images : layersLoading'[image] =>
             layersLoading[image] \/ Pending("layers", image.repo, image.tag)'
<1>1. ASSUME UNCHANGED repoLoading
      PROVE  Branches
  BY <1>1
<1>2. ASSUME UNCHANGED layersLoading
      PROVE  Layers
  BY <1>2
<1>3. ASSUME NEW ns \in Namespaces, NEW next \in Repos \cup {None}, LoadRepos(ns, next)
      PROVE  Branches
  <2> DEFINE f == [Fetch("repos", ns, None) EXCEPT !.next = next]
  <2>1. f \in Fetches /\ f.kind = "repos" /\ f.name = ns
    BY DEF Fetch, Fetches
  <2>2. fetches' = fetches (+) SetToBag({f})
    BY <1>3 DEF LoadRepos
  <2> HIDE DEF f
  <2>3. f \in BagToSet(fetches')
    BY <2>1, <2>2, SentFetches DEF PanelInv
  <2>4. repoLoading' = [repoLoading EXCEPT ![ns] = TRUE]
    BY <1>3 DEF LoadRepos
  <2>5. \A m \in Namespaces \ {ns} : repoLoading'[m] = repoLoading[m]
    BY <2>4 DEF TypeOK
  <2> QED
    BY <2>1, <2>3, <2>5
<1>4. ASSUME NEW ns \in Namespaces, CollapseNamespace(ns)
      PROVE  Branches /\ Layers
  BY <1>1, <1>2, <1>4 DEF CollapseNamespace, layers
<1>5. ASSUME NEW ns \in Namespaces, ExpandNamespace(ns)
      PROVE  Branches /\ Layers
  BY <1>1, <1>2, <1>3, <1>5 DEF ExpandNamespace, layers
<1>6. ASSUME NEW repo \in Repos, CollapseRepo(repo) \/ SelectRepo(repo)
      PROVE  Branches /\ Layers
  BY <1>1, <1>2, <1>6 DEF CollapseRepo, SelectRepo, layers
<1>7. ASSUME NEW tag \in Tags, ToggleDetails(tag)
      PROVE  Branches /\ Layers
  <2> DEFINE image == ShownImage(tag)
             fetch == ~layersVisible[image] /\ tagDetailsByTag[image] = None
             f == Fetch("layers", panel.repo, tag)
  <2>1. f \in Fetches /\ image.repo = panel.repo /\ image.tag = tag
    BY <1>7, ToggledRow, FetchIsFetch DEF ShownImage
  <2>2. UNCHANGED repoLoading
    BY <1>7 DEF ToggleDetails, tree
  <2>3. fetch => fetches' = fetches (+) SetToBag({f})
    BY <1>7 DEF ToggleDetails
  <2>4. layersLoading' = [layersLoading EXCEPT ![image] = @ \/ fetch]
    BY <1>7 DEF ToggleDetails
  <2> HIDE DEF f, fetch
  <2>5. fetch => f \in BagToSet(fetches')
    BY <2>1, <2>3, SentFetches DEF PanelInv
  <2>6. \A i \in Images \ {image} : layersLoading'[i] = layersLoading[i]
    BY <2>4 DEF TypeOK
  <2>7. image \in Images => layersLoading'[image] = (layersLoading[image] \/ fetch)
    BY <2>4 DEF TypeOK
  <2> HIDE DEF image
  <2>8. \A i \in Images : layersLoading'[i] => layersLoading[i] \/ (i = image /\ fetch)
    BY <2>6, <2>7, Zenon
  <2>9. fetch => Fetch("layers", image.repo, image.tag) \in BagToSet(fetches')
    BY <2>1, <2>5 DEF f
  <2>10. Layers
    <3> SUFFICES ASSUME NEW i \in Images, layersLoading'[i], ~layersLoading[i]
                 PROVE  Pending("layers", i.repo, i.tag)'
      OBVIOUS
    <3>1. Fetch("layers", i.repo, i.tag) \in BagToSet(fetches')
      BY <2>8, <2>9
    <3> QED
      BY <3>1 DEF Pending
  <2> QED
    BY <1>1, <2>2, <2>10
<1>8. ASSUME NEW tag \in Tags, DeleteTag(tag) \/ RestoreButton(tag)
      PROVE  Branches /\ Layers
  BY <1>1, <1>2, <1>8 DEF DeleteTag, RestoreButton, tree, layers
<1>9. CASE Refresh
  BY <1>2, <1>3, <1>9 DEF Refresh, layers, TypeOK
<1>10. ASSUME NEW f \in BagToSet(fetches), Deliver(f)
       PROVE  Branches /\ Layers
  <2>1. CASE FinishRepos(f)
    <3>1. Branches
      BY <2>1 DEF FinishRepos, TypeOK
    <3>2. CASE f.next = None
      BY <1>2, <2>1, <3>1, <3>2 DEF FinishRepos, layers
    <3>3. CASE f.next # None
      BY <2>1, <3>1, <3>3 DEF FinishRepos, ClearRepoCaches
    <3> QED
      BY <3>2, <3>3
  <2>2. CASE FinishTags(f) \/ FinishInfo(f) \/ FailDelete(f)
    BY <1>1, <1>2, <2>2 DEF FinishTags, FinishInfo, FailDelete, tree, layers
  <2>3. CASE FinishLayers(f) \/ FinishDelete(f)
    BY <1>1, <2>3 DEF FinishLayers, FinishDelete, tree, TypeOK
  <2> QED
    BY <1>10, <2>1, <2>2, <2>3 DEF Deliver
<1>11. CASE UNCHANGED vars
  BY <1>1, <1>2, <1>11 DEF vars, tree, layers
<1> QED
  BY <1>4, <1>5, <1>6, <1>7, <1>8, <1>9, <1>10, <1>11 DEF Next

(* An answer ends the loading it is for.                                   *)
LEMMA AnswerEndsLoading ==
  ASSUME PanelInv, TypeOK, NEW f \in BagToSet(fetches), Deliver(f)
  PROVE  /\ f.kind = "repos" => ~repoLoading'[f.name]
         /\ f.kind = "tags" => panel'.view # "loading"
         /\ \A tag \in DOMAIN panel'.rows :
              f = Fetch("info", panel'.repo, tag) => panel'.rows[tag].stat # "loading"
         /\ \A image \in Images :
              f = Fetch("layers", image.repo, image.tag) => ~layersLoading'[image]
<1>1. f \in Fetches
  BY DEF PanelInv, IsFetches
<1>2. ASSUME f.kind = "repos"
      PROVE  ~repoLoading'[f.name]
  <2>1. FinishRepos(f) /\ f.name \in Namespaces
    BY <1>1, <1>2, FetchFields DEF Deliver, FinishTags, FinishInfo, FinishLayers, FinishDelete,
       FailDelete
  <2> QED
    BY <2>1 DEF FinishRepos, TypeOK
<1>3. ASSUME f.kind = "tags"
      PROVE  panel'.view # "loading"
  <2>1. FinishTags(f)
    BY <1>3 DEF Deliver, FinishRepos, FinishInfo, FinishLayers, FinishDelete, FailDelete
  <2> QED
    BY <2>1 DEF FinishTags, RenderDetail, ShowMessage, Show
<1>4. ASSUME NEW tag \in DOMAIN panel'.rows, f = Fetch("info", panel'.repo, tag)
      PROVE  panel'.rows[tag].stat # "loading"
  <2>1. f.kind = "info" /\ f.tag = tag
    BY <1>4 DEF Fetch
  <2>2. FinishInfo(f)
    BY <2>1 DEF Deliver, FinishRepos, FinishTags, FinishLayers, FinishDelete, FailDelete
  <2>3. CASE tag \in DOMAIN panel.rows
    <3>1. PICK row \in Rows : /\ panel' = [panel EXCEPT !.rows[tag] = row]
                              /\ row.stat \in {f.name, "unavailable"}
      BY <2>1, <2>2, <2>3, InfoRow
    <3>2. row.stat # "loading"
      BY <2>1, <2>2, <2>3, <3>1, InfoRow, DashboardAssumption
    <3>3. panel'.rows[tag] = row
      BY <2>3, <3>1, RowChange DEF PanelInv
    <3> QED
      BY <3>2, <3>3
  <2>4. CASE tag \notin DOMAIN panel.rows
    BY <1>4, <2>1, <2>2, <2>4 DEF FinishInfo
  <2> QED
    BY <2>3, <2>4
<1>5. ASSUME NEW image \in Images, f = Fetch("layers", image.repo, image.tag)
      PROVE  ~layersLoading'[image]
  <2>1. f.kind = "layers" /\ f.name = image.repo /\ f.tag = image.tag
    BY <1>5 DEF Fetch
  <2>2. FinishLayers(f)
    BY <2>1 DEF Deliver, FinishRepos, FinishTags, FinishInfo, FinishDelete, FailDelete
  <2>3. image = [repo |-> f.name, tag |-> f.tag]
    BY <2>1 DEF Images
  <2> QED
    BY <2>2, <2>3 DEF FinishLayers, TypeOK
<1> QED
  BY <1>2, <1>3, <1>4, <1>5


-----------------------------------------------------------------------------
(* What says "loading" was drawn when its fetch was sent, and the fetch    *)
(* stays pending until its answer draws something else.                    *)
LEMMA UnderWayStep ==
  ASSUME PanelInv, PanelInv', TypeOK, LoadingIsUnderWay, [Next]_vars
  PROVE  LoadingIsUnderWay'
<1>1. \A g \in BagToSet(fetches) : ~g.attached => g \in BagToSet(fetches') \/ Deliver(g)
  BY StaysPending
<1>2. ASSUME NEW ns \in Namespaces, repoLoading'[ns]
      PROVE  \E f \in BagToSet(fetches') : f.kind = "repos" /\ f.name = ns
  <2>1. CASE repoLoading[ns]
    <3>1. PICK f \in BagToSet(fetches) : f.kind = "repos" /\ f.name = ns
      BY <2>1 DEF LoadingIsUnderWay
    <3>2. ~f.attached
      BY <3>1, FetchType DEF PanelInv, IsFetches
    <3> QED
      BY <1>1, <1>2, <3>1, <3>2, AnswerEndsLoading
  <2> QED
    BY <1>2, <2>1, FlagsRaised
<1>3. ASSUME NEW image \in Images, layersLoading'[image]
      PROVE  Fetch("layers", image.repo, image.tag) \in BagToSet(fetches')
  <2>1. CASE layersLoading[image]
    <3> DEFINE f == Fetch("layers", image.repo, image.tag)
    <3>1. f \in BagToSet(fetches) /\ ~f.attached
      BY <2>1, FetchIsFetch DEF LoadingIsUnderWay, Pending
    <3> HIDE DEF f
    <3>2. f \in BagToSet(fetches') \/ Deliver(f)
      BY <1>1, <3>1
    <3>3. ~Deliver(f)
      BY <1>3, <3>1, AnswerEndsLoading DEF f
    <3> QED
      BY <3>2, <3>3 DEF f
  <2> QED
    BY <1>3, <2>1, FlagsRaised DEF Pending
<1>4. ASSUME panel'.view = "loading"
      PROVE  Fetch("tags", panel'.repo, None) \in BagToSet(fetches')
  <2>1. CASE RowsKept
    <3> DEFINE f == Fetch("tags", panel.repo, None)
    <3>1. panel.view = "loading" /\ panel'.repo = panel.repo
      BY <1>4, <2>1 DEF RowsKept
    <3>2. f \in BagToSet(fetches) /\ ~f.attached /\ f.kind = "tags"
      BY <3>1, FetchIsFetch DEF LoadingIsUnderWay, Pending, Fetch
    <3> HIDE DEF f
    <3>3. f \in BagToSet(fetches') \/ Deliver(f)
      BY <1>1, <3>2
    <3>4. ~Deliver(f)
      BY <1>4, <3>2, AnswerEndsLoading
    <3> QED
      BY <3>1, <3>3, <3>4 DEF f
  <2>2. CASE Redrawn
    BY <1>4, <2>2 DEF Redrawn, Pending
  <2> QED
    BY <2>1, <2>2, RedrawnOrKept
<1>5. ASSUME NEW tag \in DOMAIN panel'.rows, panel'.rows[tag].stat = "loading"
      PROVE  Fetch("info", panel'.repo, tag) \in BagToSet(fetches')
  <2>1. CASE RowsKept
    <3> DEFINE f == Fetch("info", panel.repo, tag)
    <3>1. /\ tag \in DOMAIN panel.rows /\ panel.rows[tag].stat = "loading"
          /\ panel'.repo = panel.repo
      BY <1>5, <2>1 DEF RowsKept, RowKept
    <3>2. f \in BagToSet(fetches) /\ ~f.attached
      BY <3>1, FetchIsFetch DEF LoadingIsUnderWay, Pending
    <3>3. Deliver(f) => panel'.rows[tag].stat # "loading"
      BY <3>1, <3>2, AnswerEndsLoading
    <3> HIDE DEF f
    <3>4. f \in BagToSet(fetches')
      BY <1>1, <1>5, <3>2, <3>3
    <3> QED
      BY <3>1, <3>4 DEF f
  <2>2. CASE Redrawn
    BY <1>5, <2>2 DEF Redrawn, Pending
  <2> QED
    BY <2>1, <2>2, RedrawnOrKept
<1>6. ASSUME NEW tag \in DOMAIN panel'.rows, panel'.rows[tag].layers = "loading"
      PROVE  Fetch("layers", panel'.repo, tag) \in BagToSet(fetches')
  <2>1. CASE RowsKept
    <3> DEFINE f == Fetch("layers", panel.repo, tag)
               image == ShownImage(tag)
    <3>1. tag \in DOMAIN panel.rows /\ panel'.repo = panel.repo
      BY <2>1 DEF RowsKept
    <3>2. image \in Images /\ image.repo = panel.repo /\ image.tag = tag
      BY <3>1, PanelFields DEF PanelInv, PanelOfRepo, ShownImage, Images
    <3>3. CASE panel'.rows[tag].layers = RenderLayers(image)
      <4>1. layersLoading'[image]
        BY <1>6, <3>3 DEF RenderLayers
      <4> QED
        BY <1>3, <3>1, <3>2, <4>1
    <3>4. CASE panel'.rows[tag].layers # RenderLayers(image)
      <4>1. panel.rows[tag].layers = "loading"
        BY <1>6, <2>1, <3>1, <3>4 DEF RowsKept, RowKept
      <4>2. f \in BagToSet(fetches) /\ ~f.attached
        BY <3>1, <4>1, FetchIsFetch DEF LoadingIsUnderWay, Pending
      <4>3. f \in BagToSet(fetches') \/ Deliver(f)
        BY <1>1, <4>2
      <4>4. Deliver(f) => panel'.rows[tag].layers # "loading"
        \* An answer for a row on display renders it.
        <5>1. Deliver(f) => FinishLayers(f)
          BY DEF Deliver, Fetch, FinishRepos, FinishTags, FinishInfo, FinishDelete, FailDelete
        <5>2. f.name = panel.repo /\ f.tag = tag
          BY DEF Fetch
        <5>3. Deliver(f) => /\ IsShown(image) /\ FinishLayers(f)
                            /\ image = [repo |-> f.name, tag |-> f.tag]
          BY <3>1, <5>1, <5>2 DEF IsShown, ShownImage
        <5> HIDE DEF f, image
        <5>4. Deliver(f) => \E row \in Rows : /\ panel' = [panel EXCEPT !.rows[tag] = row]
                                              /\ row.layers = RenderLayers(image)
          BY <4>2, <5>2, <5>3, LayersRow
        <5>5. Deliver(f) => panel'.rows[tag].layers = RenderLayers(image)
          BY <3>1, <5>4, RowChange DEF PanelInv
        <5> QED
          BY <3>4, <5>5
      <4> QED
        BY <1>6, <3>1, <4>3, <4>4
    <3> QED
      BY <3>3, <3>4
  <2>2. CASE Redrawn
    BY <1>6, <2>2 DEF Redrawn
  <2> QED
    BY <2>1, <2>2, RedrawnOrKept
<1> QED
  BY <1>2, <1>3, <1>4, <1>5, <1>6 DEF LoadingIsUnderWay, Pending

(* Whatever says "loading" has its fetch under way, in every state.        *)
THEOREM LoadingHasItsFetch == Spec => []LoadingIsUnderWay
<1>1. Init => LoadingIsUnderWay
  BY NoRows DEF Init, LoadingIsUnderWay
<1>2. Inv /\ Inv' /\ LoadingIsUnderWay /\ [Next]_vars => LoadingIsUnderWay'
  BY UnderWayStep DEF Inv, PanelInv, TypeOK, IsFetches
<1> QED
  BY <1>1, <1>2, Invariance, PTL DEF Spec

(* The rows on display are those of the cached list, if there is one.      *)
THEOREM PanelShowsCache == Spec => []PanelIsCached
<1>1. Init => PanelIsCached
  BY DEF Init, PanelIsCached
<1>2. Inv /\ PanelIsCached /\ [Next]_vars => PanelIsCached'
  <2> SUFFICES ASSUME Inv, PanelIsCached, [Next]_vars
               PROVE  PanelIsCached'
    OBVIOUS
  <2>1. CASE RowsKept
    <3>1. panel.view = "tags" => panel.repo \in Repos
      BY DEF Inv, PanelOfRepo
    <3> QED
      BY <2>1, <3>1 DEF RowsKept, PanelIsCached
  <2>2. CASE Redrawn
    BY <2>2 DEF Redrawn, PanelIsCached
  <2> QED
    BY <2>1, <2>2, RedrawnOrKept DEF Inv, PanelInv, TypeOK, IsFetches
<1> QED
  BY <1>1, <1>2, Invariance, PTL DEF Spec

-----------------------------------------------------------------------------
(* The list of the selected repository: either the panel and what is       *)
(* selected stay as they are, and so does the list ...                     *)
SelectionKept ==
  /\ panel'.view = panel.view /\ panel'.repo = panel.repo
  /\ expandedRepo' \in {expandedRepo, None}
  /\ expandedRepo = panel.repo => tagsByRepo'[panel.repo] = tagsByRepo[panel.repo]

(* ... or the panel is drawn anew, with rows only from a list in the cache. *)
DrawnFromCache ==
  panel'.view = "tags" => tagsByRepo'[panel'.repo] # None

LEMMA LoadOrMessage ==
  ASSUME NEW P, ShowMessage(P) \/ \E repo \in Repos : LoadTags(repo, P)
  PROVE  DrawnFromCache
<1>1. CASE ShowMessage(P)
  <2>1. panel'.view = "message"
    BY <1>1 DEF ShowMessage, Show
  <2> QED
    BY <2>1 DEF DrawnFromCache
<1>2. ASSUME NEW repo \in Repos, LoadTags(repo, P)
      PROVE  DrawnFromCache
  <2>1. panel'.view = "loading"
    BY <1>2 DEF LoadTags, Show
  <2> QED
    BY <2>1 DEF DrawnFromCache
<1> QED
  BY <1>1, <1>2

LEMMA DeliverSelected ==
  ASSUME PanelInv, TypeOK, NEW f \in BagToSet(fetches), Deliver(f)
  PROVE  SelectionKept \/ DrawnFromCache
<1>1. f \in Fetches /\ UNCHANGED expandedRepo
  BY OnlyClicksSelect DEF PanelInv, IsFetches
<1>2. CASE FinishRepos(f)
  <2>1. f.next # None => f.next \in Repos /\ LoadTags(f.next, Without(f))
    BY <1>1, <1>2, FetchFields DEF FinishRepos
  <2>2. f.next = None => /\ UNCHANGED tagsByRepo
                         /\ UNCHANGED panel \/ ShowMessage(Without(f))
    BY <1>2 DEF FinishRepos
  <2> QED
    BY <1>1, <2>1, <2>2, LoadOrMessage DEF SelectionKept
<1>3. CASE FinishTags(f)
  <2>1. PICK answer \in Outcomes(Tags) :
          /\ tagsByRepo' = [tagsByRepo EXCEPT ![f.name] =
                              IF answer.status = "exception" THEN @ ELSE answer]
          /\ IF answer.status = "ok" THEN RenderDetail(f.name, answer.list, Without(f))
                                     ELSE ShowMessage(Without(f))
    BY <1>3 DEF FinishTags
  <2>2. CASE answer.status = "ok"
    <3>1. panel'.repo = f.name
      BY <2>1, <2>2 DEF RenderDetail, Show
    <3>2. f.name \in Repos
      BY <1>1, <1>3, FetchFields DEF FinishTags
    <3>3. tagsByRepo'[f.name] = answer
      BY <2>1, <2>2, <3>2 DEF TypeOK
    <3> QED
      BY <3>1, <3>3, NoneAssumption DEF DrawnFromCache
  <2>3. CASE answer.status # "ok"
    BY <2>1, <2>3, LoadOrMessage
  <2> QED
    BY <2>2, <2>3
<1>4. CASE FinishInfo(f)
  <2>1. UNCHANGED tagsByRepo
    BY <1>4 DEF FinishInfo
  <2>2. CASE f.tag \notin DOMAIN panel.rows
    BY <1>1, <1>4, <2>1, <2>2 DEF FinishInfo, SelectionKept
  <2>3. CASE f.tag \in DOMAIN panel.rows
    <3>1. PICK row \in Rows : panel' = [panel EXCEPT !.rows[f.tag] = row]
      BY <1>4, <2>3, InfoRow
    <3> QED
      BY <1>1, <2>1, <2>3, <3>1, RowChange DEF PanelInv, SelectionKept
  <2> QED
    BY <2>2, <2>3
<1>5. CASE FinishLayers(f)
  <2> DEFINE image == [repo |-> f.name, tag |-> f.tag]
  <2>1. UNCHANGED tagsByRepo
    BY <1>5 DEF FinishLayers
  <2>2. CASE ~IsShown(image)
    BY <1>1, <1>5, <2>1, <2>2 DEF FinishLayers, SelectionKept
  <2>3. CASE IsShown(image)
    <3>1. PICK row \in Rows : panel' = [panel EXCEPT !.rows[f.tag] = row]
      BY <1>5, <2>3, LayersRow
    <3>2. f.tag \in DOMAIN panel.rows
      BY <1>5, <2>3, LayersRow
    <3> QED
      BY <1>1, <2>1, <3>1, <3>2, RowChange DEF PanelInv, SelectionKept
  <2> QED
    BY <2>2, <2>3
<1>6. CASE FinishDelete(f)
  <2>1. f.name \in Repos
    BY <1>1, <1>6, FetchFields DEF FinishDelete
  <2>2. CASE expandedRepo = f.name
    BY <1>6, <2>1, <2>2, LoadOrMessage DEF FinishDelete
  <2>3. CASE expandedRepo # f.name
    <3>1. panel' = panel
      BY <1>6, <2>3 DEF FinishDelete
    <3>2. \A repo \in Repos \ {f.name} : tagsByRepo'[repo] = tagsByRepo[repo]
      BY <1>6 DEF FinishDelete, TypeOK
    <3>3. panel.repo \in Repos \cup {None}
      BY DEF PanelInv, Panels
    <3>4. tagsByRepo' = [tagsByRepo EXCEPT ![f.name] = None]
      BY <1>6 DEF FinishDelete
    <3>5. \A x : x # f.name => tagsByRepo'[x] = tagsByRepo[x]
      BY <3>4 DEF TypeOK
    <3> QED
      BY <1>1, <2>3, <3>1, <3>5 DEF SelectionKept
  <2> QED
    BY <2>2, <2>3
<1>7. CASE FailDelete(f)
  <2>1. UNCHANGED tagsByRepo
    BY <1>7 DEF FailDelete
  <2>2. CASE ~f.attached
    BY <1>1, <1>7, <2>1, <2>2 DEF FailDelete, SelectionKept
  <2>3. CASE f.attached
    <3>1. f.tag \in DOMAIN panel.rows
      BY <2>3 DEF PanelInv, ButtonSendsOnce
    <3>2. panel'.view = panel.view /\ panel'.repo = panel.repo
      BY <1>7, <2>3, <3>1, RowType, RowChange DEF FailDelete, PanelInv
    <3> QED
      BY <1>1, <2>1, <3>2 DEF SelectionKept
  <2> QED
    BY <2>2, <2>3
<1> QED
  BY <1>2, <1>3, <1>4, <1>5, <1>6, <1>7 DEF Deliver

LEMMA SelectedStep ==
  ASSUME PanelInv, TypeOK, [Next]_vars
  PROVE  SelectionKept \/ DrawnFromCache
<1>1. ASSUME UNCHANGED <<panel, tagsByRepo>>, expandedRepo' \in {expandedRepo, None}
      PROVE  SelectionKept
  BY <1>1 DEF SelectionKept
<1>2. ASSUME NEW ns \in Namespaces, CollapseNamespace(ns) \/ ExpandNamespace(ns)
      PROVE  SelectionKept
  BY <1>1, <1>2 DEF CollapseNamespace, ExpandNamespace
<1>3. ASSUME NEW repo \in Repos, CollapseRepo(repo)
      PROVE  SelectionKept
  BY <1>1, <1>3 DEF CollapseRepo
<1>4. ASSUME NEW repo \in Repos, SelectRepo(repo)
      PROVE  DrawnFromCache
  <2>1. UNCHANGED tagsByRepo
    BY <1>4 DEF SelectRepo
  <2>2. CASE LoadTags(repo, fetches)
    BY <2>2, LoadOrMessage
  <2>3. CASE tagsByRepo[repo] # None /\ RenderDetail(repo, tagsByRepo[repo].list, fetches)
    <3>1. panel'.repo = repo
      BY <2>3 DEF RenderDetail, Show
    <3> QED
      BY <2>1, <2>3, <3>1 DEF DrawnFromCache
  <2> QED
    BY <1>4, <2>2, <2>3, SelectDraws
<1>5. ASSUME NEW tag \in Tags, ToggleDetails(tag)
      PROVE  SelectionKept
  <2>1. PICK row \in Rows : panel' = [panel EXCEPT !.rows[tag] = row]
    BY <1>5, ToggledRow
  <2>2. tag \in DOMAIN panel.rows /\ UNCHANGED <<tagsByRepo, expandedRepo>>
    BY <1>5 DEF ToggleDetails, tree
  <2> QED
    BY <2>1, <2>2, RowChange DEF PanelInv, SelectionKept
<1>6. ASSUME NEW tag \in Tags, DeleteTag(tag) \/ RestoreButton(tag)
      PROVE  SelectionKept
  <2>1. tag \in DOMAIN panel.rows /\ UNCHANGED <<tagsByRepo, expandedRepo>>
    BY <1>6 DEF DeleteTag, RestoreButton, tree
  <2>2. PICK button \in {"Delete", "Deleting"} :
          panel' = [panel EXCEPT !.rows[tag].button = button]
    BY <1>6 DEF DeleteTag, RestoreButton
  <2>3. panel'.view = panel.view /\ panel'.repo = panel.repo
    BY <2>1, <2>2, RowType, RowChange DEF PanelInv
  <2> QED
    BY <2>1, <2>3 DEF SelectionKept
<1>7. CASE Refresh
  BY <1>1, <1>7 DEF Refresh
<1>8. ASSUME NEW f \in BagToSet(fetches), Deliver(f)
      PROVE  SelectionKept \/ DrawnFromCache
  BY <1>8, DeliverSelected
<1>9. CASE UNCHANGED vars
  BY <1>1, <1>9 DEF vars, tree
<1> QED
  BY <1>2, <1>3, <1>4, <1>5, <1>6, <1>7, <1>8, <1>9 DEF Next

(* The selected repository is never left with the rows of a dropped list.  *)
THEOREM SelectedShowsCache == Spec => []SelectedIsCached
<1>1. Init => SelectedIsCached
  BY DEF Init, SelectedIsCached
<1>2. Inv /\ SelectedIsCached /\ [Next]_vars => SelectedIsCached'
  <2> SUFFICES ASSUME Inv, SelectedIsCached, [Next]_vars
               PROVE  SelectedIsCached'
    OBVIOUS
  <2>1. CASE SelectionKept
    <3>1. panel.view = "tags" => panel.repo \in Repos /\ panel.repo # None
      BY DashboardAssumption DEF Inv, PanelOfRepo
    <3> QED
      BY <2>1, <3>1 DEF SelectionKept, SelectedIsCached
  <2>2. CASE DrawnFromCache
    BY <2>2 DEF DrawnFromCache, SelectedIsCached
  <2> QED
    BY <2>1, <2>2, SelectedStep DEF Inv, PanelInv, TypeOK, IsFetches
<1> QED
  BY <1>1, <1>2, Invariance, PTL DEF Spec

(* The next click on a row whose details are on display hides them.        *)
THEOREM DetailsCanBeHidden == Spec => []ShownCanBeHidden
<1>1. Init => ShownCanBeHidden
  BY NoRows DEF Init, ShownCanBeHidden
<1>2. Inv /\ ShownCanBeHidden /\ [Next]_vars => ShownCanBeHidden'
  <2> SUFFICES ASSUME Inv, ShownCanBeHidden, [Next]_vars,
                      NEW tag \in DOMAIN panel'.rows,
                      panel'.rows[tag].layers # "hidden", tagsByRepo'[panel'.repo] # None
               PROVE  layersVisible'[[repo |-> panel'.repo, tag |-> tag]]
    BY DEF ShownCanBeHidden, ShownImage
  <2>1. CASE RowsKept
    <3>1. /\ tag \in DOMAIN panel.rows /\ panel'.repo = panel.repo
          /\ panel.repo \in Repos /\ tagsByRepo[panel.repo] # None
          /\ RowKept(tag)
      BY <2>1, PanelFields DEF RowsKept, Inv, PanelOfRepo, TypeOK
    <3>2. CASE panel'.rows[tag].layers = RenderLayers(ShownImage(tag))
      BY <3>1, <3>2 DEF RenderLayers, ShownImage
    <3>3. CASE panel'.rows[tag].layers # RenderLayers(ShownImage(tag))
      BY <3>1, <3>3 DEF RowKept, ShownCanBeHidden, ShownImage
    <3> QED
      BY <3>2, <3>3
  <2>2. CASE Redrawn
    BY <2>2 DEF Redrawn
  <2> QED
    BY <2>1, <2>2, RedrawnOrKept DEF Inv, PanelInv, TypeOK, IsFetches
<1> QED
  BY <1>1, <1>2, Invariance, PTL DEF Spec
=============================================================================
