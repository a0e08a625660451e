--------------------------- MODULE TagReadsProofs ---------------------------
(***************************************************************************)
(* What the reads of the JSON API answer is true of one image and omits no *)
(* repository, and only catalogs outlast the write deadline: for any       *)
(* registry contents, number of readers and timeouts that fit.             *)
(***************************************************************************)
EXTENDS TagReads, TLAPS, SequenceTheorems, FiniteSetTheorems, WellFoundedInduction

-----------------------------------------------------------------------------
(* Choosing the first.                                                     *)

(* A number on a finite set has a smallest value.                          *)
LEMMA SmallestExists ==
  ASSUME NEW S, IsFiniteSet(S), S # {}, NEW f \in [S -> Nat]
  PROVE  \E x \in S : \A y \in S : f[x] <= f[y]
<1> DEFINE Below(x) == {z \in S : f[z] < f[x]}
           Belows == {Below(x) : x \in S}
           R == StrictSubsetOrdering(S)
<1>1. IsWellFoundedOn(R, SUBSET S)
  <2>1. FiniteSubsetsOf(S) = SUBSET S
    BY FS_FiniteSubsetsOfFinite
  <2>2. IsWellFoundedOn(R, FiniteSubsetsOf(S))
    BY FS_StrictSubsetOrderingWellFounded
  <2> QED
    BY <2>1, <2>2
<1>2. Belows \subseteq SUBSET S /\ Belows # {}
  <2>1. \A x \in S : Below(x) \in SUBSET S /\ Below(x) \in Belows
    OBVIOUS
  <2> QED
    BY <2>1
<1>3. \E T \in Belows : \A U \in Belows : ~(<<U, T>> \in R)
  <2> HIDE DEF Belows, R
  <2> QED
    BY <1>1, <1>2, WFMin
<1>4. PICK x \in S : \A y \in S : ~(<<Below(y), Below(x)>> \in R)
  BY <1>3
<1>5. \A y \in S : f[y] < f[x] => Below(y) \subseteq Below(x) /\ y \in Below(x) /\ y \notin Below(y)
  OBVIOUS
<1>6. \A y \in S : f[y] < f[x] => <<Below(y), Below(x)>> \in R
  BY <1>5 DEF StrictSubsetOrdering
<1>7. \A y \in S : ~(f[y] < f[x])
  BY <1>4, <1>6
<1>8. \A y \in S : f[x] <= f[y]
  BY <1>7
<1> QED
  BY <1>8

LEMMA FirstIsIn ==
  ASSUME NEW n \in Nat, NEW indices \in SUBSET (1..n), indices # {}
  PROVE  First(indices) \in indices /\ \A j \in indices : First(indices) <= j
<1> DEFINE f == [i \in indices |-> i]
<1>1. IsFiniteSet(indices)
  <2>1. IsFiniteSet(1..n)
    BY FS_Interval
  <2> QED
    BY <2>1, FS_Subset
<1>2. f \in [indices -> Nat]
  OBVIOUS
<1>3. \E x \in indices : \A y \in indices : f[x] <= f[y]
  <2> HIDE DEF f
  <2> QED
    BY <1>1, <1>2, SmallestExists
<1>4. \E x \in indices : \A y \in indices : x <= y
  BY <1>3
<1> QED
  BY <1>4 DEF First

LEMMA NextRepoIsTodo ==
  ASSUME TypeOK, NEW rd \in Readers, read[rd].todo # {}
  PROVE  NextRepo(rd) \in read[rd].todo
<1> DEFINE todo == read[rd].todo
           f == [repo \in todo |-> Position[repo]]
<1>1. todo \in SUBSET Repos
  BY DEF TypeOK, Reads
<1>2. IsFiniteSet(todo)
  BY <1>1, FS_Subset, TagReadsAssumption
<1>3. f \in [todo -> Nat]
  BY <1>1, TagReadsAssumption
<1>4. \E x \in todo : \A y \in todo : f[x] <= f[y]
  <2> HIDE DEF f, todo
  <2> QED
    BY <1>2, <1>3, SmallestExists DEF todo
<1>5. \E x \in todo : \A y \in todo : Position[x] <= Position[y]
  BY <1>4
<1> QED
  BY <1>5 DEF NextRepo

-----------------------------------------------------------------------------
(* Both copies of the platform choice find the image a list stands for.    *)

LEMMA SelectedStandsFor ==
  ASSUME NEW d \in Digests, ContentOf[d].list, ContentOf[d].entries # <<>>, NEW kind
  PROVE  /\ SelectedFrom(kind, ContentOf[d].entries) \in Digests
         /\ StandsFor(d, SelectedFrom(kind, ContentOf[d].entries))
<1> DEFINE entries == ContentOf[d].entries
           i == IF LinuxAmd64(entries) # {} THEN First(LinuxAmd64(entries)) ELSE 1
<1>1. entries \in Seq([platform : Platforms, digest : Digests])
  BY TagReadsAssumption DEF Images, Lists
<1>2. Len(entries) \in Nat /\ DOMAIN entries = 1..Len(entries) /\ Len(entries) >= 1
  BY <1>1
<1>3. LinuxAmd64(entries) \in SUBSET (1..Len(entries))
  BY <1>2 DEF LinuxAmd64
<1>4. LinuxAmd64(entries) # {} =>
        /\ First(LinuxAmd64(entries)) \in LinuxAmd64(entries)
        /\ \A j \in LinuxAmd64(entries) : First(LinuxAmd64(entries)) <= j
  BY <1>2, <1>3, FirstIsIn
<1>5. /\ i \in DOMAIN entries
      /\ \/ /\ i \in LinuxAmd64(entries)
            /\ \A j \in LinuxAmd64(entries) : i <= j
         \/ i = 1 /\ LinuxAmd64(entries) = {}
  BY <1>2, <1>3, <1>4
<1>6. SelectedFrom(kind, entries) = entries[i].digest
  BY DEF SelectedFrom, SizedManifestDigest, SelectManifestDigest
<1>7. entries[i].digest \in Digests
  <2> DEFINE E == [platform : Platforms, digest : Digests]
  <2>1. \A k \in DOMAIN entries : entries[k] \in E
    <3>1. entries \in Seq(E)
      BY <1>1
    <3> HIDE DEF E, entries
    <3> QED
      BY <3>1
  <2> QED
    BY <1>5, <2>1
<1> QED
  BY <1>5, <1>6, <1>7 DEF StandsFor

-----------------------------------------------------------------------------
(* What is answered has its type.                                          *)

LEMMA Schema2Type ==
  ASSUME NEW d \in Digests
  PROVE  /\ ManifestSchema2(ContentOf[d]).config \in [blob : BOOLEAN, size : Nat]
         /\ ManifestSchema2(ContentOf[d]).layers \in Seq(Nat)
<1>1. CASE ContentOf[d] \in Images
  BY <1>1 DEF Images, ManifestSchema2
<1>2. CASE ContentOf[d] \in Lists
  <2>1. ContentOf[d].list
    BY <1>2 DEF Lists
  <2>2. [blob |-> FALSE, size |-> 0] \in [blob : BOOLEAN, size : Nat]
    OBVIOUS
  <2>3. << >> \in Seq(Nat)
    BY EmptySeq
  <2> QED
    BY <2>1, <2>2, <2>3, Zenon DEF ManifestSchema2
<1> QED
  BY <1>1, <1>2, TagReadsAssumption

LEMMA PlatformsType ==
  ASSUME NEW d \in Digests
  PROVE  TagDetails(d, d).platforms \in Seq(Platforms)
<1> DEFINE E == [platform : Platforms, digest : Digests]
           entries == ContentOf[d].entries
<1>1. CASE ContentOf[d].list
  <2>1. entries \in Seq(E)
    BY <1>1, TagReadsAssumption DEF Images, Lists
  <2>2. DOMAIN entries = 1..Len(entries) /\ Len(entries) \in Nat
        /\ \A k \in DOMAIN entries : entries[k] \in E
    <3> HIDE DEF E, entries
    <3> QED
      BY <2>1
  <2>3. [k \in 1..Len(entries) |-> entries[k].platform] \in Seq(Platforms)
    BY <2>2, IsASeq
  <2> QED
    BY <1>1, <2>2, <2>3 DEF TagDetails, BuildPlatforms
<1>2. CASE ~ContentOf[d].list
  BY <1>2, EmptySeq DEF TagDetails
<1> QED
  BY <1>1, <1>2

LEMMA BodyTypes ==
  ASSUME NEW d \in Digests, NEW image \in Digests
  PROVE  TagInfo(d, image) \in Answers /\ TagDetails(d, image) \in Answers
<1>1. TagInfo(d, image) \in Answers
  BY DEF TagInfo, Answers, Sizes
<1>2. TagDetails(d, image).platforms \in Seq(Platforms)
  BY PlatformsType DEF TagDetails
<1>3. TagDetails(d, image) \in Answers
  BY <1>2, Schema2Type DEF TagDetails, Answers
<1> QED
  BY <1>1, <1>3

LEMMA StatusType ==
  \A status \in {"none", "bad request", "forbidden", "registry unavailable", "cut"} :
    Status(status) \in Answers
BY DEF Status, Answers

LEMMA IdleType ==
  ASSUME NEW query \in Queries
  PROVE  Idle(query) \in Reads /\ Idle(query).pc = "idle" /\ Idle(query).query = query
<1>1. NoRows \in TagListings
  BY DEF NoRows, TagListings
<1> QED
  BY <1>1 DEF Idle, Reads

LEMMA NoQueryType == NoQuery \in Queries
BY DEF NoQuery, Queries, Listings

-----------------------------------------------------------------------------
(* The ways a step changes the state.                                      *)

(* A reader that a step leaves alone keeps its part of the invariant.      *)
LEMMA OthersKeep ==
  ASSUME Inv, NEW other \in Readers, UNCHANGED <<registry, listed>>,
         read'[other] = read[other], answer'[other] = answer[other],
         before'[other] = before[other], seen'[other] = seen[other]
  PROVE  /\ before'[other] \subseteq listed'
         /\ read'[other].pc = "idle" => Good(other, answer[other])'
         /\ read'[other].pc # "idle" => UnderWay(other)'
BY DEF Inv, Good, IsOneImage, RowsOf, OmitsNone, ListedIn, IsLongCatalog,
   UnderWay, InLoop, HasImage

(* A read ends with a good answer.                                         *)
LEMMA FinishInv ==
  ASSUME Inv, NEW rd \in Readers, read[rd].pc # "idle", NEW took \in Nat,
         NEW body \in Answers, Finish(rd, took, body), Good(rd, body),
         read[rd].elapsed + took >= WriteTimeout => IsLongCatalog(rd)
  PROVE  Inv'
<1> DEFINE final == IF read[rd].elapsed + took < WriteTimeout THEN body
                                                             ELSE Status("cut")
<1>1. read[rd].elapsed \in Nat /\ read[rd].query \in Queries
  BY DEF Inv, TypeOK, Reads
<1>2. final \in Answers
  BY StatusType
<1>3. Good(rd, final)
  BY <1>1, TimeoutAssumption DEF Good, Status
<1>4. TypeOK'
  BY <1>1, <1>2, IdleType DEF Finish, world, Inv, TypeOK
<1>5. /\ read'[rd] = Idle(read[rd].query) /\ answer'[rd] = final
      /\ read'[rd].pc = "idle" /\ read'[rd].query = read[rd].query
      /\ \A other \in Readers \ {rd} : read'[other] = read[other]
                                       /\ answer'[other] = answer[other]
  BY <1>1, IdleType DEF Finish, Inv, TypeOK
<1>6. UNCHANGED <<registry, listed, before, seen>>
  BY DEF Finish, world
<1> HIDE DEF final
<1>7. Good(rd, answer[rd])'
  BY <1>3, <1>5, <1>6 DEF Good, IsOneImage, RowsOf, OmitsNone, ListedIn, IsLongCatalog
<1>8. ASSUME NEW other \in Readers \ {rd}
      PROVE  /\ before'[other] \subseteq listed'
             /\ read'[other].pc = "idle" => Good(other, answer[other])'
             /\ read'[other].pc # "idle" => UnderWay(other)'
  BY <1>5, <1>6, OthersKeep
<1> QED
  BY <1>4, <1>5, <1>6, <1>7, <1>8 DEF Inv

(* A read goes on.                                                         *)
LEMMA GoOnInv ==
  ASSUME Inv, NEW rd \in Readers, NEW r \in Reads, r.pc # "idle",
         read' = [read EXCEPT ![rd] = r], UNCHANGED answer, UNCHANGED world,
         UnderWay(rd)'
  PROVE  Inv'
<1>1. TypeOK'
  BY DEF Inv, TypeOK, world
<1>2. \A other \in Readers : read'[other] = IF other = rd THEN r ELSE read[other]
  BY DEF Inv, TypeOK
<1>3. UNCHANGED <<registry, listed, before, seen, answer>>
  BY DEF world
<1>4. ASSUME NEW other \in Readers \ {rd}
      PROVE  /\ read'[other].pc = "idle" => Good(other, answer[other])'
             /\ read'[other].pc # "idle" => UnderWay(other)'
  BY <1>2, <1>3, OthersKeep
<1> QED
  BY <1>1, <1>2, <1>3, <1>4 DEF Inv

(* A refused or admitted request takes the place of the last one.          *)
LEMMA RefuseInv ==
  ASSUME Inv, NEW rd \in Readers, NEW why \in {"bad request", "forbidden"},
         Refuse(rd, why)
  PROVE  Inv'
<1>1. TypeOK'
  BY NoQueryType, IdleType, StatusType DEF Refuse, Inv, TypeOK
<1>2. read'[rd] = Idle(NoQuery) /\ answer'[rd] = Status(why) /\ before'[rd] = {}
  BY DEF Refuse, Inv, TypeOK
<1>3. /\ \A other \in Readers \ {rd} :
           /\ read'[other] = read[other] /\ answer'[other] = answer[other]
           /\ before'[other] = before[other] /\ seen'[other] = seen[other]
      /\ UNCHANGED <<registry, listed>>
  BY DEF Refuse, Inv, TypeOK
<1>4. answer'[rd].status \notin {"ok", "cut"}
  <2>1. Status(why).status = why
    BY DEF Status
  <2>2. answer'[rd] = Status(why)
    BY <1>2
  <2> QED
    BY <2>1, <2>2
<1>5. read'[rd].pc = "idle" /\ Good(rd, answer[rd])'
  BY <1>2, <1>4, NoQueryType, IdleType DEF Good
<1>6. ASSUME NEW other \in Readers \ {rd}
      PROVE  /\ before'[other] \subseteq listed'
             /\ read'[other].pc = "idle" => Good(other, answer[other])'
             /\ read'[other].pc # "idle" => UnderWay(other)'
  BY <1>3, OthersKeep
<1> QED
  BY <1>1, <1>2, <1>5, <1>6 DEF Inv

LEMMA FactsNowType ==
  ASSUME NEW reg \in [Repos -> Repositories], NEW query \in Queries, ~Malformed(query)
  PROVE  FactsNow(query, reg) \in SUBSET Facts
<1>1. \A repo \in Repos : reg[repo].tagOf \in [Tags -> Digests \cup {NoDigest}]
  BY DEF Repositories
<1>2. \A repo \in Repos : TagsOf(reg[repo]) \in SUBSET Tags
  BY DEF TagsOf
<1>3. CASE query.kind \in Details
  <2>1. query.repo \in Repos /\ query.tag \in Tags
    BY <1>3 DEF Queries, Malformed, Details, Listings
  <2>2. Resolve(reg[query.repo], query.tag) \in Digests \cup {NoDigest}
    BY <1>1, <2>1 DEF Resolve
  <2>3. FactsNow(query, reg) = {<<query.repo, Resolve(reg[query.repo], query.tag)>>}
    BY <1>3 DEF FactsNow
  <2> QED
    <3>1. <<query.repo, Resolve(reg[query.repo], query.tag)>> \in Facts
      BY <2>1, <2>2 DEF Facts
    <3> QED
      BY <2>3, <3>1
<1>4. CASE query.kind = "tags"
  <2>1. query.repo \in Repos /\ query.kind \notin Details
    BY <1>4 DEF Queries, Malformed, Details, Listings
  <2> QED
    BY <1>2, <1>4, <2>1 DEF FactsNow, Facts
<1>5. CASE query.kind \in Listings
  <2>1. query.kind # "tags" /\ query.kind \notin Details
    BY <1>5 DEF Details, Listings
  <2> QED
    BY <1>2, <2>1 DEF FactsNow, Facts, InNamespace
<1> QED
  BY <1>3, <1>4, <1>5 DEF Queries

LEMMA AdmitInv ==
  ASSUME Inv, NEW rd \in Readers, NEW namespaces, NEW query \in Queries, NEW checked,
         Admit(rd, namespaces, query, checked)
  PROVE  Inv'
<1> DEFINE r == [Idle(query) EXCEPT !.pc = FirstCall(query.kind)]
<1>1. query.kind \in Listings \cup {"tags"} \cup Details
  BY DEF Queries
<1>2. /\ query.kind \in Listings => FirstCall(query.kind) = "catalog"
      /\ query.kind = "tags" => FirstCall(query.kind) = "tags"
      /\ query.kind \in Details => FirstCall(query.kind) = "manifest"
  BY DEF FirstCall, Listings, Details
<1>3. r \in Reads /\ r.pc = FirstCall(query.kind) /\ r.query = query /\ r.elapsed = 0
  BY <1>1, <1>2, IdleType DEF Idle, Reads
<1> HIDE DEF r
<1>4. FactsNow(query, registry) \in SUBSET Facts
  BY FactsNowType DEF Admit, Inv, TypeOK
<1>5. read' = [read EXCEPT ![rd] = r]
  BY DEF Admit, r
<1>6. TypeOK'
  BY <1>3, <1>4, <1>5, StatusType DEF Admit, Inv, TypeOK
<1>7. /\ read'[rd] = r /\ answer'[rd] = Status("none") /\ before'[rd] = listed
      /\ seen'[rd] = FactsNow(query, registry)
      /\ \A other \in Readers \ {rd} :
           /\ read'[other] = read[other] /\ answer'[other] = answer[other]
           /\ before'[other] = before[other] /\ seen'[other] = seen[other]
      /\ UNCHANGED <<registry, listed>>
  BY <1>5 DEF Admit, Inv, TypeOK
<1>8. r.pc # "idle" /\ UnderWay(rd)'
  BY <1>1, <1>2, <1>3, <1>7 DEF Admit, UnderWay, Listings, Details
<1>9. ASSUME NEW other \in Readers \ {rd}
      PROVE  /\ before'[other] \subseteq listed'
             /\ read'[other].pc = "idle" => Good(other, answer[other])'
             /\ read'[other].pc # "idle" => UnderWay(other)'
  BY <1>7, OthersKeep
<1> QED
  BY <1>6, <1>7, <1>8, <1>9 DEF Inv

(* The registry changes under the reads: they keep what they know.         *)
LEMMA FiniteRepos ==
  ASSUME NEW S \in SUBSET Repos
  PROVE  IsFiniteSet(S) /\ Cardinality(S) \in Nat
BY FS_Subset, FS_CardinalityType, TagReadsAssumption

LEMMA WatchType ==
  ASSUME Inv, registry' \in [Repos -> Repositories], Watch(registry')
  PROVE  seen' \in [Readers -> SUBSET Facts]
<1>1. ASSUME NEW rd \in Readers, read[rd].pc # "idle"
      PROVE  FactsNow(read[rd].query, registry') \in SUBSET Facts
  <2>1. read[rd].query \in Queries /\ ~Malformed(read[rd].query)
    BY <1>1 DEF Inv, TypeOK, Reads, UnderWay
  <2> QED
    BY <2>1, FactsNowType
<1>2. ASSUME NEW rd \in Readers
      PROVE  seen[rd] \in SUBSET Facts
  BY DEF Inv, TypeOK
<1> QED
  BY <1>1, <1>2 DEF Watch

LEMMA WorldInv ==
  ASSUME Inv, registry' \in [Repos -> Repositories], listed \subseteq listed',
         listed' \in SUBSET Repos, Watch(registry'), UNCHANGED <<read, answer, before>>
  PROVE  Inv'
<1>1. TypeOK'
  BY WatchType DEF Inv, TypeOK
<1>2. Cardinality(listed') <= PageSize => Cardinality(listed) <= PageSize
  BY FiniteRepos, FS_Subset, TagReadsAssumption DEF Inv, TypeOK
<1>3. ASSUME NEW ns
      PROVE  /\ InNamespace(listed, ns) \subseteq InNamespace(listed', ns)
             /\ Cardinality(InNamespace(listed, ns)) >= 3 =>
                  Cardinality(InNamespace(listed', ns)) >= 3
  <2>1. InNamespace(listed, ns) \subseteq InNamespace(listed', ns)
        /\ InNamespace(listed, ns) \in SUBSET Repos
        /\ InNamespace(listed', ns) \in SUBSET Repos
    BY DEF InNamespace, Inv, TypeOK
  <2> QED
    BY <2>1, FiniteRepos, FS_Subset
<1>4. ASSUME NEW rd \in Readers
      PROVE  seen[rd] \subseteq seen'[rd]
  BY DEF Watch
<1>5. ASSUME NEW rd \in Readers
      PROVE  before'[rd] \subseteq listed'
  BY DEF Inv
<1>6. ASSUME NEW rd \in Readers, read[rd].pc = "idle"
      PROVE  Good(rd, answer[rd])'
  <2>1. Good(rd, answer[rd])
    BY <1>6 DEF Inv
  <2>2. IsOneImage(rd, answer[rd]) => IsOneImage(rd, answer[rd])'
    BY <1>4 DEF IsOneImage
  <2>3. RowsOf(answer[rd].rows, rd) => RowsOf(answer[rd].rows, rd)'
    BY <1>3, <1>4 DEF RowsOf
  <2>4. OmitsNone(ListedIn(rd, answer[rd]), rd) => OmitsNone(ListedIn(rd, answer[rd]), rd)'
    BY <1>2 DEF OmitsNone, ListedIn
  <2>5. IsLongCatalog(rd) => IsLongCatalog(rd)'
    BY <1>3 DEF IsLongCatalog
  <2> QED
    BY <2>1, <2>2, <2>3, <2>4, <2>5 DEF Good
<1>7. ASSUME NEW rd \in Readers, read[rd].pc # "idle"
      PROVE  UnderWay(rd)'
  <2>1. UnderWay(rd)
    BY <1>7 DEF Inv
  <2>2. FactsNow(read[rd].query, registry)' \subseteq seen'[rd]
    BY <1>7 DEF Watch
  <2>3. InLoop(rd) => InLoop(rd)'
    BY <1>2, <1>3, <1>4 DEF InLoop, RowsOf, OmitsNone
  <2>4. HasImage(rd) => HasImage(rd)'
    BY <1>4 DEF HasImage
  <2> QED
    BY <2>1, <2>2, <2>3, <2>4 DEF UnderWay
<1> QED
  BY <1>1, <1>5, <1>6, <1>7 DEF Inv

LEMMA PushInv ==
  ASSUME Inv, NEW repo \in Repos, NEW tag \in Tags \cup {NoTag}, NEW d \in Digests,
         Push(repo, tag, d)
  PROVE  Inv'
<1> DEFINE pushed == IF tag = NoTag
                     THEN AddManifest(registry[repo], d)
                     ELSE PushManifest(registry[repo], tag, d)
<1>1. registry[repo] \in Repositories
  BY DEF Inv, TypeOK
<1>2. pushed \in Repositories
  <2>1. CASE tag = NoTag
    BY <1>1, <2>1 DEF AddManifest, Repositories
  <2>2. CASE tag # NoTag
    <3>1. tag \in Tags
      BY <2>2
    <3> QED
      BY <1>1, <2>2, <3>1 DEF PushManifest, Repositories
  <2> QED
    BY <2>1, <2>2
<1>3. registry' = [registry EXCEPT ![repo] = pushed]
  BY DEF Push
<1> HIDE DEF pushed
<1>4. registry' \in [Repos -> Repositories]
  BY <1>2, <1>3 DEF Inv, TypeOK
<1> QED
  BY <1>4, WorldInv DEF Push, Inv, TypeOK

LEMMA RemoveInv ==
  ASSUME Inv, NEW repo \in Repos, NEW d \in Digests, Remove(repo, d)
  PROVE  Inv'
<1>1. registry[repo] \in Repositories
  BY DEF Inv, TypeOK
<1>2. RemoveManifest(registry[repo], d) \in Repositories
  BY <1>1 DEF RemoveManifest, Repositories
<1>3. registry' \in [Repos -> Repositories]
  BY <1>2 DEF Remove, Inv, TypeOK
<1> QED
  BY <1>3, WorldInv DEF Remove, Inv, TypeOK

-----------------------------------------------------------------------------
(* The calls.                                                              *)

LEMMA InTimeType ==
  ASSUME NEW took \in InTime
  PROVE  took \in Nat /\ took < CallTimeout
BY TimeoutAssumption DEF InTime

(* A catalog that has done two rows and has one before it is long.         *)
LEMMA ThirdRow ==
  ASSUME Inv, NEW rd \in Readers, read[rd].query.kind = "catalog", InLoop(rd),
         ~(Cardinality(DOMAIN read[rd].rows) <= 1)
  PROVE  IsLongCatalog(rd)
<1> DEFINE done == DOMAIN read[rd].rows
           ours == InNamespace(listed, read[rd].query.namespace)
<1>1. PICK x \in read[rd].todo : TRUE
  BY DEF InLoop
<1>2. x \notin done /\ x \in ours /\ done \subseteq ours
  BY <1>1 DEF InLoop, RowsOf
<1>3. ours \in SUBSET Repos
  BY DEF InNamespace, Inv, TypeOK
<1> HIDE DEF done, ours
<1>4. done \in SUBSET Repos /\ done \cup {x} \in SUBSET ours
  BY <1>2, <1>3
<1>5. Cardinality(done \cup {x}) = Cardinality(done) + 1
  BY <1>2, <1>4, FiniteRepos, FS_AddElement
<1>6. Cardinality(done \cup {x}) <= Cardinality(ours)
  BY <1>3, <1>4, FiniteRepos, FS_Subset
<1>7. Cardinality(done) \in Nat /\ Cardinality(ours) \in Nat
  BY <1>3, <1>4, FiniteRepos
<1>8. ~(Cardinality(done) <= 1)
  BY DEF done
<1>9. Cardinality(ours) >= 3
  BY <1>5, <1>6, <1>7, <1>8
<1> QED
  BY <1>9 DEF ours, IsLongCatalog

(* Whatever a read waits for, its time is up only if it is a long catalog. *)
LEMMA TimeIsLeft ==
  ASSUME Inv, NEW rd \in Readers, read[rd].pc # "idle", NEW took \in 0..CallTimeout,
         read[rd].elapsed + took >= WriteTimeout
  PROVE  IsLongCatalog(rd)
<1>1. read[rd].elapsed \in Nat /\ UnderWay(rd)
      /\ read[rd].pc \in {"catalog", "tags", "manifest", "child", "config"}
  BY DEF Inv, TypeOK, Reads
<1>2. ~(read[rd].elapsed < 2 * CallTimeout - 1)
  BY <1>1, TimeoutAssumption
<1>3. read[rd].pc = "tags" /\ read[rd].query.kind = "catalog"
  BY <1>1, <1>2, TimeoutAssumption DEF UnderWay
<1>4. InLoop(rd)
  BY <1>1, <1>3 DEF UnderWay
<1>5. ~(Cardinality(DOMAIN read[rd].rows) <= 1)
  BY <1>2, <1>4 DEF InLoop
<1> QED
  BY <1>3, <1>4, <1>5, ThirdRow

LEMMA GiveUpInv ==
  ASSUME Inv, NEW rd \in Readers, NEW took \in Durations, GiveUp(rd, took)
  PROVE  Inv'
<1> DEFINE body == Status("registry unavailable")
<1>1. took \in 0..CallTimeout /\ took \in Nat
  BY TimeoutAssumption
<1>2. body \in Answers
  BY StatusType
<1>3. Good(rd, body)
  BY DEF Good, Status
<1>4. read[rd].pc # "idle" /\ Finish(rd, took, body)
  BY DEF GiveUp
<1> HIDE DEF body
<1>5. read[rd].elapsed + took >= WriteTimeout => IsLongCatalog(rd)
  BY <1>1, <1>4, TimeIsLeft
<1> QED
  BY <1>1, <1>2, <1>3, <1>4, <1>5, FinishInv

LEMMA UseImageInv ==
  ASSUME Inv, NEW rd \in Readers, read[rd].pc \in {"manifest", "child"},
         read[rd].query.kind \in Details, NEW took \in InTime,
         NEW d \in Digests, NEW image \in Digests,
         <<read[rd].query.repo, d>> \in seen[rd], StandsFor(d, image),
         UseImage(rd, took, d, image)
  PROVE  Inv'
<1>1. read[rd] \in Reads /\ UnderWay(rd) /\ took \in Nat /\ took < CallTimeout
  BY InTimeType DEF Inv, TypeOK
<1>2. read[rd].elapsed \in Nat /\ read[rd].elapsed < CallTimeout
  BY <1>1, TimeoutAssumption DEF Reads, UnderWay
<1>3. ~(read[rd].elapsed + took >= WriteTimeout)
  BY <1>1, <1>2, TimeoutAssumption
<1>4. TagInfo(d, image) \in Answers /\ TagDetails(d, image) \in Answers
  BY BodyTypes
<1>5. CASE /\ read[rd].query.kind = "taginfo"
           /\ Finish(rd, took, TagInfo(d, image))
  <2>1. TagInfo(d, image).status = "ok" /\ TagInfo(d, image).digest = d
    BY DEF TagInfo
  <2>2. IsOneImage(rd, TagInfo(d, image))
    BY <1>5, <2>1 DEF IsOneImage
  <2>3. Good(rd, TagInfo(d, image))
    BY <1>5, <2>1, <2>2 DEF Good, Listings
  <2> QED
    BY <1>1, <1>3, <1>4, <1>5, <2>3, FinishInv
<1>6. CASE /\ read[rd].query.kind = "taglayers"
           /\ Finish(rd, took, TagDetails(d, image))
  <2>1. TagDetails(d, image).status = "ok" /\ TagDetails(d, image).digest = d
    BY DEF TagDetails
  <2>2. IsOneImage(rd, TagDetails(d, image))
    BY <1>6, <2>1 DEF IsOneImage
  <2>3. Good(rd, TagDetails(d, image))
    BY <1>6, <2>1, <2>2 DEF Good, Listings
  <2> QED
    BY <1>1, <1>3, <1>4, <1>6, <2>3, FinishInv
<1>7. CASE /\ read[rd].query.kind = "taglayers"
           /\ GoOn(rd, took, [read[rd] EXCEPT !.pc = "config", !.digest = d,
                                              !.image = image])
  <2> DEFINE r == [[read[rd] EXCEPT !.pc = "config", !.digest = d, !.image = image]
                     EXCEPT !.elapsed = read[rd].elapsed + took]
  <2>1. r \in Reads
    <3>1. /\ d \in Digests \cup {NoDigest} /\ image \in Digests \cup {NoDigest}
          /\ read[rd].elapsed + took \in Nat
      BY <1>1, <1>2
    <3> QED
      BY <1>1, <3>1, Zenon DEF Reads
  <2>2. /\ r.pc = "config" /\ r.query = read[rd].query /\ r.digest = d
        /\ r.image = image /\ r.elapsed = read[rd].elapsed + took
    BY <1>1 DEF Reads
  <2>3. read' = [read EXCEPT ![rd] = r] /\ UNCHANGED answer /\ UNCHANGED world
    BY <1>7 DEF GoOn
  <2> HIDE DEF r
  <2>4. read'[rd] = r /\ UNCHANGED <<registry, listed, answer, seen, before>>
    BY <2>3 DEF Inv, TypeOK, world
  <2>5. r.elapsed < 2 * CallTimeout - 1
    BY <1>1, <1>2, <2>2, TimeoutAssumption
  <2>6. HasImage(rd)'
    BY <2>2, <2>4 DEF HasImage
  <2>7. UnderWay(rd)'
    BY <1>1, <1>7, <2>2, <2>4, <2>5, <2>6 DEF UnderWay
  <2> QED
    BY <2>1, <2>2, <2>3, <2>7, GoOnInv
<1> QED
  BY <1>5, <1>6, <1>7 DEF UseImage

LEMMA ManifestInv ==
  ASSUME Inv, NEW rd \in Readers, NEW took \in InTime, AnswerManifest(rd, took)
  PROVE  Inv'
<1> DEFINE query == read[rd].query
           d == Resolve(registry[query.repo], query.tag)
           image == SelectedFrom(query.kind, ContentOf[d].entries)
<1>1. /\ read[rd] \in Reads /\ UnderWay(rd) /\ read[rd].pc = "manifest"
      /\ took \in Nat /\ took < CallTimeout
  BY InTimeType DEF AnswerManifest, Inv, TypeOK
<1>2. query.kind \in Details /\ read[rd].elapsed = 0
  BY <1>1 DEF UnderWay
<1>3. query.repo \in Repos /\ query.tag \in Tags
  BY <1>1, <1>2 DEF Reads, Queries, UnderWay, Malformed, Details, Listings
<1>4. registry[query.repo].tagOf \in [Tags -> Digests \cup {NoDigest}]
  BY <1>3 DEF Inv, TypeOK, Repositories
<1>5. d \in Digests
  <2>1. d \in Digests \cup {NoDigest}
    BY <1>3, <1>4 DEF Resolve
  <2> QED
    BY <2>1 DEF AnswerManifest
<1>6. <<query.repo, d>> \in seen[rd]
  BY <1>1, <1>2 DEF UnderWay, FactsNow
<1>7. CASE ~ContentOf[d].list /\ UseImage(rd, took, d, d)
  <2>1. StandsFor(d, d)
    BY <1>7 DEF StandsFor
  <2> QED
    BY <1>1, <1>2, <1>5, <1>6, <1>7, <2>1, UseImageInv
<1>8. CASE /\ ContentOf[d].list /\ ContentOf[d].entries # <<>>
           /\ GoOn(rd, took, [read[rd] EXCEPT !.pc = "child", !.digest = d,
                                              !.image = image])
  <2> DEFINE r == [[read[rd] EXCEPT !.pc = "child", !.digest = d, !.image = image]
                     EXCEPT !.elapsed = read[rd].elapsed + took]
  <2>1. image \in Digests /\ StandsFor(d, image)
    BY <1>5, <1>8, SelectedStandsFor
  <2>2. read' = [read EXCEPT ![rd] = r] /\ UNCHANGED answer /\ UNCHANGED world
    BY <1>8 DEF GoOn
  <2> HIDE DEF query, d, image
  <2>3. r \in Reads
    <3>1. /\ d \in Digests \cup {NoDigest} /\ image \in Digests \cup {NoDigest}
          /\ read[rd].elapsed + took \in Nat
      BY <1>1, <1>2, <1>5, <2>1
    <3> QED
      BY <1>1, <3>1, Zenon DEF Reads
  <2>4. /\ r.pc = "child" /\ r.query = query /\ r.digest = d
        /\ r.image = image /\ r.elapsed = read[rd].elapsed + took
    BY <1>1 DEF Reads, query
  <2> HIDE DEF r
  <2>5. read'[rd] = r /\ UNCHANGED <<registry, listed, answer, seen, before>>
    BY <2>2 DEF Inv, TypeOK, world
  <2>6. r.elapsed < CallTimeout
    BY <1>1, <1>2, <2>4
  <2>7. HasImage(rd)'
    BY <1>2, <1>5, <1>6, <2>1, <2>4, <2>5 DEF HasImage
  <2>8. UnderWay(rd)'
    BY <1>1, <2>4, <2>5, <2>6, <2>7 DEF UnderWay, query
  <2> QED
    BY <2>2, <2>3, <2>4, <2>8, GoOnInv
<1> QED
  BY <1>7, <1>8 DEF AnswerManifest

LEMMA ChildInv ==
  ASSUME Inv, NEW rd \in Readers, NEW took \in InTime, AnswerChild(rd, took)
  PROVE  Inv'
<1>1. read[rd].pc = "child" /\ UnderWay(rd)
  BY DEF AnswerChild, Inv
<1>2. HasImage(rd)
  BY <1>1 DEF UnderWay
<1> QED
  BY <1>1, <1>2, UseImageInv DEF AnswerChild, HasImage

LEMMA ConfigInv ==
  ASSUME Inv, NEW rd \in Readers, NEW took \in InTime, AnswerConfig(rd, took)
  PROVE  Inv'
<1> DEFINE body == TagDetails(read[rd].digest, read[rd].image)
<1>1. read[rd] \in Reads /\ read[rd].pc = "config" /\ UnderWay(rd)
      /\ took \in Nat /\ took < CallTimeout
  BY InTimeType DEF AnswerConfig, Inv, TypeOK
<1>2. HasImage(rd) /\ read[rd].query.kind = "taglayers"
      /\ read[rd].elapsed < 2 * CallTimeout - 1 /\ read[rd].elapsed \in Nat
  BY <1>1 DEF UnderWay, Reads
<1>3. body.status = "ok" /\ body.digest = read[rd].digest
  BY DEF TagDetails
<1>4. IsOneImage(rd, body)
  BY <1>2, <1>3 DEF HasImage, IsOneImage
<1>5. Good(rd, body)
  BY <1>2, <1>3, <1>4 DEF Good, Listings
<1>6. body \in Answers
  BY <1>2, BodyTypes DEF HasImage
<1>7. ~(read[rd].elapsed + took >= WriteTimeout)
  BY <1>1, <1>2, TimeoutAssumption
<1>8. Finish(rd, took, body)
  BY DEF AnswerConfig
<1> HIDE DEF body
<1> QED
  BY <1>1, <1>5, <1>6, <1>7, <1>8, FinishInv

LEMMA TagsInv ==
  ASSUME Inv, NEW rd \in Readers, NEW took \in InTime, AnswerTags(rd, took)
  PROVE  Inv'
<1> DEFINE body == [status |-> "ok", tags |-> TagsOf(registry[read[rd].query.repo])]
<1>1. /\ read[rd].pc = "tags" /\ read[rd].query.kind = "tags" /\ UnderWay(rd)
      /\ took \in Nat /\ took < CallTimeout
  BY InTimeType DEF AnswerTags, Inv
<1>2. read[rd].elapsed = 0
  BY <1>1 DEF UnderWay
<1>3. TagsOf(registry[read[rd].query.repo]) \in SUBSET Tags
  BY DEF TagsOf
<1>4. body \in Answers
  BY <1>3 DEF Answers
<1>5. Good(rd, body)
  BY <1>1 DEF Good, Listings, Details
<1>6. ~(read[rd].elapsed + took >= WriteTimeout)
  BY <1>1, <1>2, TimeoutAssumption
<1>7. Finish(rd, took, body)
  BY DEF AnswerTags
<1> HIDE DEF body
<1> QED
  BY <1>1, <1>4, <1>5, <1>6, <1>7, FinishInv

(* The loop goes on or ends the read.                                      *)
LEMMA LoopInv ==
  ASSUME Inv, NEW rd \in Readers, NEW took \in InTime,
         read[rd].pc # "idle", read[rd].query.kind = "catalog",
         NEW todo \in SUBSET Repos, NEW rows \in TagListings,
         todo \cap DOMAIN rows = {},
         todo \subseteq InNamespace(listed, read[rd].query.namespace),
         RowsOf(rows, rd), OmitsNone(todo \cup DOMAIN rows, rd),
         DOMAIN rows = {} => read[rd].elapsed + took < CallTimeout,
         Cardinality(DOMAIN rows) <= 1 => read[rd].elapsed + took < 2 * CallTimeout - 1,
         Loop(rd, took, todo, rows)
  PROVE  Inv'
<1>1. /\ read[rd] \in Reads /\ UnderWay(rd)
      /\ took \in Nat /\ took < CallTimeout /\ read[rd].elapsed \in Nat
  BY InTimeType DEF Inv, TypeOK, Reads
<1>2. CASE todo = {}
  <2> DEFINE body == [status |-> "ok", rows |-> rows]
  <2>1. body \in Answers
    BY DEF Answers
  <2>2. OmitsNone(DOMAIN rows, rd)
    BY <1>2
  <2>3. Good(rd, body)
    <3>1. ListedIn(rd, body) = DOMAIN rows
      BY DEF ListedIn
    <3> QED
      BY <2>2, <3>1 DEF Good, Details, OmitsNone
  <2>4. Finish(rd, took, body)
    BY <1>2 DEF Loop
  <2>5. took \in 0..CallTimeout
    BY <1>1, TimeoutAssumption
  <2>6. read[rd].elapsed + took >= WriteTimeout => IsLongCatalog(rd)
    BY <2>5, TimeIsLeft
  <2> HIDE DEF body
  <2> QED
    BY <1>1, <2>1, <2>3, <2>4, <2>6, FinishInv
<1>3. CASE todo # {}
  <2> DEFINE r == [[read[rd] EXCEPT !.pc = "tags", !.todo = todo, !.rows = rows]
                     EXCEPT !.elapsed = read[rd].elapsed + took]
  <2>1. read' = [read EXCEPT ![rd] = r] /\ UNCHANGED answer /\ UNCHANGED world
    BY <1>3 DEF Loop, GoOn
  <2>2. r \in Reads
    <3>1. read[rd].elapsed + took \in Nat
      BY <1>1
    <3> QED
      BY <1>1, <3>1, Zenon DEF Reads
  <2>3. /\ r.pc = "tags" /\ r.query = read[rd].query /\ r.todo = todo
        /\ r.rows = rows /\ r.elapsed = read[rd].elapsed + took
    BY <1>1 DEF Reads
  <2> HIDE DEF r
  <2>4. read'[rd] = r /\ UNCHANGED <<registry, listed, answer, seen, before>>
    BY <2>1 DEF Inv, TypeOK, world
  <2>5. RowsOf(read[rd].rows, rd)'
    BY <2>3, <2>4 DEF RowsOf
  <2>6. OmitsNone(read[rd].todo \cup DOMAIN read[rd].rows, rd)'
    BY <2>3, <2>4 DEF OmitsNone
  <2>7. InLoop(rd)'
    BY <1>3, <2>3, <2>4, <2>5, <2>6 DEF InLoop
  <2>8. UnderWay(rd)'
    BY <1>1, <2>3, <2>4, <2>7 DEF UnderWay
  <2> QED
    BY <2>1, <2>2, <2>3, <2>8, GoOnInv
<1> QED
  BY <1>2, <1>3

(* A page holds everything as long as there is not more than a page.       *)
LEMMA PageOfAll ==
  ASSUME NEW S \in SUBSET Repos
  PROVE  Page(S) \subseteq S /\ (Cardinality(S) <= PageSize => Page(S) = S)
<1> DEFINE Earlier(x) == {other \in S : Position[other] < Position[x]}
<1>1. Page(S) = {x \in S : Cardinality(Earlier(x)) < PageSize}
  BY DEF Page
<1>2. ASSUME NEW x \in S
      PROVE  Cardinality(Earlier(x)) < Cardinality(S)
  <2>1. Earlier(x) \subseteq S /\ x \notin Earlier(x)
    BY TagReadsAssumption
  <2> HIDE DEF Earlier
  <2>2. Earlier(x) # S
    BY <2>1
  <2> QED
    BY <2>1, <2>2, FiniteRepos, FS_Subset
<1>3. \A x \in S : Cardinality(Earlier(x)) \in Nat
  <2>1. \A x \in S : Earlier(x) \in SUBSET Repos
    OBVIOUS
  <2> HIDE DEF Earlier
  <2> QED
    BY <2>1, FiniteRepos
<1>4. Cardinality(S) \in Nat
  BY FiniteRepos
<1> HIDE DEF Earlier
<1> QED
  BY <1>1, <1>2, <1>3, <1>4, TagReadsAssumption

LEMMA CatalogInv ==
  ASSUME Inv, NEW rd \in Readers, NEW took \in InTime, AnswerCatalog(rd, took)
  PROVE  Inv'
<1> DEFINE query == read[rd].query
           repos == InNamespace(Page(listed), query.namespace)
<1>1. /\ read[rd].pc = "catalog" /\ UnderWay(rd)
      /\ took \in Nat /\ took < CallTimeout
  BY InTimeType DEF AnswerCatalog, Inv
<1>2. query.kind \in Listings /\ read[rd].elapsed = 0
  BY <1>1 DEF UnderWay
<1>3. Page(listed) \subseteq listed
      /\ (Cardinality(listed) <= PageSize => Page(listed) = listed)
      /\ listed \in SUBSET Repos
  BY PageOfAll DEF Inv, TypeOK
<1>4. repos \in SUBSET Repos /\ repos \subseteq InNamespace(listed, query.namespace)
  BY <1>3 DEF InNamespace
<1>5. OmitsNone(repos, rd)
  <2>1. before[rd] \subseteq listed
    BY DEF Inv
  <2> QED
    BY <1>3, <2>1 DEF OmitsNone, InNamespace
<1>6. CASE query.kind = "repos"
  <2> DEFINE body == [status |-> "ok", repos |-> repos]
  <2>1. body \in Answers
    BY <1>4 DEF Answers
  <2>2. Good(rd, body)
    <3>1. ListedIn(rd, body) = repos
      BY <1>6 DEF ListedIn
    <3> HIDE DEF repos
    <3>2. query.kind \notin Details /\ query.kind # "catalog"
      BY <1>6 DEF Details
    <3> QED
      BY <1>5, <3>1, <3>2 DEF Good, OmitsNone
  <2>3. Finish(rd, took, body)
    BY <1>6 DEF AnswerCatalog
  <2>4. ~(read[rd].elapsed + took >= WriteTimeout)
    BY <1>1, <1>2, TimeoutAssumption
  <2> HIDE DEF body
  <2> QED
    BY <1>1, <2>1, <2>2, <2>3, <2>4, FinishInv
<1>7. CASE query.kind # "repos"
  <2>1. query.kind = "catalog"
    BY <1>2, <1>7 DEF Listings
  <2>2. Loop(rd, took, repos, NoRows)
    BY <1>7 DEF AnswerCatalog
  <2>3. NoRows \in TagListings /\ DOMAIN NoRows = {} /\ RowsOf(NoRows, rd)
    BY DEF NoRows, TagListings, RowsOf
  <2>4. read[rd].elapsed + took < CallTimeout
        /\ read[rd].elapsed + took < 2 * CallTimeout - 1
    BY <1>1, <1>2, TimeoutAssumption
  <2>5. repos \cup DOMAIN NoRows = repos
    BY <2>3
  <2> HIDE DEF repos
  <2>6. OmitsNone(repos \cup DOMAIN NoRows, rd)
    BY <1>5, <2>5
  <2> QED
    BY <1>1, <1>4, <2>1, <2>2, <2>3, <2>4, <2>6, LoopInv
<1> QED
  BY <1>6, <1>7

LEMMA RowInv ==
  ASSUME Inv, NEW rd \in Readers, NEW took \in InTime, AnswerRow(rd, took)
  PROVE  Inv'
<1> DEFINE query == read[rd].query
           repo == NextRepo(rd)
           tags == TagsOf(registry[repo])
           todo == read[rd].todo \ {repo}
           rows == WithRow(read[rd].rows, repo, tags)
<1>1. /\ read[rd].pc = "tags" /\ query.kind = "catalog" /\ read[rd] \in Reads
      /\ UnderWay(rd) /\ took \in Nat /\ took < CallTimeout
  BY InTimeType DEF AnswerRow, Inv, TypeOK
<1>2. InLoop(rd) /\ read[rd].todo \in SUBSET Repos /\ read[rd].elapsed \in Nat
      /\ read[rd].rows \in TagListings
  BY <1>1 DEF UnderWay, Reads
<1>3. repo \in read[rd].todo /\ repo \in Repos
  BY <1>2, NextRepoIsTodo DEF InLoop, Inv
<1>4. Loop(rd, took, todo, rows)
  BY DEF AnswerRow
<1> HIDE DEF repo
<1>5. PICK done \in SUBSET Repos : read[rd].rows \in [done -> SUBSET Tags]
  BY <1>2 DEF TagListings
<1>6. DOMAIN rows = done \cup {repo} /\ rows[repo] = tags
      /\ \A other \in done \ {repo} : rows[other] = read[rd].rows[other]
  BY <1>5 DEF WithRow
<1>7. tags \in SUBSET Tags
  BY DEF TagsOf
<1>8. rows \in TagListings
  <2>1. rows \in [done \cup {repo} -> SUBSET Tags]
    BY <1>5, <1>7 DEF WithRow
  <2>2. done \cup {repo} \in SUBSET Repos
    BY <1>3, <1>5
  <2> HIDE DEF rows
  <2> QED
    BY <2>1, <2>2 DEF TagListings
<1>9. <<repo, tags>> \in seen[rd]
  <2>1. repo \in InNamespace(Repos, query.namespace)
    BY <1>2, <1>3 DEF InLoop, InNamespace
  <2>2. query.kind \notin Details /\ query.kind # "tags"
    BY <1>1 DEF Details
  <2>3. <<repo, tags>> \in FactsNow(query, registry)
    BY <2>1, <2>2 DEF FactsNow
  <2> QED
    BY <1>1, <2>3 DEF UnderWay
<1> HIDE DEF rows, tags
<1>10. RowsOf(rows, rd)
  <2>1. RowsOf(read[rd].rows, rd) /\ DOMAIN read[rd].rows = done
    BY <1>2, <1>5 DEF InLoop
  <2>2. repo \in InNamespace(listed, query.namespace)
    BY <1>2, <1>3 DEF InLoop
  <2> QED
    BY <1>6, <1>9, <2>1, <2>2 DEF RowsOf
<1>11. /\ todo \cap DOMAIN rows = {} /\ todo \in SUBSET Repos
       /\ todo \subseteq InNamespace(listed, query.namespace)
       /\ todo \cup DOMAIN rows = read[rd].todo \cup DOMAIN read[rd].rows
       /\ repo \notin done /\ DOMAIN rows # {}
  BY <1>2, <1>3, <1>5, <1>6 DEF InLoop
<1>12. OmitsNone(todo \cup DOMAIN rows, rd)
  BY <1>2, <1>11 DEF InLoop
<1>13. Cardinality(DOMAIN rows) <= 1 => read[rd].elapsed + took < 2 * CallTimeout - 1
  <2>1. Cardinality(done \cup {repo}) = Cardinality(done) + 1 /\ Cardinality(done) \in Nat
        /\ (Cardinality(done) = 0 => done = {})
    BY <1>5, <1>11, FiniteRepos, FS_AddElement, FS_EmptySet
  <2>2. Cardinality(DOMAIN rows) <= 1 => done = {}
    BY <1>6, <2>1
  <2>3. done = {} => read[rd].elapsed < CallTimeout
    BY <1>2, <1>5 DEF InLoop
  <2> QED
    BY <1>1, <1>2, <2>2, <2>3, TimeoutAssumption
<1> HIDE DEF todo
<1> QED
  BY <1>1, <1>4, <1>8, <1>10, <1>11, <1>12, <1>13, LoopInv

-----------------------------------------------------------------------------
(* The invariant.                                                          *)

LEMMA InitInv == Init => Inv
<1> SUFFICES ASSUME Init PROVE Inv
  OBVIOUS
<1>2. [manifests |-> {}, tagOf |-> [tag \in Tags |-> NoDigest]] \in Repositories
  BY DEF Repositories
<1>3. registry \in [Repos -> Repositories]
  BY <1>2, Zenon DEF Init
<1>4. Idle(NoQuery) \in Reads /\ Idle(NoQuery).pc = "idle"
  BY NoQueryType, IdleType
<1>5. read = [rd \in Readers |-> Idle(NoQuery)]
  BY DEF Init
<1>6. TypeOK
  BY <1>3, <1>4, <1>5, StatusType DEF Init, TypeOK
<1>7. ASSUME NEW rd \in Readers
      PROVE  before[rd] \subseteq listed /\ read[rd].pc = "idle" /\ Good(rd, answer[rd])
  <2>1. before[rd] = {} /\ read[rd].pc = "idle" /\ answer[rd] = Status("none")
    BY <1>4, <1>5 DEF Init
  <2>2. Status("none").status \notin {"ok", "cut"}
    BY DEF Status
  <2>3. answer[rd].status \notin {"ok", "cut"}
    BY <2>1, <2>2
  <2> QED
    BY <2>1, <2>3 DEF Good
<1> QED
  BY <1>6, <1>7 DEF Inv

LEMMA StutterInv == Inv /\ UNCHANGED vars => Inv'
<1> SUFFICES ASSUME Inv, UNCHANGED vars PROVE Inv'
  OBVIOUS
<1>1. UNCHANGED <<registry, listed, read, answer, before, seen>>
  BY DEF vars
<1>2. TypeOK'
  BY <1>1 DEF Inv, TypeOK
<1>3. ASSUME NEW rd \in Readers
      PROVE  /\ before'[rd] \subseteq listed'
             /\ read'[rd].pc = "idle" => Good(rd, answer[rd])'
             /\ read'[rd].pc # "idle" => UnderWay(rd)'
  BY <1>1, OthersKeep
<1> QED
  BY <1>2, <1>3 DEF Inv

LEMMA NextInv == Inv /\ [Next]_vars => Inv'
<1> SUFFICES ASSUME Inv, [Next]_vars PROVE Inv'
  OBVIOUS
<1>1. ASSUME NEW rd \in Readers, NEW query \in Queries, RefuseParameters(rd, query)
      PROVE  Inv'
  BY <1>1, RefuseInv DEF RefuseParameters
<1>2. ASSUME NEW rd \in Readers, NEW query \in Queries, NEW namespaces, NEW checked,
             Forbid(rd, namespaces, query, checked)
      PROVE  Inv'
  BY <1>2, RefuseInv DEF Forbid
<1>3. ASSUME NEW rd \in Readers, NEW query \in Queries, NEW namespaces, NEW checked,
             Admit(rd, namespaces, query, checked)
      PROVE  Inv'
  BY <1>3, AdmitInv
<1>4. ASSUME NEW rd \in Readers, Serve(rd)
      PROVE  Inv'
  BY <1>4, CatalogInv, TagsInv, RowInv, ManifestInv, ChildInv, ConfigInv DEF Serve
<1>5. ASSUME NEW rd \in Readers, NEW took \in Durations, GiveUp(rd, took)
      PROVE  Inv'
  BY <1>5, GiveUpInv
<1>6. ASSUME NEW repo \in Repos, NEW tag \in Tags \cup {NoTag}, NEW d \in Digests,
             Push(repo, tag, d)
      PROVE  Inv'
  BY <1>6, PushInv
<1>7. ASSUME NEW repo \in Repos, NEW d \in Digests, Remove(repo, d)
      PROVE  Inv'
  BY <1>7, RemoveInv
<1> QED
  BY <1>1, <1>2, <1>3, <1>4, <1>5, <1>6, <1>7, StutterInv DEF Next

(* The inductive invariant holds in every reachable state.                 *)
THEOREM Invariance == Spec => []Inv
<1>1. Init => Inv
  BY InitInv
<1>2. Inv /\ [Next]_vars => Inv'
  BY NextInv
<1> QED
  BY <1>1, <1>2, PTL DEF Spec

-----------------------------------------------------------------------------
(* The properties.                                                         *)

LEMMA AnswersAreGood ==
  ASSUME Inv, NEW rd \in Readers, answer[rd].status \in {"ok", "cut"}
  PROVE  Good(rd, answer[rd])
BY DEF Inv, UnderWay, Status

(* The answers of handleTagInfo and handleTagLayers, which take up to three *)
(* calls, describe one image that the tag named during the read.           *)
THEOREM OneImage == Spec => []AnswerIsOneImage
<1>1. Inv => AnswerIsOneImage
  BY AnswersAreGood DEF AnswerIsOneImage, Answered, Good
<1> QED
  BY <1>1, Invariance, PTL

(* A manifest stands for one image only.                                   *)
LEMMA StandsForOne ==
  ASSUME NEW d \in Digests, NEW a \in Digests, NEW b \in Digests,
         StandsFor(d, a), StandsFor(d, b)
  PROVE  a = b
<1> DEFINE entries == ContentOf[d].entries
           IsChosen(i) == \/ /\ i \in LinuxAmd64(entries)
                             /\ \A j \in LinuxAmd64(entries) : i <= j
                          \/ i = 1 /\ LinuxAmd64(entries) = {}
<1>1. CASE ~ContentOf[d].list
  BY <1>1 DEF StandsFor
<1>2. CASE ContentOf[d].list
  <2>1. DOMAIN entries \subseteq Nat
    <3>1. entries \in Seq([platform : Platforms, digest : Digests])
      BY <1>2, TagReadsAssumption DEF Images, Lists
    <3> QED
      BY <3>1
  <2>2. PICK i \in DOMAIN entries : entries[i].digest = a /\ IsChosen(i)
    BY <1>2 DEF StandsFor
  <2>3. PICK k \in DOMAIN entries : entries[k].digest = b /\ IsChosen(k)
    BY <1>2 DEF StandsFor
  <2>4. i = k
    BY <2>1, <2>2, <2>3
  <2> QED
    BY <2>2, <2>3, <2>4
<1> QED
  BY <1>1, <1>2

(* manifestCompressedSize and fetchTagDetails agree on every manifest.     *)
THEOREM SizesAgree == Spec => []ViewsAgree
<1>1. ASSUME Inv PROVE ViewsAgree
  <2> SUFFICES ASSUME NEW a \in Readers, NEW b \in Readers,
                      Answered(a, {"taginfo"}), Answered(b, {"taglayers"}),
                      answer[a].digest = answer[b].digest
               PROVE  answer[a].size = CompressedSize(answer[b])
    BY DEF ViewsAgree
  <2>1. IsOneImage(a, answer[a]) /\ IsOneImage(b, answer[b])
    BY <1>1, AnswersAreGood DEF Answered, Good, Details
  <2>2. PICK d \in Digests, x \in Digests :
          StandsFor(d, x) /\ answer[a] = TagInfo(d, x)
    BY <2>1 DEF IsOneImage, Answered
  <2>3. PICK e \in Digests, y \in Digests :
          StandsFor(e, y) /\ answer[b] = TagDetails(e, y)
    BY <2>1 DEF IsOneImage, Answered
  <2>4. d = e
    <3>1. answer[a].digest = d /\ answer[b].digest = e
      BY <2>2, <2>3 DEF TagInfo, TagDetails
    <3> QED
      BY <3>1
  <2>5. x = y
    BY <2>2, <2>3, <2>4, StandsForOne
  <2>6. answer[a].size = CompressedSize(ManifestSchema2(ContentOf[x]))
    BY <2>2 DEF TagInfo
  <2>7. /\ answer[b].layers = ManifestSchema2(ContentOf[x]).layers
        /\ answer[b].config = ManifestSchema2(ContentOf[x]).config
    BY <2>3, <2>5 DEF TagDetails
  <2> QED
    BY <2>6, <2>7 DEF CompressedSize
<1> QED
  BY <1>1, Invariance, PTL

(* fetchCatalog shows what was listed, under the namespace it was asked of. *)
THEOREM CatalogIsTrue == Spec => []RowsWereListed
<1>1. Inv => RowsWereListed
  BY AnswersAreGood DEF RowsWereListed, Answered, Good
<1> QED
  BY <1>1, Invariance, PTL

(* One repository that fails makes fetchCatalog fail, never shorter.       *)
THEOREM CatalogIsWhole == Spec => []NothingOmitted
<1>1. Inv => NothingOmitted
  BY AnswersAreGood DEF NothingOmitted, Answered, Good
<1> QED
  BY <1>1, Invariance, PTL

(* Three calls fit in the write deadline of main.go, the fourth may not.   *)
THEOREM DeadlineFits == Spec => []OnlyLongCatalogsAreCut
<1>1. Inv => OnlyLongCatalogsAreCut
  BY AnswersAreGood DEF OnlyLongCatalogsAreCut, Good
<1> QED
  BY <1>1, Invariance, PTL

-----------------------------------------------------------------------------
(* A read makes a bounded number of calls.                                 *)

(* A page has no more names than it may have: all but the last of its      *)
(* names come before the last.                                             *)
LEMMA PageIsBounded ==
  ASSUME NEW S \in SUBSET Repos
  PROVE  Cardinality(Page(S)) <= PageSize
<1> DEFINE page == Page(S)
           Later(x) == {y \in page : Position[x] < Position[y]}
           f == [x \in page |-> Cardinality(Later(x))]
           Earlier(x) == {other \in S : Position[other] < Position[x]}
<1>1. page \in SUBSET S /\ page \in SUBSET Repos /\ IsFiniteSet(page)
  BY PageOfAll, FiniteRepos
<1>2. CASE page = {}
  BY <1>2, FS_EmptySet, TagReadsAssumption
<1>3. CASE page # {}
  <2>1. \A x \in page : Later(x) \in SUBSET Repos
    BY <1>1
  <2>2. f \in [page -> Nat]
    <3> HIDE DEF Later, page
    <3> QED
      BY <2>1, FiniteRepos
  <2>3. PICK x \in page : \A y \in page : f[x] <= f[y]
    <3> HIDE DEF f, page
    <3> QED
      BY <1>1, <1>3, <2>2, SmallestExists
  <2>4. ASSUME NEW y \in page, Position[x] < Position[y]
        PROVE  FALSE
    <3>1. Position[x] \in Nat /\ Position[y] \in Nat
          /\ \A z \in page : Position[z] \in Nat
      BY <1>1, TagReadsAssumption
    <3>2. Later(y) \subseteq Later(x) /\ y \in Later(x) /\ y \notin Later(y)
      BY <2>4, <3>1
    <3>3. Later(x) \in SUBSET Repos /\ Later(y) # Later(x)
      BY <2>1, <3>2
    <3>4. f[x] = Cardinality(Later(x)) /\ f[y] = Cardinality(Later(y))
      OBVIOUS
    <3>5. f[x] <= f[y] /\ f[x] \in Nat /\ f[y] \in Nat
      BY <2>2, <2>3
    <3> HIDE DEF Later, f
    <3>6. Cardinality(Later(y)) < Cardinality(Later(x))
      BY <3>2, <3>3, FiniteRepos, FS_Subset
    <3> QED
      BY <3>4, <3>5, <3>6
  <2>5. page \ {x} \subseteq Earlier(x)
    <3>1. \A y \in page : Position[y] \in Nat /\ (Position[y] = Position[x] => y = x)
      BY <1>1, TagReadsAssumption
    <3>2. \A y \in page : ~(Position[x] < Position[y])
      BY <2>4
    <3> QED
      BY <1>1, <3>1, <3>2
  <2>6. Cardinality(Earlier(x)) < PageSize
    BY DEF Page
  <2>7. Earlier(x) \in SUBSET Repos
    OBVIOUS
  <2> HIDE DEF page, Earlier
  <2>8. Cardinality(page \ {x}) <= Cardinality(Earlier(x))
    BY <2>5, <2>7, FiniteRepos, FS_Subset
  <2>9. Cardinality(page \ {x}) = Cardinality(page) - 1 /\ Cardinality(page) \in Nat
    BY <1>1, FiniteRepos, FS_RemoveElement
  <2>10. Cardinality(Earlier(x)) \in Nat
    BY <2>7, FiniteRepos
  <2>11. Cardinality(page) <= PageSize
    BY <2>6, <2>8, <2>9, <2>10, TagReadsAssumption
  <2> QED
    BY <2>11 DEF page
<1> QED
  BY <1>2, <1>3

(* What a step of a reader does to its read.                               *)
GetsOn(r, s) ==
  /\ CallsLeft(s) < CallsLeft(r)
  /\ s.pc # "idle" => r.elapsed <= s.elapsed /\ s.elapsed <= r.elapsed + CallTimeout

LEMMA CallsAreLeft ==
  ASSUME Inv, NEW rd \in Readers, read[rd].pc # "idle"
  PROVE  CallsLeft(read[rd]) \in Nat \ {0}
<1>1. read[rd] \in Reads /\ UnderWay(rd) /\ read[rd].todo \in SUBSET Repos
      /\ read[rd].pc \in {"catalog", "tags", "manifest", "child", "config"}
  BY DEF Inv, TypeOK, Reads
<1>2. CASE read[rd].pc = "tags" /\ read[rd].query.kind = "catalog"
  <2>1. read[rd].todo # {}
    BY <1>1, <1>2 DEF UnderWay, InLoop
  <2>2. Cardinality(read[rd].todo) \in Nat \ {0}
    BY <1>1, <2>1, FiniteRepos, FS_EmptySet
  <2> QED
    BY <1>2, <2>2 DEF CallsLeft
<1>3. CASE ~(read[rd].pc = "tags" /\ read[rd].query.kind = "catalog")
  BY <1>1, <1>3, TagReadsAssumption DEF CallsLeft
<1> QED
  BY <1>2, <1>3

(* An answer, an error or a timeout ends the read.                         *)
LEMMA FinishGetsOn ==
  ASSUME Inv, NEW rd \in Readers, read[rd].pc # "idle", NEW took, NEW body,
         Finish(rd, took, body)
  PROVE  GetsOn(read[rd], read'[rd])
<1>1. read'[rd] = Idle(read[rd].query)
  BY DEF Finish, Inv, TypeOK
<1>2. read'[rd].pc = "idle"
  BY <1>1 DEF Idle
<1>3. CallsLeft(read'[rd]) = 0
  BY <1>2 DEF CallsLeft
<1> QED
  BY <1>2, <1>3, CallsAreLeft DEF GetsOn

(* Or the read has another call to make, with less to come after it.       *)
LEMMA GoOnGetsOn ==
  ASSUME Inv, NEW rd \in Readers, NEW took \in InTime, NEW next \in Reads,
         GoOn(rd, took, next),
         CallsLeft([next EXCEPT !.elapsed = read[rd].elapsed + took]) < CallsLeft(read[rd])
  PROVE  GetsOn(read[rd], read'[rd])
<1> DEFINE r == [next EXCEPT !.elapsed = read[rd].elapsed + took]
<1>1. read'[rd] = r
  BY DEF GoOn, Inv, TypeOK
<1>2. r.elapsed = read[rd].elapsed + took
  BY DEF Reads
<1>3. read[rd].elapsed \in Nat /\ took \in Nat /\ took < CallTimeout
  BY InTimeType DEF Inv, TypeOK, Reads
<1>4. read[rd].elapsed <= r.elapsed /\ r.elapsed <= read[rd].elapsed + CallTimeout
  BY <1>2, <1>3, TimeoutAssumption
<1> HIDE DEF r
<1> QED
  BY <1>1, <1>4 DEF GetsOn, r

(* The loop of fetchCatalog has a repository less to ask.                  *)
LEMMA LoopGetsOn ==
  ASSUME Inv, NEW rd \in Readers, NEW took \in InTime,
         read[rd].pc # "idle", read[rd].query.kind = "catalog",
         NEW todo \in SUBSET Repos, NEW rows \in TagListings,
         Cardinality(todo) < CallsLeft(read[rd]),
         Loop(rd, took, todo, rows)
  PROVE  GetsOn(read[rd], read'[rd])
<1>1. CASE todo = {}
  BY <1>1, FinishGetsOn DEF Loop
<1>2. CASE todo # {}
  <2> DEFINE next == [read[rd] EXCEPT !.pc = "tags", !.todo = todo, !.rows = rows]
             r == [next EXCEPT !.elapsed = read[rd].elapsed + took]
  <2>1. GoOn(rd, took, next)
    BY <1>2 DEF Loop
  <2>2. read[rd] \in Reads
    BY DEF Inv, TypeOK
  <2>3. next \in Reads
    BY <2>2, Zenon DEF Reads
  <2>4. r.pc = "tags" /\ r.query.kind = "catalog" /\ r.todo = todo
    BY <2>2 DEF Reads
  <2> HIDE DEF next
  <2>5. CallsLeft(r) < CallsLeft(read[rd])
    <3> HIDE DEF r
    <3> QED
      BY <2>4 DEF CallsLeft
  <2> QED
    BY <2>1, <2>3, <2>5, GoOnGetsOn
<1> QED
  BY <1>1, <1>2

LEMMA CatalogGetsOn ==
  ASSUME Inv, NEW rd \in Readers, NEW took \in InTime, AnswerCatalog(rd, took)
  PROVE  GetsOn(read[rd], read'[rd])
<1> DEFINE query == read[rd].query
           repos == InNamespace(Page(listed), query.namespace)
<1>1. read[rd].pc = "catalog" /\ query.kind \in Listings
  BY DEF AnswerCatalog, Inv, UnderWay
<1>2. CASE query.kind = "repos"
  BY <1>1, <1>2, FinishGetsOn DEF AnswerCatalog
<1>3. CASE query.kind = "catalog"
  <2>1. Loop(rd, took, repos, NoRows)
    BY <1>3 DEF AnswerCatalog
  <2>2. Page(listed) \in SUBSET Repos /\ repos \subseteq Page(listed)
    BY PageOfAll DEF Inv, TypeOK, InNamespace
  <2>3. CallsLeft(read[rd]) = 1 + PageSize
    BY <1>1, <1>3 DEF CallsLeft
  <2> HIDE DEF repos
  <2>4. /\ Cardinality(repos) <= Cardinality(Page(listed))
        /\ Cardinality(repos) \in Nat /\ Cardinality(Page(listed)) \in Nat
    BY <2>2, FiniteRepos, FS_Subset
  <2>5. Cardinality(Page(listed)) <= PageSize
    BY PageIsBounded DEF Inv, TypeOK
  <2>6. Cardinality(repos) < CallsLeft(read[rd])
    BY <2>3, <2>4, <2>5, TagReadsAssumption
  <2>7. NoRows \in TagListings
    BY DEF NoRows, TagListings
  <2>8. repos \in SUBSET Repos
    BY <2>2
  <2> QED
    BY <1>1, <1>3, <2>1, <2>6, <2>7, <2>8, LoopGetsOn
<1> QED
  BY <1>1, <1>2, <1>3 DEF Listings

LEMMA RowGetsOn ==
  ASSUME Inv, NEW rd \in Readers, NEW took \in InTime, AnswerRow(rd, took)
  PROVE  GetsOn(read[rd], read'[rd])
<1> DEFINE repo == NextRepo(rd)
           tags == TagsOf(registry[repo])
           todo == read[rd].todo
           rows == WithRow(read[rd].rows, repo, tags)
<1>1. /\ read[rd].pc = "tags" /\ read[rd].query.kind = "catalog" /\ read[rd] \in Reads
      /\ InLoop(rd)
  BY DEF AnswerRow, Inv, TypeOK, UnderWay
<1>2. todo \in SUBSET Repos /\ read[rd].rows \in TagListings
  BY <1>1 DEF Reads
<1>3. repo \in todo /\ repo \in Repos
  BY <1>1, <1>2, NextRepoIsTodo DEF InLoop, Inv
<1>4. Loop(rd, took, todo \ {repo}, rows)
  BY DEF AnswerRow
<1> HIDE DEF repo
<1>5. rows \in TagListings
  <2>1. PICK done \in SUBSET Repos : read[rd].rows \in [done -> SUBSET Tags]
    BY <1>2 DEF TagListings
  <2>2. tags \in SUBSET Tags
    BY DEF TagsOf
  <2>3. rows \in [done \cup {repo} -> SUBSET Tags]
    BY <2>1, <2>2 DEF WithRow
  <2>4. done \cup {repo} \in SUBSET Repos
    BY <1>3, <2>1
  <2> HIDE DEF rows
  <2> QED
    BY <2>3, <2>4 DEF TagListings
<1>6. CallsLeft(read[rd]) = Cardinality(todo)
  BY <1>1 DEF CallsLeft
<1> HIDE DEF rows, todo
<1>7. /\ Cardinality(todo \ {repo}) = Cardinality(todo) - 1
      /\ Cardinality(todo) \in Nat
  BY <1>2, <1>3, FiniteRepos, FS_RemoveElement
<1>8. Cardinality(todo \ {repo}) < CallsLeft(read[rd])
  BY <1>6, <1>7
<1>9. todo \ {repo} \in SUBSET Repos
  BY <1>2
<1> QED
  BY <1>1, <1>4, <1>5, <1>8, <1>9, LoopGetsOn

(* Of the details the manifest comes first, the config last.               *)
LEMMA UseImageGetsOn ==
  ASSUME Inv, NEW rd \in Readers, read[rd].pc \in {"manifest", "child"},
         NEW took \in InTime, NEW d \in Digests, NEW image \in Digests,
         UseImage(rd, took, d, image)
  PROVE  GetsOn(read[rd], read'[rd])
<1>1. CASE \E body : Finish(rd, took, body)
  BY <1>1, FinishGetsOn
<1> DEFINE next == [read[rd] EXCEPT !.pc = "config", !.digest = d, !.image = image]
           r == [next EXCEPT !.elapsed = read[rd].elapsed + took]
<1>2. CASE GoOn(rd, took, next)
  <2>1. read[rd] \in Reads
    BY DEF Inv, TypeOK
  <2>2. next \in Reads
    BY <2>1, Zenon DEF Reads
  <2>3. r.pc = "config"
    BY <2>1 DEF Reads
  <2> HIDE DEF next
  <2>4. CallsLeft(r) < CallsLeft(read[rd])
    <3>1. CallsLeft(r) = 1
      <4> HIDE DEF r
      <4> QED
        BY <2>3 DEF CallsLeft
    <3>2. CallsLeft(read[rd]) \in {2, 3}
      BY DEF CallsLeft
    <3> QED
      BY <3>1, <3>2
  <2> QED
    BY <1>2, <2>2, <2>4, GoOnGetsOn
<1> QED
  BY <1>1, <1>2 DEF UseImage

LEMMA ManifestGetsOn ==
  ASSUME Inv, NEW rd \in Readers, NEW took \in InTime, AnswerManifest(rd, took)
  PROVE  GetsOn(read[rd], read'[rd])
<1> DEFINE query == read[rd].query
           d == Resolve(registry[query.repo], query.tag)
           image == SelectedFrom(query.kind, ContentOf[d].entries)
<1>1. read[rd] \in Reads /\ UnderWay(rd) /\ read[rd].pc = "manifest"
  BY DEF AnswerManifest, Inv, TypeOK
<1>2. query.repo \in Repos /\ query.tag \in Tags
  BY <1>1 DEF Reads, Queries, UnderWay, Malformed, Details, Listings
<1>3. registry[query.repo].tagOf \in [Tags -> Digests \cup {NoDigest}]
  BY <1>2 DEF Inv, TypeOK, Repositories
<1>4. d \in Digests
  BY <1>2, <1>3 DEF AnswerManifest, Resolve
<1>5. CASE UseImage(rd, took, d, d)
  BY <1>1, <1>4, <1>5, UseImageGetsOn
<1> DEFINE next == [read[rd] EXCEPT !.pc = "child", !.digest = d, !.image = image]
           r == [next EXCEPT !.elapsed = read[rd].elapsed + took]
<1>6. CASE /\ ContentOf[d].list /\ ContentOf[d].entries # <<>>
           /\ GoOn(rd, took, next)
  <2>1. image \in Digests
    BY <1>4, <1>6, SelectedStandsFor
  <2> HIDE DEF d, image
  <2>2. next \in Reads
    BY <1>1, <1>4, <2>1, Zenon DEF Reads
  <2>3. r.pc = "child"
    BY <1>1 DEF Reads
  <2> HIDE DEF next
  <2>4. CallsLeft(r) < CallsLeft(read[rd])
    <3>1. CallsLeft(r) = 2
      <4> HIDE DEF r
      <4> QED
        BY <2>3 DEF CallsLeft
    <3>2. CallsLeft(read[rd]) = 3
      BY <1>1 DEF CallsLeft
    <3> QED
      BY <3>1, <3>2
  <2> QED
    BY <1>6, <2>2, <2>4, GoOnGetsOn
<1> QED
  BY <1>5, <1>6 DEF AnswerManifest

LEMMA ServeGetsOn ==
  ASSUME Inv, NEW rd \in Readers, Serve(rd)
  PROVE  GetsOn(read[rd], read'[rd])
<1>1. ASSUME NEW took \in InTime, AnswerTags(rd, took)
      PROVE  GetsOn(read[rd], read'[rd])
  BY <1>1, FinishGetsOn DEF AnswerTags
<1>2. ASSUME NEW took \in InTime, AnswerChild(rd, took)
      PROVE  GetsOn(read[rd], read'[rd])
  <2>1. read[rd].pc = "child" /\ HasImage(rd)
    BY <1>2 DEF AnswerChild, Inv, UnderWay
  <2> QED
    BY <1>2, <2>1, UseImageGetsOn DEF AnswerChild, HasImage
<1>3. ASSUME NEW took \in InTime, AnswerConfig(rd, took)
      PROVE  GetsOn(read[rd], read'[rd])
  BY <1>3, FinishGetsOn DEF AnswerConfig
<1> QED
  BY <1>1, <1>2, <1>3, CatalogGetsOn, RowGetsOn, ManifestGetsOn DEF Serve

(* A step changes the read of one reader, if of any.                       *)
LEMMA OneReadAtATime ==
  ASSUME Inv, NEW rd \in Readers, NEW by \in Readers, by # rd,
         Serve(by) \/ (\E took \in Durations : GiveUp(by, took))
  PROVE  read'[rd] = read[rd]
<1>1. \E r : read' = [read EXCEPT ![by] = r]
  BY DEF Serve, GiveUp, AnswerCatalog, AnswerTags, AnswerRow, AnswerManifest,
     AnswerChild, AnswerConfig, UseImage, Loop, Finish, GoOn
<1> QED
  BY <1>1 DEF Inv, TypeOK

(* Every read of api_handlers.go ends after at most 1 + PageSize calls,     *)
(* each under its timeout: what ReadsAnswered needs besides fairness.      *)
THEOREM ReadsEnd == Spec => ReadsGetOn
<1>1. ASSUME Inv, [Next]_vars, NEW rd \in Readers, read[rd].pc # "idle",
             read'[rd] # read[rd]
      PROVE  GetsOn(read[rd], read'[rd])
  <2>1. ASSUME NEW by \in Readers, NEW query \in Queries,
               \/ RefuseParameters(by, query)
               \/ \E namespaces \in SUBSET Namespaces, checked \in CheckedFor(query) :
                    \/ Forbid(by, namespaces, query, checked)
                    \/ Admit(by, namespaces, query, checked)
        PROVE  FALSE
    <3>1. read[by].pc = "idle" /\ \E r : read' = [read EXCEPT ![by] = r]
      BY <2>1 DEF RefuseParameters, Forbid, Refuse, Admit
    <3> QED
      BY <1>1, <3>1 DEF Inv, TypeOK
  <2>2. ASSUME NEW by \in Readers, Serve(by)
        PROVE  GetsOn(read[rd], read'[rd])
    BY <1>1, <2>2, OneReadAtATime, ServeGetsOn
  <2>3. ASSUME NEW by \in Readers, NEW took \in Durations, GiveUp(by, took)
        PROVE  GetsOn(read[rd], read'[rd])
    <3>1. by = rd
      BY <1>1, <2>3, OneReadAtATime
    <3> QED
      BY <1>1, <2>3, <3>1, FinishGetsOn DEF GiveUp
  <2>4. ASSUME NEW repo \in Repos, NEW tag \in Tags \cup {NoTag}, NEW d \in Digests,
               Push(repo, tag, d)
        PROVE  FALSE
    BY <1>1, <2>4 DEF Push
  <2>5. ASSUME NEW repo \in Repos, NEW d \in Digests, Remove(repo, d)
        PROVE  FALSE
    BY <1>1, <2>5 DEF Remove
  <2>6. CASE UNCHANGED vars
    BY <1>1, <2>6 DEF vars
  <2> QED
    BY <1>1, <2>1, <2>2, <2>3, <2>4, <2>5, <2>6 DEF Next
<1>2. Inv /\ [Next]_vars =>
        [\A rd \in Readers : read[rd].pc # "idle" /\ read'[rd] # read[rd] =>
           /\ CallsLeft(read'[rd]) < CallsLeft(read[rd])
           /\ read'[rd].pc # "idle" =>
                /\ read[rd].elapsed <= read'[rd].elapsed
                /\ read'[rd].elapsed <= read[rd].elapsed + CallTimeout]_vars
  BY <1>1 DEF GetsOn
<1> QED
  BY <1>2, Invariance, PTL DEF Spec, ReadsGetOn
=============================================================================
