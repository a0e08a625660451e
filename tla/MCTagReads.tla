----------------------------- MODULE MCTagReads -----------------------------
(* Model values for TagReads: repositories in two namespaces, sorted by     *)
(* name, an image with a config blob, one without, and a list whose second *)
(* entry is for linux/amd64.                                               *)
EXTENDS TagReads, TLC

CONSTANTS n1, n2, app, lib, os, web, v1, i1, i2, l1, r1, r2

MCNamespaceOf == [repo \in Repos |-> IF repo = app THEN n1 ELSE n2]

(* The URL of one parameter leads from n1 to lib.                          *)
MCRepoParams ==
  {[namespace |-> MCNamespaceOf[repo], repo |-> repo] : repo \in Repos}
  \cup {[namespace |-> n1, repo |-> repo] : repo \in Repos \cap {lib}}

MCPosition == [repo \in Repos |-> CASE repo = app -> 1 [] repo = lib -> 2
                                    [] repo = os  -> 3 [] repo = web -> 4]

Entry(platform, digest) == [platform |-> platform, digest |-> digest]

Manifest(d) ==
  CASE d = i1 -> [list |-> FALSE, config |-> [blob |-> TRUE, size |-> 1],
                  layers |-> <<2, 4>>]
    [] d = i2 -> [list |-> FALSE, config |-> [blob |-> FALSE, size |-> 0],
                  layers |-> <<8>>]
    [] d = l1 -> [list |-> TRUE, entries |-> <<Entry("other", i2),
                                               Entry("linux/amd64", i1)>>]

MCContentOf == [d \in Digests |-> Manifest(d)]

Symmetry == Permutations({r1, r2})
=============================================================================
