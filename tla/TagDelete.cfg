CONSTANTS
  n1 = n1
  n2 = n2
  n3 = n3
  n4 = n4
  app = app
  lib = lib
  os = os
  v1 = v1
  v2 = v2
  d1 = d1
  d2 = d2
  r1 = r1
  r2 = r2
  Namespaces = {n1, n2, n3, n4}
  NoNamespace = NoNamespace
  Tags = {v1, v2}
  Digests = {d1, d2}
  NoDigest = NoDigest
  Repos = {app, lib, os}
  NamespaceOf <- MCNamespaceOf
  RepoParams <- MCRepoParams
  NoRepo = NoRepo
  NoTag = NoTag
  AccessLists <- MCAccessLists
  Requests = {r1, r2}
  Contents <- MCContents
SPECIFICATION FairSpec
INVARIANTS
  StatusTellsEffect
  Inv
PROPERTIES
  FreedAsResolved
  NamespacesProtected
  DeletionSpec
  DeletesAnswered
