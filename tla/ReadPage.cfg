CONSTANTS
  n1 = n1
  n2 = n2
  app = app
  lib = lib
  os = os
  web = web
  v1 = v1
  i1 = i1
  i2 = i2
  l1 = l1
  r1 = r1
  r2 = r2
  Namespaces = {n1, n2}
  NoNamespace = NoNamespace
  Tags = {v1}
  Digests = {i2}
  NoDigest = NoDigest
  Repos = {app, lib, os}
  NamespaceOf <- MCNamespaceOf
  RepoParams <- MCRepoParams
  Position <- MCPosition
  NoRepo = NoRepo
  NoTag = NoTag
  ContentOf <- MCContentOf
  PageSize = 1
  CallTimeout = 1
  WriteTimeout = 3
  Durations = {0}
  Readers = {r1}
  Kinds = {"catalog", "repos"}
SPECIFICATION Spec
INVARIANTS
  EmptyMeansNone
