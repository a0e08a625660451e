CONSTANTS
  n1 = n1
  n2 = n2
  app = app
  lib = lib
  os = os
  web = web
  v1 = v1
  i1 = i1
  i2 = i2
  l1 = l1
  r1 = r1
  r2 = r2
  Namespaces = {n1, n2}
  NoNamespace = NoNamespace
  Tags = {v1}
  Digests = {i1}
  NoDigest = NoDigest
  Repos = {lib, os, web}
  NamespaceOf <- MCNamespaceOf
  RepoParams <- MCRepoParams
  Position <- MCPosition
  NoRepo = NoRepo
  NoTag = NoTag
  ContentOf <- MCContentOf
  PageSize = 4
  CallTimeout = 4
  WriteTimeout = 12
  Durations = {0, 3, 4}
  Readers = {r1}
  Kinds = {"catalog","repos","tags","taginfo","taglayers"}
SPECIFICATION FairSpec
INVARIANTS
  RowsWereListed
  NothingOmitted
  OnlyLongCatalogsAreCut
PROPERTIES
  ReadsGetOn
  ReadsAnswered
