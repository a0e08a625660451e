CONSTANTS
  n1 = n1
  n2 = n2
  app = app
  lib = lib
  os = os
  web = web
  v1 = v1
  i1 = i1
  i2 = i2
  l1 = l1
  r1 = r1
  r2 = r2
  Namespaces = {n1, n2}
  NoNamespace = NoNamespace
  Tags = {v1}
  Digests = {i1, i2, l1}
  NoDigest = NoDigest
  Repos = {app}
  NamespaceOf <- MCNamespaceOf
  RepoParams <- MCRepoParams
  Position <- MCPosition
  NoRepo = NoRepo
  NoTag = NoTag
  ContentOf <- MCContentOf
  PageSize = 4
  CallTimeout = 1
  WriteTimeout = 3
  Durations = {0}
  Readers = {r1, r2}
  Kinds = {"tags", "taginfo", "taglayers"}
SYMMETRY Symmetry
SPECIFICATION Spec
INVARIANTS
  AnswerIsOneImage
  ViewsAgree
  Inv
