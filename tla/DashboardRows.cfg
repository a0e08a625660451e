CONSTANTS
  team = team
  infra = infra
  app = app
  lib = lib
  v1 = v1
  None = None
  Namespaces = {team}
  Repos = {app, lib}
  NamespaceOf <- MCNamespaceOf
  Tags = {v1}
  Deletable = {team}
  MaxFetches = 2
SPECIFICATION Spec
INVARIANT RowsShowTheirImage
