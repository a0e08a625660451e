CONSTANTS
  n1 = n1
  n2 = n2
  Namespaces = {n1, n2}
  NoNamespace = NoNamespace
  GroupLists <- MCGroupLists
  StartTLS = TRUE
  UserMailDomain = FALSE
  NoUser = NoUser
SPECIFICATION Spec
INVARIANTS
  NoConnectionLeak
  AcceptedIsBound
  SelectedIsStrongest
  ProxyFollowsGroups
  DecidersAgree
  Inv
PROPERTIES
  LoginSpec
