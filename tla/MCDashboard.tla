---------------------------- MODULE MCDashboard ----------------------------
(* Model values for Dashboard: two repositories of one namespace, with one *)
(* tag name in common, or of two namespaces of which one grants deletions. *)
EXTENDS Dashboard, TLC

CONSTANTS team, infra, app, lib, v1

MCNamespaceOf == [repo \in Repos |-> team]
MCNamespaceOf2 == [repo \in Repos |-> IF repo = app THEN team ELSE infra]

Symmetry == Permutations({app, lib})
=============================================================================
