----------------------------- MODULE MCLdapLogin -----------------------------
(* Model values and small lists of groups for LdapLogin.                   *)
EXTENDS LdapLogin

CONSTANTS n1, n2

(* Every suffix on the first namespace; the second has the two that do not *)
(* dominate each other and an unsuffixed group; one group of each kind     *)
(* that is ignored, and a name that is only a suffix.                      *)
MCGroups ==
  {[rdn |-> "cn", name |-> [prefixed |-> TRUE, base |-> n1, suffix |-> s]] :
      s \in Suffixes}
  \cup {[rdn |-> "ou", name |-> [prefixed |-> TRUE, base |-> n2, suffix |-> s]] :
      s \in {"_rw", "_rd", "none"}}
  \cup {[rdn |-> "cn", name |-> [prefixed |-> FALSE, base |-> n1, suffix |-> "_rwd"]],
        [rdn |-> "other", name |-> [prefixed |-> TRUE, base |-> n2, suffix |-> "_rwd"]],
        [rdn |-> "plain", name |-> [prefixed |-> TRUE, base |-> NoNamespace,
                                    suffix |-> "_rwd"]]}

(* All lists of at most three of those groups, repetitions included.       *)
MCGroupLists == UNION {[1..n -> MCGroups] : n \in 0..3}
=============================================================================
