---------------------------- MODULE MCTlsStartup ----------------------------
(* An instance of TlsStartup: ports at the edges of their range, lists of   *)
(* domains with blanks, and three pairs, one more than there are files.     *)
EXTENDS TlsStartup

CONSTANTS domain, p1, p2, p3

Plain ==
  [CERTMAGIC_ENABLE |-> "unset", CERTMAGIC_DOMAINS |-> <<Blank>>,
   CERTMAGIC_CA_ROOT |-> "unset", CERTMAGIC_HTTP_PORT |-> Unset,
   CERTMAGIC_TLS_ALPN_PORT |-> Unset]

Managed == [Plain EXCEPT !.CERTMAGIC_DOMAINS = <<domain, Blank>>]

MCEnvironments ==
  {[e EXCEPT !.CERTMAGIC_ENABLE = setting] :
     e \in {Plain, Managed}, setting \in {"unset", "yes", "no"}}
  \cup {[e EXCEPT !.CERTMAGIC_CA_ROOT = root] :
         e \in {Plain, Managed}, root \in {"certificates", "unusable"}}
  \cup {[Managed EXCEPT !.CERTMAGIC_HTTP_PORT = port] :
         port \in {NoNumber, 0, 1, 65535, 65536}}
  \cup {[Managed EXCEPT !.CERTMAGIC_TLS_ALPN_PORT = port] : port \in {NoNumber, 8443}}
=============================================================================
