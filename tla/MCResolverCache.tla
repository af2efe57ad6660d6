--------------------------- MODULE MCResolverCache ---------------------------
(***************************************************************************)
(* Two sessions, a domain that may move from one mail host to two.           *)
(***************************************************************************)
EXTENDS ResolverCache, TLC

CONSTANTS s1, s2
Symmetry == Permutations(Session)

Published(records, secure) == [records |-> records, secure |-> secure]

MCChains == {<<"leaf", "ca">>}

Zone(first, second) ==
  [n \in Name |->
     CASE n = "mx" -> Published({"h1", "h2"}, FALSE)
       [] n = "h1" -> Published(first, TRUE)
       [] n = "h2" -> Published(second, TRUE)
       [] n = "_mta-sts" -> Published({[kind |-> "valid"], [kind |-> "other"]}, TRUE)
       [] OTHER -> Published({[kind |-> "malformed"]}, FALSE)]

Record(usage, cert) == [usage |-> usage, cert |-> cert, known |-> TRUE]

MCZones ==
  {Zone({Record("DANE-EE", "ca")}, {Record("DANE-EE", "leaf")}),
   Zone({Record("DANE-TA", "ca"), Record("PKIX", "leaf")}, {Record("PKIX", "leaf")})}
=============================================================================
