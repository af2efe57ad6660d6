--------------------------- MODULE MCMessageAuth ---------------------------
(***************************************************************************)
(* An organisation with a subdomain and another one; the author's server and *)
(* one forwarder may sign and seal.                                         *)
(***************************************************************************)
EXTENDS MessageAuth

MCorg == [d \in {"a.test", "n.a.test", "b.test"} |-> IF d = "b.test" THEN d ELSE "a.test"]

Option(alg, h, relaxed, l, expired) ==
  [alg |-> alg, h |-> h, relaxed |-> relaxed, l |-> l, expired |-> expired]

MCSealOptions ==
  {Option("rsa-sha256", <<"from", "subject">>, TRUE, NoLimit, FALSE),
   Option("ed25519-sha256", <<"from", "subject", "auth">>, TRUE, NoLimit, FALSE)}

MCSignOptions == MCSealOptions \union
  {Option("rsa-sha256", <<"from">>, FALSE, 1, FALSE),
   Option("rsa-sha1", <<"from">>, TRUE, NoLimit, FALSE),
   Option("rsa-sha256", <<"from">>, TRUE, NoLimit, TRUE)}

Policy(p, sp, adkim, aspf, pct) ==
  [p |-> p, sp |-> sp, adkim |-> adkim, aspf |-> aspf, pct |-> pct]

Zone(a, n, key, spf) ==
  [enabled |-> TRUE, spf |-> [result |-> spf, domain |-> "a.test"],
   keys |-> [d \in {"a.test", "n.a.test", "b.test"} |-> CASE d # "b.test" -> key
                [] key = "ed25519" -> "rsa-weak" [] OTHER -> "rsa"],
   dmarc |-> [d \in {"a.test", "n.a.test", "b.test"} |->
                CASE d = "a.test" -> a [] d = "n.a.test" -> n [] OTHER -> NoRecord]]

MCDns ==
  {Zone(Policy("none", "reject", "r", "r", 100), NoRecord, "rsa", "fail"),
   Zone(Policy("reject", "", "s", "s", 100), NoRecord, "ed25519", "pass"),
   Zone(Policy("reject", "", "r", "r", 50), Policy("reject", "", "r", "r", 100), "rsa", "pass"),
   [Zone(NoRecord, NoRecord, "revoked", "none") EXCEPT !.enabled = FALSE]}

Report(id, dkim) == [id |-> id, spf |-> "", dkim |-> dkim, dmarc |-> ""]

MCReported ==
  {[fields |-> <<Report("gw", "fail"), Report("elsewhere", "pass")>>,
    receivedSpf |-> "pass"]}
=============================================================================
