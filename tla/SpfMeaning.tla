------------------------------ MODULE SpfMeaning ------------------------------
(***************************************************************************)
(* What a published record says of a client when nobody counts the           *)
(* questions: the reference SpfEvaluation's verdicts are compared with.      *)
(* It is a function of the zone alone, by levels of reference: the meaning   *)
(* of a record n levels deep is built on that of the records it names n - 1  *)
(* levels deep.                                                             *)
(***************************************************************************)
EXTENDS SpfEvaluation

Expanded(spec, sender, d) ==
  CASE spec = CurrentDomain -> d [] spec = SenderDomain -> sender [] OTHER -> spec

\* The name a term of d's record speaks of.
NameIn(t, sender, d) ==
  IF t.arg = "" /\ t.name \in {"a", "mx", "ptr"} THEN d
  ELSE IF t.name = "ptr" THEN t.arg ELSE Expanded(t.arg, sender, d)

Hit(z, t, host) == "client" \in z.a[host] \/ (t.wide /\ "near" \in z.a[host])

\* below is what the records named mean.
InError(z, sender, below, d, t) ==
  LET name == NameIn(t, sender, d) IN
  \/ t.name = "unknown"
  \/ t.name = "ip" /\ t.arg = "malformed"
  \/ t.name \in {"a", "mx", "include", "exists"} /\ name \notin Domain
  \/ t.name = "mx" /\ Len(z.mx[name]) > maxMXHosts
  \/ t.name = "include" /\ below[name] \in {"none", "permerror"}

Matches(z, sender, below, d, t) ==
  LET name == NameIn(t, sender, d) IN
  \/ t.name = "all"
  \/ t.name = "ip" /\ t.arg = "covers"
  \/ t.name = "a" /\ Hit(z, t, name)
  \/ t.name = "mx" /\ \E i \in DOMAIN z.mx[name] : Hit(z, t, z.mx[name][i])
  \/ t.name = "exists" /\ z.a[name] # {}
  \/ t.name = "include" /\ below[name] = "pass"
  \/ t.name = "ptr" /\ \E p \in z.ptr : /\ "client" \in z.a[p]
                                        /\ p = name \/ <<p, name>> \in Subdomain

Decides(z, sender, below, d, t) ==
  InError(z, sender, below, d, t) \/ Matches(z, sender, below, d, t)

\* The first of a record's terms that matches or is in error decides; after them
\* the last redirect, unless it names nothing.
TermsMeaning(z, sender, below, d, ts) ==
  LET deciding == {i \in DOMAIN ts : Decides(z, sender, below, d, ts[i])}
      first    == ts[CHOOSE i \in deciding : \A j \in deciding : i <= j]
      named    == {i \in DOMAIN ts : ts[i].name = "redirect"}
      last     == ts[CHOOSE i \in named : \A j \in named : i >= j]
      target   == Expanded(last.arg, sender, d)
  IN  IF deciding # {}
      THEN IF InError(z, sender, below, d, first) THEN "permerror"
           ELSE qualifierToResult(first.q)
      ELSE IF named = {} \/ last.arg = "" THEN "neutral"
      ELSE IF target \notin Domain \/ below[target] = "none" THEN "permerror"
      ELSE below[target]

\* A domain has a meaning of its own only if it publishes exactly one record.
RecordMeaning(z, sender, below, d) ==
  LET txt == z.txt[d] IN
  IF d \in z.oversized THEN "permerror"
  ELSE IF txt = <<>> THEN "none"
  ELSE IF Len(txt) > 1 \/ ~txt[1].spf1 THEN "permerror"
  ELSE TermsMeaning(z, sender, below, d, txt[1].terms)

\* The meanings of all domains, n levels of reference deep for n up to levels.
MeaningsTo(z, sender, levels) ==
  LET m[n \in 0..levels] ==
        IF n = 0 THEN [d \in Domain |-> "permerror"]
        ELSE [d \in Domain |-> RecordMeaning(z, sender, m[n - 1], d)]
  IN  m

Meaning(z, sender, levels) == MeaningsTo(z, sender, levels)[levels][sender]

\* The evaluator computes the meaning of the sender's record whenever it stays
\* within the limits, however its calls nest and return (spf.go: check,
\* evaluateMechanism).
VerdictIsMeaning ==
  verdict # "" /\ WithinLimits /\ client.resolver /\ client.ip =>
    verdict = IF Identity \in Domain
              THEN Meaning(zone, Identity, maxSPFLookups + 1) ELSE "none"
=============================================================================
