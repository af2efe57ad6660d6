---------------------------- MODULE SpfEvaluation ----------------------------
(***************************************************************************)
(* The SPF evaluator (pkg/authverify/spf.go).  check() calls itself for an   *)
(* include and for a redirect; here the calls are frames of a stack, so that *)
(* the limits shared by all of them can be watched from term to term.        *)
(*                                                                         *)
(* The zone is what DNS would answer during the evaluation.  Addresses are   *)
(* seen from the client: its own, one within the prefix of a widened         *)
(* mechanism, or another.  A term is the name, the qualifier, the argument   *)
(* and whether an address is widened by a prefix length; an argument may be  *)
(* a macro, of which there are %{d}, %{o} and one that is not supported.     *)
(***************************************************************************)
EXTENDS Naturals, Sequences, FiniteSets

CONSTANTS
  Domain,          \* domain names
  Subdomain,       \* pairs <<n, d>>: n lies below d
  Zones,           \* the zones the evaluation may meet
  Identities,      \* what MAIL FROM and HELO may hold: domains, "" or "local"
  Clients,         \* arguments of VerifySPF
  maxSPFLookups, maxSPFVoidLookups, maxSPFRedirects, maxMXHosts

SpfResults == {"none", "neutral", "pass", "fail", "softfail", "temperror",
               "permerror"}
Address == {"client", "near", "other"}
CurrentDomain == "%{d}"
SenderDomain == "%{o}"
BadMacro == "%{p}"
Specs == Domain \union {CurrentDomain, SenderDomain, BadMacro, ""}

Mechanisms == {"all", "ip", "a", "mx", "include", "exists", "ptr", "unknown"}

\* What the address of an ip4 or ip6 mechanism is to the client's.
Ranges == {"covers", "misses", "malformed"}
Terms ==
  [name : {"ip"}, q : {"+", "-", "~", "?"}, arg : Ranges, wide : BOOLEAN] \union
  [name : (Mechanisms \ {"ip"}) \union {"redirect", "exp"}, q : {"+", "-", "~", "?"},
   arg : Specs, wide : BOOLEAN]

Records == [spf1 : BOOLEAN, terms : Seq(Terms)]

IsZone(z) ==
  /\ DOMAIN z = {"txt", "oversized", "a", "mx", "ptr"}
  /\ z.txt \in [Domain -> Seq(Records)]  \* TXT records that begin with v=spf1
  /\ z.oversized \subseteq Domain        \* names with a TXT record over the limit
  /\ z.a \in [Domain -> SUBSET Address]
  /\ z.mx \in [Domain -> Seq(Domain)]
  /\ z.ptr \subseteq Domain              \* names of the client's address
  /\ IsFiniteSet(z.ptr)

ASSUME SpfAssumption ==
  /\ \A z \in Zones : IsZone(z)
  /\ Identities \subseteq Domain \union {"", "local"}
  /\ Clients \subseteq [resolver : BOOLEAN, ip : BOOLEAN, mailFrom : Identities,
                        helo : Identities]
  /\ \A d \in Domain : d \notin {CurrentDomain, SenderDomain, BadMacro, "", "local"}
  /\ maxSPFLookups \in Nat /\ maxSPFVoidLookups \in Nat
  /\ maxSPFRedirects \in Nat /\ maxMXHosts \in Nat

VARIABLES
  zone,
  client,     \* the arguments of VerifySPF: resolver, clientIP, mailFrom, helo
  stack,      \* calls of check() in progress, the innermost last
  ret,        \* what the innermost call returns, "" while it runs
  lookups, voidLookups, redirects,
  queries,    \* history: names asked of the resolver
  verdict     \* SPFResult.Result, "" while evaluating

counters == <<lookups, voidLookups, redirects>>
vars == <<zone, client, stack, ret, counters, queries, verdict>>

Init ==
  /\ zone \in Zones
  /\ client \in Clients
  /\ stack = <<>> /\ ret = "" /\ verdict = ""
  /\ lookups = 0 /\ voidLookups = 0 /\ redirects = 0 /\ queries = 0

\* A call of check(); next is the index of the term to evaluate, 0 before the
\* record is found.
Call(domain, caller) == [domain |-> domain, next |-> 0, caller |-> caller]

\* RFC 7208 section 2.4: a null reverse path is checked as the HELO name.
Identity == IF client.mailFrom = "" THEN client.helo ELSE client.mailFrom

VerifySPF ==
  /\ verdict = "" /\ stack = <<>>
  /\ IF client.resolver /\ client.ip /\ Identity \in Domain
     THEN stack' = <<Call(Identity, "sender")>> /\ UNCHANGED verdict
     ELSE /\ verdict' = IF ~client.resolver THEN "temperror"
                        ELSE IF ~client.ip THEN "permerror" ELSE "none"
          /\ UNCHANGED stack
  /\ UNCHANGED <<zone, client, ret, counters, queries>>

(***************************************************************************)
(* Inside one call.                                                         *)
(***************************************************************************)
Innermost == stack[Len(stack)]
Running == stack # <<>> /\ ret = ""
terms == zone.txt[Innermost.domain][1].terms
term == terms[Innermost.next]

Continue == [stack EXCEPT ![Len(stack)].next = @ + 1]

expandDomainSpec(spec) ==
  CASE spec = CurrentDomain -> Innermost.domain
    [] spec = SenderDomain -> Identity
    [] OTHER -> spec

\* The target of a and mx: the current domain unless another is named.
mechanismTarget(spec) == IF spec = "" THEN Innermost.domain ELSE expandDomainSpec(spec)

qualifierToResult(q) ==
  CASE q = "-" -> "fail" [] q = "~" -> "softfail" [] q = "?" -> "neutral"
    [] OTHER -> "pass"

anyAddressMatches(addresses, wide) ==
  "client" \in addresses \/ (wide /\ "near" \in addresses)

findRecord ==
  LET found == zone.txt[Innermost.domain]
      large == Innermost.domain \in zone.oversized
      void  == found = <<>> /\ ~large
      error == CASE large -> "permerror"
                 [] void -> IF voidLookups >= maxSPFVoidLookups
                            THEN "permerror" ELSE "none"
                 [] found # <<>> /\ (Len(found) > 1 \/ ~found[1].spf1) -> "permerror"
                 [] OTHER -> ""
  IN  /\ Running /\ Innermost.next = 0
      /\ queries' = queries + 1
      /\ voidLookups' = IF void THEN voidLookups + 1 ELSE voidLookups
      /\ ret' = error
      /\ stack' = IF error = "" THEN Continue ELSE stack
      /\ UNCHANGED <<zone, client, lookups, redirects, verdict>>

At(names) ==
  /\ Running /\ Innermost.next > 0 /\ Innermost.next <= Len(terms)
  /\ term.name \in names
  /\ UNCHANGED <<zone, client, redirects, verdict>>

Conclude(error, matched) ==
  /\ ret' = IF error THEN "permerror"
            ELSE IF matched THEN qualifierToResult(term.q) ELSE ""
  /\ stack' = IF ret' = "" THEN Continue ELSE stack

Modifier ==
  /\ At({"redirect", "exp"})
  /\ Conclude(FALSE, FALSE)
  /\ UNCHANGED <<lookups, voidLookups, queries>>

\* all, ip4 and ip6 ask nothing; an address of the other family is a miss
\* even when it is malformed.
LocalMechanism ==
  /\ At({"all", "ip", "unknown"})
  /\ Conclude(term.name = "unknown" \/ (term.name = "ip" /\ term.arg = "malformed"),
              term.name = "all" \/ term.arg = "covers")
  /\ UNCHANGED <<lookups, voidLookups, queries>>

\* Slip: the budget is counted but not enforced.
AskUnbounded(bad, cost, void, tooMany, matched) ==
  /\ lookups' = lookups + 1
  /\ queries' = IF bad THEN queries ELSE queries + cost
  /\ voidLookups' = IF void /\ ~bad THEN voidLookups + 1 ELSE voidLookups
  /\ Conclude(bad \/ voidLookups' > maxSPFVoidLookups \/ tooMany, matched)

\* Slip: the void answers are compared with the limit before they are counted.
AskVoidFirst(bad, cost, void, tooMany, matched) ==
  LET refused == lookups >= maxSPFLookups \/ bad
  IN  /\ lookups' = lookups + 1
      /\ queries' = IF refused THEN queries ELSE queries + cost
      /\ voidLookups' = IF void /\ ~refused THEN voidLookups + 1 ELSE voidLookups
      /\ Conclude(refused \/ voidLookups > maxSPFVoidLookups \/ tooMany, matched)

\* spend, then ask: cost is how many names are asked, bad an error met before
\* asking, void an empty answer that countVoid counts.
Ask(bad, cost, void, tooMany, matched) ==
  LET refused == lookups >= maxSPFLookups \/ bad
  IN  /\ lookups' = lookups + 1
      /\ queries' = IF refused THEN queries ELSE queries + cost
      /\ voidLookups' = IF void /\ ~refused THEN voidLookups + 1 ELSE voidLookups
      /\ Conclude(refused \/ voidLookups' > maxSPFVoidLookups \/ tooMany, matched)

MechanismA ==
  LET target == mechanismTarget(term.arg) IN
  /\ At({"a"})
  /\ IF target = BadMacro THEN Ask(TRUE, 0, FALSE, FALSE, FALSE)
     ELSE Ask(FALSE, 1, zone.a[target] = {}, FALSE,
              anyAddressMatches(zone.a[target], term.wide))

\* Slip: every host an MX answer names is resolved.
MechanismMXUncapped ==
  LET target == mechanismTarget(term.arg) IN
  /\ At({"mx"})
  /\ IF target = BadMacro THEN Ask(TRUE, 0, FALSE, FALSE, FALSE)
     ELSE LET hosts == zone.mx[target] IN
          Ask(FALSE, 1 + Len(hosts), hosts = <<>>, FALSE,
              \E i \in DOMAIN hosts : anyAddressMatches(zone.a[hosts[i]], term.wide))

\* Host names are resolved until one matches; queries counts them all.
MechanismMX ==
  LET target == mechanismTarget(term.arg) IN
  /\ At({"mx"})
  /\ IF target = BadMacro THEN Ask(TRUE, 0, FALSE, FALSE, FALSE)
     ELSE LET hosts == zone.mx[target]
              many  == Len(hosts) > maxMXHosts IN
          Ask(FALSE, IF many THEN 1 ELSE 1 + Len(hosts), hosts = <<>>, many,
              \E i \in DOMAIN hosts : anyAddressMatches(zone.a[hosts[i]], term.wide))

MechanismExists ==
  LET target == expandDomainSpec(term.arg) IN
  /\ At({"exists"})
  /\ IF target \in {BadMacro, ""} THEN Ask(TRUE, 0, FALSE, FALSE, FALSE)
     ELSE Ask(FALSE, 1, zone.a[target] = {}, FALSE, zone.a[target] # {})

\* The names of the client's address that lie in the target, forward-confirmed.
\* The argument is compared as it is written, macros and all.
MechanismPTR ==
  LET target == IF term.arg = "" THEN Innermost.domain ELSE term.arg
      inside == {n \in zone.ptr : n = target \/ <<n, target>> \in Subdomain}
  IN  /\ At({"ptr"})
      /\ Ask(FALSE, 1 + Cardinality(inside), FALSE, FALSE,
             \E n \in inside : "client" \in zone.a[n])

\* Slip: an include is not charged, as it asks nothing itself.
MechanismIncludeFree ==
  LET target == expandDomainSpec(term.arg) IN
  /\ At({"include"})
  /\ IF target \in {BadMacro, ""}
     THEN ret' = "permerror" /\ UNCHANGED stack
     ELSE stack' = Append(stack, Call(target, "include")) /\ UNCHANGED ret
  /\ UNCHANGED <<lookups, voidLookups, queries>>

MechanismInclude ==
  LET target == expandDomainSpec(term.arg) IN
  /\ At({"include"})
  /\ lookups' = lookups + 1
  /\ IF lookups >= maxSPFLookups \/ target \in {BadMacro, ""}
     THEN ret' = "permerror" /\ UNCHANGED stack
     ELSE stack' = Append(stack, Call(target, "include")) /\ UNCHANGED ret
  /\ UNCHANGED <<voidLookups, queries>>

(***************************************************************************)
(* After the last term: the last redirect modifier, or neutral.              *)
(***************************************************************************)
Redirect ==
  LET named == {i \in DOMAIN terms : terms[i].name = "redirect"}
  IN  IF named = {} THEN ""
      ELSE terms[CHOOSE i \in named : \A j \in named : i >= j].arg

AtEnd ==
  /\ Running /\ Innermost.next > 0 /\ Innermost.next > Len(terms)
  /\ UNCHANGED <<zone, client, voidLookups, queries, verdict>>

NoMatch ==
  /\ AtEnd /\ Redirect = ""
  /\ ret' = "neutral"
  /\ UNCHANGED <<stack, lookups, redirects>>

FollowRedirect ==
  /\ AtEnd /\ Redirect # ""
  /\ LET target == expandDomainSpec(Redirect)
         long   == redirects >= maxSPFRedirects
         spent  == lookups >= maxSPFLookups IN
     /\ redirects' = IF target = BadMacro THEN redirects ELSE redirects + 1
     /\ lookups' = IF target = BadMacro \/ long THEN lookups ELSE lookups + 1
     /\ IF target = BadMacro \/ long \/ spent
        THEN ret' = "permerror" /\ UNCHANGED stack
        ELSE stack' = Append(stack, Call(target, "redirect")) /\ UNCHANGED ret

(***************************************************************************)
(* A call returns to its caller.                                            *)
(***************************************************************************)
Returning(caller) ==
  /\ stack # <<>> /\ ret # ""
  /\ Innermost.caller = caller
  /\ UNCHANGED <<zone, client, counters, queries>>

Outer == SubSeq(stack, 1, Len(stack) - 1)
Includer == Outer[Len(Outer)]

\* Slip: an include of a domain without a record is no match.
ReturnToIncludeLeniently ==
  /\ Returning("include")
  /\ LET matched == zone.txt[Includer.domain][1].terms[Includer.next] IN
     CASE ret = "pass" ->
            ret' = qualifierToResult(matched.q) /\ stack' = Outer
       [] ret \in {"temperror", "permerror"} ->
            stack' = Outer /\ UNCHANGED ret
       [] OTHER ->
            /\ stack' = [Outer EXCEPT ![Len(Outer)].next = @ + 1]
            /\ ret' = ""
  /\ UNCHANGED verdict

\* Only pass is a match; an error of the included record, or its absence, ends
\* the evaluation of the including one.
ReturnToInclude ==
  /\ Returning("include")
  /\ LET matched == zone.txt[Includer.domain][1].terms[Includer.next] IN
     CASE ret = "pass" ->
            ret' = qualifierToResult(matched.q) /\ stack' = Outer
       [] ret \in {"none", "temperror", "permerror"} ->
            /\ stack' = Outer
            /\ ret' = IF ret = "temperror" THEN "temperror" ELSE "permerror"
       [] OTHER ->
            /\ stack' = [Outer EXCEPT ![Len(Outer)].next = @ + 1]
            /\ ret' = ""
  /\ UNCHANGED verdict

\* A redirect to a domain without a record is an error, not none.
ReturnToRedirect ==
  /\ Returning("redirect")
  /\ stack' = Outer
  /\ ret' = IF ret = "none" THEN "permerror" ELSE ret
  /\ UNCHANGED verdict

ReturnToSender ==
  /\ Returning("sender")
  /\ stack' = Outer
  /\ verdict' = ret
  /\ ret' = ""

Next ==
  \/ VerifySPF
  \/ findRecord
  \/ Modifier \/ LocalMechanism
  \/ MechanismA \/ MechanismMX \/ MechanismExists \/ MechanismPTR \/ MechanismInclude
  \/ NoMatch \/ FollowRedirect
  \/ ReturnToInclude \/ ReturnToRedirect \/ ReturnToSender

Spec == Init /\ [][Next]_vars
-----------------------------------------------------------------------------
(***************************************************************************)
(* Properties                                                               *)
(***************************************************************************)
\* The type invariant.
TypeOK ==
  /\ IsZone(zone) /\ client \in Clients
  /\ stack \in Seq([domain : Domain, next : Nat,
                    caller : {"sender", "include", "redirect"}])
  /\ ret \in SpfResults \union {""} /\ verdict \in SpfResults \union {""}
  /\ lookups \in 0..maxSPFLookups + 1 /\ voidLookups \in 0..maxSPFVoidLookups + 1
  /\ redirects \in 0..maxSPFRedirects + 1 /\ queries \in Nat

WithinLimits ==
  /\ lookups <= maxSPFLookups
  /\ voidLookups <= maxSPFVoidLookups
  /\ redirects <= maxSPFRedirects

\* The limits are those of the whole evaluation, however deep a record nests
\* others: once one is passed, in whatever call, the message gets permerror
\* (spf.go: "they are the mechanism that stops a hostile SPF record from
\* turning one inbound message into an unbounded DNS amplification").
LimitsAreFinal == verdict # "" /\ ~WithinLimits => verdict = "permerror"

\* The work one message can cause: the sender's record, and for each of the
\* terms paid for one question and the names it led to.
QueriesBounded ==
  LET names == IF maxMXHosts > Cardinality(zone.ptr) THEN maxMXHosts
               ELSE Cardinality(zone.ptr)
  IN  queries <= 1 + maxSPFLookups * (1 + names)

\* Records that include or redirect to each other, or to themselves, are
\* evaluated to an end: every open call but the first has been paid for, so the
\* recursion is no deeper than the budget (spf.go: check, spend).
NestingBounded ==
  /\ Len(stack) <= 1 + lookups
  /\ Len(stack) <= 1 + maxSPFLookups
=============================================================================
