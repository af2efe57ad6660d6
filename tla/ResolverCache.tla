---------------------------- MODULE ResolverCache ----------------------------
(***************************************************************************)
(* The caching DNS resolver that all sessions share (pkg/dnsx/resolver.go),  *)
(* and the checks of a domain's transport security that are built on it      *)
(* (pkg/authverify: dane.go, transport.go).                                  *)
(*                                                                         *)
(* A lookup reads the cache under the read lock, looks at the expiry after   *)
(* the lock is released, asks the network when it has nothing, and stores    *)
(* the answer under the write lock: sessions interleave between these steps,  *)
(* what is published changes meanwhile, and exchanges fail.                  *)
(***************************************************************************)
EXTENDS Naturals, Sequences, FiniteSets

CONSTANTS
  Session, Host, Cert,
  Zones,       \* what may be published: [Name -> [records, secure]]
  Chains,      \* certificate chains a server may present, leaf first
  Policies,    \* what the MTA-STS host may serve: "valid", "malformed", "oversize"
  ttl,
  timeout,     \* of a whole lookup, its retries over TCP included
  MaxTime, MaxChanges, MaxLookups     \* bounds of the model

Name == Host \union {"mx", "_mta-sts", "_smtp._tls"}
Tasks == {"dane", "cert", "mta-sts", "tls-rpt"}
NoEntry == [expires |-> "never"]
Usages == {"PKIX", "DANE-TA", "DANE-EE"}
TLSA == [usage : Usages, cert : Cert, known : BOOLEAN]

\* What may be published under a name: mail hosts, TLSA records or text.
Contents(n) ==
  CASE n = "mx" -> Host
    [] n \in Host -> TLSA
    [] OTHER -> [kind : {"valid", "malformed", "other"}]

ASSUME ResolverAssumption ==
  /\ Host \intersect {"mx", "_mta-sts", "_smtp._tls"} = {}
  /\ Zones # {}
  /\ \A z \in Zones :
       /\ DOMAIN z = Name
       /\ \A n \in Name : /\ z[n].records \subseteq Contents(n) /\ IsFiniteSet(z[n].records)
                          /\ z[n].secure \in BOOLEAN
  /\ \A c \in Chains : c \in Seq(Cert)
  /\ ttl \in Nat \ {0} /\ timeout \in Nat
  /\ MaxTime \in Nat /\ MaxChanges \in Nat /\ MaxLookups \in Nat

VARIABLES
  now, zone, changes,
  cache, lookups, hits,     \* Resolver
  session,                  \* what each session is doing
  served,                   \* history: answers of the network
  asked                     \* lookups that the checks begun may make

vars == <<now, zone, changes, cache, lookups, hits, session, served, asked>>

NoSession == [task |-> "none", chain |-> <<>>, todo |-> <<>>, step |-> "done",
              entry |-> NoEntry, since |-> 0, answer |-> NoEntry, got |-> <<>>,
              policy |-> "none"]

Init ==
  /\ now = 0 /\ changes = 0 /\ zone \in Zones
  /\ cache = [n \in Name |-> NoEntry] /\ lookups = 0 /\ hits = 0
  /\ session = [s \in Session |-> NoSession]
  /\ served = [n \in Name |-> {}] /\ asked = 0

(***************************************************************************)
(* What each kind of lookup makes of an exchange.  A response code other     *)
(* than success is an answer without records.                               *)
(***************************************************************************)
Answer(records, secure, error) == [records |-> records, secure |-> secure, error |-> error]
Nothing == Answer({}, FALSE, FALSE)

\* The standard resolver: an error is an answer without records.
LookupMX(published) == {Nothing, Answer(published.records, FALSE, FALSE)}

\* UDP, then TCP when that failed or was truncated.  If the second attempt at a
\* truncated answer fails too, the truncated answer stands: the worst case is one
\* without records.
LookupTLSA(published) ==
  {Answer(published.records, published.secure, FALSE), Nothing, Answer({}, FALSE, TRUE)}

\* UDP, then TCP when that was truncated; a failure is an error.
LookupTXTAuthenticated(published) ==
  {Answer(published.records, published.secure, FALSE), Nothing, Answer({}, FALSE, TRUE)}

Outcomes(n) ==
  CASE n = "mx" -> LookupMX(zone[n])
    [] n \in Host -> LookupTLSA(zone[n])
    [] OTHER -> LookupTXTAuthenticated(zone[n])

(***************************************************************************)
(* The checks, from the answers a session got.                              *)
(***************************************************************************)
Usable(answer) == {r \in answer.records : r.usage \in {"DANE-TA", "DANE-EE"}}

CheckDANE(answer) ==
  CASE answer.error -> "temperror"
    [] ~answer.error /\ answer.records = {} -> "none"
    [] answer.records # {} /\ ~answer.secure -> "insecure"
    [] answer.records # {} /\ answer.secure /\ Usable(answer) = {} -> "permerror"
    [] OTHER -> "available"

\* Slip: hosts that publish nothing are passed over.
CheckDANEDomainAny(hosts, host) ==
  LET Any(r) == \E h \in hosts : CheckDANE(host[h]) = r
  IN  CASE hosts = {} -> "none"
        [] Any("insecure") -> "insecure"
        [] Any("available") -> "available"
        [] OTHER -> "none"

CheckDANEDomain(hosts, host) ==
  LET Any(r) == \E h \in hosts : CheckDANE(host[h]) = r
  IN  CASE hosts = {} -> "none"
        [] hosts # {} /\ \A h \in hosts : CheckDANE(host[h]) = "available" -> "available"
        [] OTHER -> IF Any("available") \/ Any("insecure") THEN "insecure"
                    ELSE IF Any("temperror") THEN "temperror"
                    ELSE IF Any("permerror") THEN "permerror" ELSE "none"

\* Slip: any certificate of the chain may match an end-entity record.
VerifyDANECertificateAnywhere(answer, chain) ==
  IF CheckDANE(answer) # "available" THEN CheckDANE(answer)
  ELSE IF \E r \in Usable(answer), i \in DOMAIN chain : r.known /\ chain[i] = r.cert
  THEN "pass" ELSE "fail"

\* An end-entity record must match the leaf, a trust anchor any certificate; a
\* selector or matching type that is not known matches nothing.
VerifyDANECertificate(answer, chain) ==
  LET candidates(r) == IF r.usage = "DANE-EE" THEN {1} ELSE DOMAIN chain
  IN  IF CheckDANE(answer) # "available" THEN CheckDANE(answer)
      ELSE IF chain = <<>> THEN "fail"
      ELSE IF \E r \in Usable(answer) : \E i \in candidates(r) :
                r.known /\ chain[i] = r.cert
      THEN "pass" ELSE "fail"

\* TLS-RPT and the DNS part of MTA-STS: exactly one record of the version, and
\* that well formed.  Records of another version are not candidates.
PolicyRecord(answer) ==
  LET candidates == {r \in answer.records : r.kind # "other"}
  IN  CASE answer.error -> "temperror"
        [] ~answer.error /\ candidates = {} -> "none"
        [] OTHER -> IF \E r \in candidates : candidates = {r} /\ r.kind = "valid"
                    THEN "valid" ELSE "permerror"

\* Only a policy fetched over HTTPS, whole and well formed, makes it valid.
CheckMTASTS(answer, policy) ==
  CASE PolicyRecord(answer) # "valid" -> PolicyRecord(answer)
    [] PolicyRecord(answer) = "valid" /\ policy = "unreachable" -> "temperror"
    [] OTHER -> IF policy = "valid" THEN "valid" ELSE "permerror"

result(s) ==
  LET c == session[s]
      Got(n) == c.got[CHOOSE i \in DOMAIN c.got : c.got[i].name = n].value
  IN  CASE c.task = "dane" -> CheckDANEDomain(Got("mx").records,
                                              [h \in Got("mx").records |-> Got(h)])
        [] c.task = "cert" -> VerifyDANECertificate(c.got[1].value, c.chain)
        [] c.task = "mta-sts" -> CheckMTASTS(Got("_mta-sts"), c.policy)
        [] OTHER -> PolicyRecord(Got("_smtp._tls"))

(***************************************************************************)
(* A session at work.                                                       *)
(***************************************************************************)
\* Some order of a set.
InOrder(S) == CHOOSE q \in [1..Cardinality(S) -> S] : \A x \in S : \E i \in DOMAIN q : q[i] = x

Quiet == UNCHANGED <<now, zone, changes>>

Begin(s, task, todo, chain) ==
  /\ session[s].step = "done"
  /\ asked' = asked + (IF task = "dane" THEN 1 + Cardinality(Host) ELSE 1)
  /\ asked' <= MaxLookups
  /\ session' = [session EXCEPT ![s] = [NoSession EXCEPT !.task = task, !.todo = todo,
                                          !.chain = chain, !.step = "get"]]
  /\ Quiet /\ UNCHANGED <<cache, lookups, hits, served>>

Start(s) ==
  \/ Begin(s, "dane", <<"mx">>, <<>>)
  \/ \E h \in Host, chain \in Chains : Begin(s, "cert", <<h>>, chain)
  \/ Begin(s, "mta-sts", <<"_mta-sts">>, <<>>)
  \/ Begin(s, "tls-rpt", <<"_smtp._tls">>, <<>>)

\* Slip: a domain without mail hosts is not done.
stepAfterNone(task, todo, value) ==
  IF todo # <<>> \/ task = "dane" THEN "get" ELSE "done"

\* The policy is fetched only when the record that announces it is in order.
stepAfter(task, todo, value) ==
  CASE todo # <<>> -> "get"
    [] todo = <<>> /\ task = "mta-sts" -> IF PolicyRecord(value) = "valid" THEN "fetch" ELSE "done"
    [] OTHER -> "done"

\* The lookup returns value: on to the next name.
Return(s, value) ==
  LET c == session[s]
      n == Head(c.todo)
      todo == IF n = "mx" THEN InOrder(value.records) ELSE Tail(c.todo)
  IN  session' = [session EXCEPT ![s] =
           [c EXCEPT !.got = Append(@, [name |-> n, value |-> value, at |-> now]),
                     !.todo = todo, !.entry = NoEntry, !.answer = NoEntry, !.since = 0,
                     !.step = stepAfter(c.task, todo, value)]]

\* get: the entry, under the read lock.
Read(s) ==
  /\ session[s].step = "get"
  /\ session' = [session EXCEPT ![s].step = "check", ![s].entry = cache[Head(session[s].todo)]]
  /\ Quiet /\ UNCHANGED <<asked, cache, lookups, hits, served>>

Live(entry) == entry # NoEntry /\ now <= entry.expires

Hit(s) ==
  /\ session[s].step = "check" /\ Live(session[s].entry)
  /\ hits' = hits + 1
  /\ Return(s, session[s].entry.value)
  /\ Quiet /\ UNCHANGED <<asked, cache, lookups, served>>

Miss(s) ==
  /\ session[s].step = "check" /\ ~Live(session[s].entry)
  /\ session' = [session EXCEPT ![s].step = "query", ![s].since = now, ![s].entry = NoEntry]
  /\ Quiet /\ UNCHANGED <<asked, cache, lookups, hits, served>>

\* The network answers, or the deadline passes.
Query(s) ==
  /\ session[s].step = "query"
  /\ \E value \in Outcomes(Head(session[s].todo)) :
       /\ session' = [session EXCEPT ![s].step = "put", ![s].answer = value]
       /\ served' = [served EXCEPT ![Head(session[s].todo)] =
                        @ \union {[value |-> value, at |-> now]}]
  /\ Quiet /\ UNCHANGED <<asked, cache, lookups, hits>>

\* Slip: another session's entry is kept, and lives on.
putExtends(s) ==
  LET n == Head(session[s].todo)
      value == IF cache[n] = NoEntry THEN session[s].answer ELSE cache[n].value
  IN  /\ cache' = [cache EXCEPT ![n] = [value |-> value, expires |-> now + ttl]]
      /\ lookups' = lookups + 1

\* put: the later answer replaces the earlier one.
put(s) ==
  LET n == Head(session[s].todo)
  IN  /\ cache' = [cache EXCEPT ![n] = [value |-> session[s].answer, expires |-> now + ttl]]
      /\ lookups' = lookups + 1

Store(s) ==
  /\ session[s].step = "put"
  /\ put(s)
  /\ Return(s, session[s].answer)
  /\ Quiet /\ UNCHANGED <<asked, hits, served>>

\* The policy is fetched whenever it is asked for; it is not cached.
Fetch(s) ==
  /\ session[s].step = "fetch"
  /\ \E p \in Policies \union {"unreachable"} :
       session' = [session EXCEPT ![s].step = "done", ![s].policy = p]
  /\ Quiet /\ UNCHANGED <<asked, cache, lookups, hits, served>>

(***************************************************************************)
(* The world: administrators publish, time passes.  A query ends by its      *)
(* deadline, and the model lets a session store its answer before then.      *)
(***************************************************************************)
Publish ==
  /\ changes < MaxChanges /\ changes' = changes + 1
  /\ zone' \in Zones \ {zone}
  /\ UNCHANGED <<now, cache, lookups, hits, session, served, asked>>

Tick ==
  /\ now < MaxTime
  /\ \A s \in Session : session[s].step \in {"query", "put"} => now < session[s].since + timeout
  /\ now' = now + 1
  /\ UNCHANGED <<zone, changes, cache, lookups, hits, session, served, asked>>

Step(s) == Read(s) \/ Hit(s) \/ Miss(s) \/ Query(s) \/ Store(s) \/ Fetch(s)

Next ==
  \/ \E s \in Session : Start(s) \/ Step(s)
  \/ Publish
  \/ Tick

Spec == Init /\ [][Next]_vars
-----------------------------------------------------------------------------
(***************************************************************************)
(* Properties                                                               *)
(***************************************************************************)
\* The type invariant; an entry never outlives the TTL, and a session waits
\* for one name at a time.
TypeOK ==
  /\ now \in 0..MaxTime /\ changes \in 0..MaxChanges
  /\ \A n \in Name : cache[n] # NoEntry => cache[n].expires \in 0..(now + ttl)
  /\ \A s \in Session : /\ session[s].step \in {"get", "check", "query", "put", "fetch", "done"}
                        /\ session[s].step \in {"get", "check", "query", "put"} <=>
                             session[s].todo # <<>>

Recent(n, at) ==
  {a.value : a \in {x \in served[n] : x.at <= at /\ at <= x.at + ttl + timeout}}

\* An answer a session is given was given by the network, for that name, no
\* longer ago than the TTL and one lookup, whoever asked for it and however many
\* asked at the same time.  A DNS failure is forgotten after the same time
\* (resolver.go: get, put).
AnswersAreRecent ==
  \A s \in Session : \A i \in DOMAIN session[s].got :
    LET g == session[s].got[i] IN g.value \in Recent(g.name, g.at)

\* A domain is called protected only when every mail host its MX records name
\* has recently published a usable, DNSSEC-validated commitment; a host without
\* one is a way around the others (dane.go: CheckDANEDomain).
AvailableIsBacked ==
  \A s \in Session :
    session[s].step = "done" /\ session[s].task = "dane" /\ result(s) = "available" =>
      /\ session[s].got[1].value.records # {}
      /\ \A h \in session[s].got[1].value.records : \E i \in DOMAIN session[s].got :
           /\ session[s].got[i].name = h
           /\ \E a \in Recent(h, session[s].got[i].at) : a.secure /\ Usable(a) # {}

\* A certificate passes only if a recently published, validated record vouches
\* for the leaf itself or for an anchor in its chain (dane.go:
\* VerifyDANECertificate).
PassIsVouched ==
  \A s \in Session :
    session[s].step = "done" /\ session[s].task = "cert" /\ result(s) = "pass" =>
      \E a \in Recent(session[s].got[1].name, session[s].got[1].at), r \in TLSA :
        /\ a.secure /\ r \in a.records
        /\ \/ r.usage = "DANE-EE" /\ Head(session[s].chain) = r.cert
           \/ r.usage = "DANE-TA" /\ \E i \in DOMAIN session[s].chain :
                                        session[s].chain[i] = r.cert
=============================================================================
