----------------------------- MODULE MessageAuth -----------------------------
(***************************************************************************)
(* A message on its way from its author to the gateway, and what the gateway *)
(* concludes about it: DKIM, ARC, DMARC and their combination                *)
(* (pkg/authverify: dkim.go, arc.go, dmarc.go, verify.go), and the results    *)
(* it reads from the message's own headers (pkg/rules/auth.go).              *)
(*                                                                         *)
(* Domains sign what they see.  On the way anyone may edit the message, and  *)
(* re-wrap it (white space only, which relaxed canonicalisation forgives).    *)
(* Signatures are symbolic: one verifies when it was made with the key the   *)
(* domain publishes over the very input the verifier rebuilds.  A message is *)
(* its From fields, a subject, the parts of its body, its signatures, its     *)
(* ARC sets and the results reported in its headers.                        *)
(***************************************************************************)
EXTENDS Naturals, Sequences, FiniteSets, SequencesExt

CONSTANTS
  Domain, org,       \* domains, and the organisational domain of each
  NoDomain,
  Authors,           \* domains of the message's first author
  Signers,           \* domains whose servers the message may pass
  SignOptions,       \* how a server signs: [alg, h, relaxed, l, expired]
  SealOptions,       \* those it seals with
  Dns,               \* what DNS answers: [enabled, keys, dmarc], the last two by
                     \* domain, and spf: the [result, domain] of SpfEvaluation
  Reported,          \* what it may report: [fields, receivedSpf], the latter the
                     \* result of a Received-SPF field, "" for none
  TrustedAuthServs,  \* the authserv-ids of this deployment
  maxSignatures,
  MaxEdits           \* bound of the model: steps on the way

NoLimit == 99        \* l= is absent
KeyRecords == {"absent", "revoked", "rsa", "rsa-weak", "ed25519"}
Algorithms == {"rsa-sha256", "ed25519-sha256", "rsa-sha1", "other"}
SignedNames == {"from", "subject", "auth"}   \* "auth": Authentication-Results
DkimResults == {"none", "pass", "fail", "policy", "temperror", "permerror"}
NoRecord == [p |-> "absent"]

\* A policy that is absent or unknown is "".
DMARCPolicies == {"", "none", "quarantine", "reject"}
DMARCRecords == [p : DMARCPolicies, sp : DMARCPolicies, adkim : {"r", "s"},
                 aspf : {"r", "s"}, pct : 0..100]

ASSUME MessageAuthAssumption ==
  /\ org \in [Domain -> Domain \union {NoDomain}] /\ NoDomain \notin Domain
  /\ \A o \in SignOptions :
       /\ o.alg \in Algorithms /\ o.h \in Seq(SignedNames) /\ o.l \in Nat
       /\ o.relaxed \in BOOLEAN /\ o.expired \in BOOLEAN
  /\ \A dns \in Dns :
       /\ dns.enabled \in BOOLEAN /\ dns.keys \in [Domain -> KeyRecords]
       /\ dns.dmarc \in [Domain -> DMARCRecords \union {NoRecord}]
  /\ \A r \in Reported : r.fields \in Seq([id : STRING, spf : STRING, dkim : STRING,
                                          dmarc : STRING])
  /\ SealOptions \subseteq SignOptions /\ Authors \subseteq Domain
  /\ Signers \subseteq Domain /\ maxSignatures \in Nat /\ MaxEdits \in Nat

VARIABLES
  phase,     \* "transit", then "verified"
  edits,
  msg,
  vouched,   \* history: what each domain signed, [d, msg]
  sealed,    \* history: what each domain sealed, [d, msg]
  verdict,   \* authverify.Result
  reported   \* rules.AuthResults

vars == <<phase, edits, msg, vouched, sealed, verdict, reported>>

(***************************************************************************)
(* Canonical forms and the input of a signature.                            *)
(***************************************************************************)
\* At most the first n elements.
upTo(s, n) == SubSeq(s, 1, IF n < Len(s) THEN n ELSE Len(s))

\* Simple canonicalisation keeps the white space, relaxed drops it.
canonicalize(m, relaxed, content) ==
  IF relaxed THEN <<content>> ELSE <<content, m.wrapped>>

canonicalBody(m, relaxed, l) ==
  canonicalize(m, relaxed, upTo(m.body, l))

\* Fields are consumed from the bottom of the header block upward; a name with
\* no instance left contributes nothing.
buildSignedHeaderInput(m, names, relaxed) ==
  LET values == [from |-> m.from, subject |-> <<m.subject>>, auth |-> m.reports]
      Uses(i) == Cardinality({j \in 1..i : names[j] = names[i]})
      Field(i) == LET have == values[names[i]]
                  IN  IF Uses(i) > Len(have) THEN <<>>
                      ELSE canonicalize(m, relaxed, have[Len(have) + 1 - Uses(i)])
  IN  [i \in DOMAIN names |-> Field(i)]

\* A signature field by the owner of key by, naming d.
SignatureBy(m, d, by, o) ==
  [d |-> d, by |-> by, tags |-> o,
   bh |-> canonicalBody(m, o.relaxed, o.l),
   over |-> buildSignedHeaderInput(m, o.h, o.relaxed)]

(***************************************************************************)
(* verifyOneMessageSignature and fetchDKIMKey, in the order of the checks.   *)
(* A grammatical fault is an algorithm the verifier does not know.           *)
(***************************************************************************)
keyType(alg) == IF alg = "ed25519-sha256" THEN "ed25519" ELSE "rsa"

\* The checks that come before the body is looked at.
tagError(o) ==
  CASE \A i \in DOMAIN o.h : o.h[i] # "from" -> "permerror"
    [] o.alg = "rsa-sha1" -> "policy"
    [] o.alg = "other" -> "permerror"
    [] o.expired -> "fail"
    [] OTHER -> ""

verifyOneMessageSignature(m, sig, keys) ==
  LET o == sig.tags
      key == keys[sig.d]
  IN  CASE tagError(o) # "" -> tagError(o)
        [] sig.bh # canonicalBody(m, o.relaxed, o.l) -> "fail"
        [] key \in {"absent", "revoked"} -> "permerror"
        [] (key = "ed25519") # (keyType(o.alg) = "ed25519") -> "permerror"
        [] key = "rsa-weak" -> "policy"
        [] sig.by # sig.d \/ sig.over # buildSignedHeaderInput(m, o.h, o.relaxed) ->
             "fail"
        [] OTHER -> "pass"

\* Slip: one part too many before the warning.
BodyTruncatedByMore(m, sig) == tagError(sig.tags) = "" /\ sig.tags.l + 1 < Len(m.body)

BodyTruncated(m, sig) == tagError(sig.tags) = "" /\ sig.tags.l < Len(m.body)

\* result is what one signature, or several, make of the message; domains are
\* those of the signatures that passed, truncated the warning for l=.
DKIMResult(m, tried, result, overall) ==
  [result |-> overall,
   domains |-> {tried[i].d : i \in {j \in DOMAIN tried : result[j] = "pass"}},
   truncated |-> \E i \in DOMAIN tried : BodyTruncated(m, tried[i])]

\* Slip: the last signature decides.
combinedResultLast(result) == result[Len(result)]

combinedResult(result) ==
  CASE \E i \in DOMAIN result : result[i] = "pass" -> "pass"
    [] Len(result) = 1 -> result[1]
    [] OTHER -> "fail"

\* Slip: a message with several From fields is verified like any other.
VerifyDKIMAnyFrom(m, dns) ==
  LET tried == upTo(m.dkim, maxSignatures)
      result == [i \in DOMAIN tried |->
                   verifyOneMessageSignature(m, tried[i], dns.keys)]
  IN  CASE m.dkim = <<>> -> DKIMResult(m, <<>>, <<>>, "none")
        [] m.dkim # <<>> /\ ~dns.enabled -> DKIMResult(m, <<>>, <<>>, "temperror")
        [] OTHER -> DKIMResult(m, tried, result, combinedResult(result))

VerifyDKIM(m, dns) ==
  LET tried == upTo(m.dkim, maxSignatures)
      result == [i \in DOMAIN tried |->
                   verifyOneMessageSignature(m, tried[i], dns.keys)]
  IN  CASE m.dkim = <<>> -> DKIMResult(m, <<>>, <<>>, "none")
        [] m.dkim # <<>> /\ ~dns.enabled -> DKIMResult(m, <<>>, <<>>, "temperror")
        [] m.dkim # <<>> /\ dns.enabled /\ Len(m.from) > 1 ->
             DKIMResult(m, <<>>, <<>>, "permerror")
        [] OTHER -> DKIMResult(m, tried, result, combinedResult(result))

(***************************************************************************)
(* VerifyARC.  A set is whole, misses a field or has one twice; the sets are  *)
(* in the order of their instances.                                         *)
(***************************************************************************)
buildARCSealInput(sets, i) ==
  [earlier |-> SubSeq(sets, 1, i - 1), aar |-> sets[i].aar, ams |-> sets[i].ams,
   cv |-> sets[i].cv, d |-> sets[i].d, alg |-> sets[i].alg]

verifyARCSeal(sets, i, keys) ==
  LET set == sets[i]
      key == keys[set.d]
  IN  CASE set.alg \notin {"rsa-sha256", "ed25519-sha256"} -> "policy"
        [] key \in {"absent", "revoked"} -> "permerror"
        [] keyType(set.alg) = "rsa" /\ key # "rsa" -> "policy"
        [] keyType(set.alg) = "ed25519" /\ key # "ed25519" -> "fail"
        [] set.by # set.d \/ set.over # buildARCSealInput(sets, i) -> "fail"
        [] OTHER -> "pass"

\* An ARC signature must not cover the results it stands beside.
amsResult(m, ams, keys) ==
  IF \E i \in DOMAIN ams.tags.h : ams.tags.h[i] = "auth" THEN "permerror"
  ELSE verifyOneMessageSignature(m, ams, keys)

\* Slip: it is the first set's message signature that must match the message.
arcSetResultOldest(m, i, keys) ==
  LET set == m.arc[i]
      ams == amsResult(m, set.ams, keys)
  IN  CASE set.fields = "missing" -> "permerror"
        [] set.fields = "whole" /\ set.cv # (IF i = 1 THEN "none" ELSE "pass") -> "fail"
        [] OTHER -> IF i = 1 /\ i < Len(m.arc) /\ ams # "pass" THEN ams
                    ELSE verifyARCSeal(m.arc, i, keys)

\* Only the newest message signature has to match the message as it is now.
arcSetResult(m, i, keys) ==
  LET set == m.arc[i]
      ams == amsResult(m, set.ams, keys)
  IN  CASE set.fields = "missing" -> "permerror"
        [] set.fields = "whole" /\ set.cv # (IF i = 1 THEN "none" ELSE "pass") -> "fail"
        [] OTHER -> IF i = Len(m.arc) /\ ams # "pass" THEN ams
                    ELSE verifyARCSeal(m.arc, i, keys)

VerifyARC(m, dns) ==
  LET bad == {i \in DOMAIN m.arc : arcSetResult(m, i, dns.keys) # "pass"}
      first == CHOOSE i \in bad : \A j \in bad : i <= j
  IN  IF m.arc = <<>> THEN "none"
      ELSE IF \E i \in DOMAIN m.arc : m.arc[i].fields = "twice" THEN "permerror"
      ELSE IF Len(m.from) # 1 THEN "permerror"
      ELSE IF ~dns.enabled THEN "temperror"
      ELSE IF bad = {} THEN "pass" ELSE arcSetResult(m, first, dns.keys)

(***************************************************************************)
(* DMARC.                                                                   *)
(***************************************************************************)
domainsAlign(x, y, strict) ==
  /\ x \in Domain /\ y \in Domain
  /\ x = y \/ (~strict /\ org[x] # NoDomain /\ org[x] = org[y])

\* The record of the name itself, else that of its organisation, whose sp=
\* then applies.
LookupDMARC(zone, from) ==
  IF zone[from] # NoRecord \/ org[from] = NoDomain THEN zone[from] ELSE zone[org[from]]

applicablePolicy(zone, from) ==
  LET record == LookupDMARC(zone, from)
  IN  IF zone[from] = NoRecord /\ record.sp # "" THEN record.sp ELSE record.p

\* The record is the one the verdict rests on, policy what it asks for.
DMARCResult(result, disposition, spfAligned, record, policy) ==
  [result |-> result, disposition |-> disposition, spfAligned |-> spfAligned,
   record |-> record, policy |-> policy]

NoDMARC(result) == DMARCResult(result, "none", FALSE, NoRecord, "")

\* What is done with mail that fails: a sampled p=reject is softened.
sampledDisposition(record, policy) ==
  IF record.pct < 100 /\ policy = "reject" THEN "quarantine" ELSE policy

\* Slip: a domain that signed aligns, whether or not its signature passed.
VerifyDMARCUnverified(m, dns, from, spf, dkim) ==
  LET record == LookupDMARC(dns.dmarc, from)
      policy == applicablePolicy(dns.dmarc, from)
  IN  IF from = NoDomain \/ ~dns.enabled \/ record = NoRecord THEN NoDMARC("none")
      ELSE IF \E i \in DOMAIN m.dkim : domainsAlign(m.dkim[i].d, from, FALSE)
      THEN DMARCResult("pass", "none", FALSE, record, policy)
      ELSE DMARCResult("fail", sampledDisposition(record, policy), FALSE, record, policy)

VerifyDMARC(m, dns, from, spf, dkim) ==
  IF from = NoDomain THEN NoDMARC("permerror")
  ELSE IF ~dns.enabled THEN NoDMARC("temperror")
  ELSE IF LookupDMARC(dns.dmarc, from) = NoRecord THEN NoDMARC("none")
  ELSE
    LET record == LookupDMARC(dns.dmarc, from)
        policy == applicablePolicy(dns.dmarc, from)
        spfAligned == /\ spf.result = "pass"
                      /\ domainsAlign(spf.domain, from, record.aspf = "s")
        dkimAligned == \E d \in dkim.domains : domainsAlign(d, from, record.adkim = "s")
    IN  IF record.p = "" THEN DMARCResult("permerror", "none", FALSE, record, "")
        ELSE IF spfAligned \/ dkimAligned
        THEN DMARCResult("pass", "none", spfAligned, record, policy)
        ELSE DMARCResult("fail", sampledDisposition(record, policy), FALSE, record, policy)

\* The From domain: that of the first From field.
fromDomain(m) == IF m.from = <<>> THEN NoDomain ELSE m.from[1]

Result(m, spf, dns) ==
  LET dkim == VerifyDKIM(m, dns)
      dmarc == VerifyDMARC(m, dns, fromDomain(m), spf, dkim)
  IN  [spf |-> spf, dkim |-> dkim, arc |-> VerifyARC(m, dns), dmarc |-> dmarc,
       authenticated |-> dmarc.result = "pass",
       disposition |-> IF dmarc.result = "pass" THEN "none" ELSE dmarc.disposition]

(***************************************************************************)
(* The results the headers report: Authentication-Results fields first, then *)
(* those of the ARC sets, the newest on top.  Each carries an authserv-id     *)
(* and, by method, a result, "" when it names none.  What an ARC field has    *)
(* in the place of the id is its instance.                                  *)
(***************************************************************************)
rank(r) ==
  CASE r = "fail" -> 4 [] r = "pass" -> 3
    [] r \in {"softfail", "permerror", "temperror"} -> 2
    [] r \in {"neutral", "none"} -> 1 [] OTHER -> 0

\* Slip: of two results the later one counts.
laterResult(existing, incoming) == incoming

strongerResult(existing, incoming) ==
  IF existing = "" \/ rank(incoming) > rank(existing) THEN incoming ELSE existing

Reports(m) ==
  m.reports \o Reverse([i \in DOMAIN m.arc |-> [m.arc[i].aar EXCEPT !.id = "i="]])

\* What the fields, read from the top, make of one method.
Combined(reports, method) ==
  LET read[n \in 0..Len(reports)] ==
        IF n = 0 THEN "" ELSE strongerResult(read[n - 1], reports[n][method])
  IN  read[Len(reports)]

parseAuthResults(m) ==
  LET Of(method) == Combined(Reports(m), method)
      ids == {Reports(m)[i].id : i \in DOMAIN Reports(m)}
  IN  [present |-> Reports(m) # <<>>,
       trusted |-> ids \intersect TrustedAuthServs # {},
       untrusted |-> IF TrustedAuthServs = {} THEN {} ELSE ids \ TrustedAuthServs,
       spf |-> IF Of("spf") = "" THEN m.receivedSpf ELSE Of("spf"),
       dkim |-> Of("dkim"), dmarc |-> Of("dmarc")]

(***************************************************************************)
(* On the way.                                                              *)
(***************************************************************************)
NoResult == "unverified"

Init ==
  /\ phase = "compose" /\ edits = 0
  /\ \E d \in Authors, r \in Reported :
       msg = [from |-> <<d>>, subject |-> "subject", body |-> <<"text">>,
              wrapped |-> FALSE, dkim |-> <<>>, arc |-> <<>>,
              reports |-> r.fields, receivedSpf |-> r.receivedSpf]
  /\ vouched = {} /\ sealed = {} /\ verdict = NoResult /\ reported = NoResult

\* What signing with options o vouches for.
Covered(m, d, o) ==
  [d |-> d, from |-> IF m.from = <<>> THEN NoDomain ELSE Last(m.from),
   body |-> upTo(m.body, o.l)]

AddSignature(d, by, o) ==
  /\ msg' = [msg EXCEPT !.dkim = <<SignatureBy(msg, d, by, o)>> \o @]
  /\ vouched' = IF by = d THEN vouched \union {Covered(msg, d, o)} ELSE vouched
  /\ UNCHANGED <<sealed, verdict, reported>>

\* The author's own server signs, or does not.
Submit ==
  /\ phase = "compose" /\ phase' = "transit" /\ UNCHANGED edits
  /\ \/ \E o \in SignOptions : AddSignature(msg.from[1], msg.from[1], o)
     \/ UNCHANGED <<msg, vouched, sealed, verdict, reported>>

Edit ==
  /\ phase = "transit" /\ edits < MaxEdits
  /\ edits' = edits + 1 /\ UNCHANGED phase

Sign(d, o) == Edit /\ AddSignature(d, d, o)

\* A signature field without the key of the domain it names.
SignAsOther(d, o) == Edit /\ AddSignature(d, NoDomain, o)

Rewrite(m) ==
  /\ Edit /\ m # msg /\ msg' = m
  /\ UNCHANGED <<vouched, sealed, verdict, reported>>

AddFrom(d) ==
  Rewrite([msg EXCEPT !.from = <<d>> \o @]) \/ Rewrite([msg EXCEPT !.from = Append(@, d)])
ChangeHeader ==
  \/ Rewrite([msg EXCEPT !.subject = "changed"])
  \/ msg.from # <<>> /\ Rewrite([msg EXCEPT !.from = Tail(@)])
  \/ msg.dkim # <<>> /\ Rewrite([msg EXCEPT !.dkim = Tail(@)])
ChangeBody ==
  \/ Rewrite([msg EXCEPT !.body = Append(@, "footer")])
  \/ Rewrite([msg EXCEPT !.body = <<"other">> \o Tail(@)])
  \/ Rewrite([msg EXCEPT !.wrapped = TRUE])
DamageChain ==
  \E i \in DOMAIN msg.arc :
    \/ \E f \in {"missing", "twice"} : Rewrite([msg EXCEPT !.arc[i].fields = f])
    \/ Rewrite([msg EXCEPT !.arc[i].aar.spf = "pass"])
    \/ i = Len(msg.arc) /\ Rewrite([msg EXCEPT !.arc = Front(@)])

\* A custodian adds an ARC set: its own findings, a signature of the message as
\* it passes it on, a seal over the chain; by is whose key it has.
Seal(d, by, o, cv) ==
  LET found == [id |-> d, spf |-> "none", dkim |-> VerifyDKIM(msg, [enabled |-> TRUE,
                   keys |-> [x \in Domain |-> "rsa"]]).result, dmarc |-> ""]
      bare == [d |-> d, by |-> by, aar |-> found, ams |-> SignatureBy(msg, d, by, o),
               cv |-> cv, alg |-> o.alg, over |-> <<>>, fields |-> "whole"]
      chain == Append(msg.arc, bare)
      set == [bare EXCEPT !.over = buildARCSealInput(chain, Len(chain))]
  IN  /\ Edit
      /\ msg' = [msg EXCEPT !.arc = Append(@, set)]
      /\ sealed' = IF by = d THEN sealed \union {[arc |-> msg'.arc,
                                                saw |-> Covered(msg, d, o)]}
                   ELSE sealed
      /\ UNCHANGED <<vouched, verdict, reported>>

(***************************************************************************)
(* At the gateway: VerifyAuth and AuthResults, each computed once.           *)
(***************************************************************************)
VerifyAuth(dns) ==
  /\ phase = "transit" /\ phase' = "verified"
  /\ verdict' = Result(msg, dns.spf, dns)
  /\ reported' = parseAuthResults(msg)
  /\ UNCHANGED <<edits, msg, vouched, sealed>>

Next ==
  \/ Submit
  \/ \E d \in Signers, o \in SignOptions : Sign(d, o)
  \/ \E d \in Signers, o \in SealOptions :
       \/ SignAsOther(d, o)
       \/ \E cv \in {"none", "pass"} : Seal(d, d, o, cv) \/ Seal(d, NoDomain, o, cv)
  \/ \E d \in Domain : AddFrom(d)
  \/ ChangeHeader \/ ChangeBody \/ DamageChain
  \/ \E dns \in Dns : VerifyAuth(dns)

Spec == Init /\ [][Next]_vars
-----------------------------------------------------------------------------
(***************************************************************************)
(* Properties                                                               *)
(***************************************************************************)
\* The type invariant; the domains counted as verified are those of a pass.
TypeOK ==
  /\ phase \in {"compose", "transit", "verified"} /\ edits \in 0..MaxEdits
  /\ \A i \in DOMAIN msg.from : msg.from[i] \in Domain
  /\ phase = "verified" =>
       /\ verdict.dkim.result \in DkimResults
       /\ verdict.dkim.result = "pass" <=> verdict.dkim.domains # {}
       /\ verdict.arc \in DkimResults
       /\ verdict.dmarc.result \in {"none", "pass", "fail", "temperror", "permerror"}
       /\ verdict.disposition \in {"none", "quarantine", "reject"}

ByDKIM == phase = "verified" /\ verdict.authenticated /\ ~verdict.dmarc.spfAligned

Vouchers == {v \in vouched : /\ v.from = fromDomain(msg)
                             /\ domainsAlign(v.d, fromDomain(msg), FALSE)
                             /\ IsPrefix(v.body, msg.body)}

\* Whatever happened on the way, a message that DKIM authenticates shows the
\* From that a domain aligned with it signed, over a body that still begins
\* with what was signed (dkim.go: the one-From rule, the From that must be
\* covered, instances taken from the bottom).
AuthenticMeansSigned == ByDKIM => Vouchers # {}

\* When no warning says that a signature covers part of the body only, the
\* body is exactly what was signed (dkim.go: BodyTruncated; verify.go:
\* Warnings).
TruncationIsFlagged ==
  ByDKIM /\ ~verdict.dkim.truncated => \E v \in Vouchers : v.body = msg.body

\* arc=pass: each custodian sealed the chain as it stood, and the newest one
\* passed on this From and this body (arc.go: VerifyARC).
ChainIsVouched ==
  phase = "verified" /\ verdict.arc = "pass" =>
    /\ \A i \in DOMAIN msg.arc :
         \E s \in sealed : s.arc = SubSeq(msg.arc, 1, i)
    /\ \E s \in sealed : /\ s.arc = msg.arc
                         /\ <<s.saw.from>> = msg.from
                         /\ IsPrefix(s.saw.body, msg.body)

\* The owner of a domain who asks for rejection of all mail that fails gets it
\* for a message that no domain aligned with it has signed, unless SPF speaks for
\* the message (dmarc.go: VerifyDMARC; verify.go: Disposition).
UnsignedIsRejected ==
  phase = "verified" /\ verdict.dmarc.policy = "reject" /\ verdict.dmarc.record.pct = 100
  /\ ~verdict.dmarc.spfAligned /\ Vouchers = {} => verdict.disposition = "reject"

\* However many fields report on the message and in whatever order, a reported
\* failure is never covered up by a pass, nor either of them by anything else
\* (auth.go: strongerResult).
FailureIsNotErased ==
  LET Says(method, r) ==
        \/ \E i \in DOMAIN Reports(msg) : Reports(msg)[i][method] = r
        \/ /\ method = "spf" /\ msg.receivedSpf = r
           /\ \A i \in DOMAIN Reports(msg) : Reports(msg)[i].spf = ""
  IN  phase = "verified" =>
        \A method \in {"spf", "dkim", "dmarc"} :
          /\ reported[method] = "fail" <=> Says(method, "fail")
          /\ reported[method] = "pass" <=> Says(method, "pass") /\ ~Says(method, "fail")
=============================================================================
