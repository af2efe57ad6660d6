---------------------------- MODULE HeaderChecks ----------------------------
(***************************************************************************)
(* ValidateHeaders (pkg/rules/validate.go): ten checks of a message's header  *)
(* block, each adding findings in the order it meets them, and the sort that  *)
(* puts the most severe first.  A message is what the checks tell apart: its  *)
(* fields in order with their defects, and what the address, date, trace and  *)
(* result fields say.                                                       *)
(***************************************************************************)
EXTENDS Naturals, Sequences, FiniteSets, SequencesExt, Subsequences

CONSTANTS
  Domain, NoDomain,
  org           \* the organisational domain of each, NoDomain for a bare suffix

ASSUME HeaderAssumption ==
  org \in [Domain -> Domain \union {NoDomain}] /\ NoDomain \notin Domain

Severities == <<"info", "low", "medium", "high", "critical">>

severityRank(s) == CHOOSE i \in DOMAIN Severities : Severities[i] = s

Finding(code, severity, header) == [code |-> code, severity |-> severity, header |-> header]

\* The finding, if the condition holds.
When(condition, code, severity, header) ==
  IF condition THEN <<Finding(code, severity, header)>> ELSE <<>>

SameOrgDomain(x, y) ==
  x \in Domain /\ y \in Domain /\ org[x] # NoDomain /\ org[x] = org[y]

(***************************************************************************)
(* The message, by its header fields.                                       *)
(***************************************************************************)
Count(m, name) == Cardinality({i \in DOMAIN m.fields : m.fields[i].name = name})
Has(m, name) == Count(m, name) > 0

FieldDefects ==
  <<Finding("HDR_NAME_INVALID", "high", ""), Finding("HDR_INJECTION", "critical", ""),
    Finding("HDR_LINE_TOO_LONG", "low", ""), Finding("HDR_8BIT_UNENCODED", "medium", ""),
    Finding("HDR_INVALID_UTF8", "medium", ""), Finding("HDR_2047_MALFORMED", "low", "")>>

\* A line without a colon has no name, and is looked at no further.
FieldFindings(h) ==
  IF h.name = "" THEN <<Finding("HDR_NO_COLON", "high", "")>>
  ELSE LET found == Those(FieldDefects, {f \in ToSet(FieldDefects) : f.code \in h.defects})
       IN  [i \in DOMAIN found |-> [found[i] EXCEPT !.header = h.name]]

FieldsFindings(fields) ==
  LET found[n \in 0..Len(fields)] ==
        IF n = 0 THEN <<>> ELSE found[n - 1] \o FieldFindings(fields[n])
  IN  found[Len(fields)]

checkStructure(m) ==
  When("count" \in m.excess, "HDR_COUNT_EXCESSIVE", "low", "")
    \o When("size" \in m.excess, "HDR_SIZE_EXCESSIVE", "low", "")
    \o FieldsFindings(m.fields)

checkRequiredFields(m) ==
  When(~Has(m, "From"), "HDR_FROM_MISSING", "high", "From")
    \o When(~Has(m, "Date"), "HDR_DATE_MISSING", "medium", "Date")
    \o When(~Has(m, "Message-ID"), "HDR_MSGID_MISSING", "low", "Message-ID")
    \o When("control" \in m.subject, "HDR_SUBJECT_CONTROL", "medium", "Subject")
    \o When("long" \in m.subject, "HDR_SUBJECT_TOO_LONG", "low", "Subject")

singletonHeaders ==
  <<"Date", "From", "Sender", "Reply-To", "To", "Cc", "Bcc", "Message-ID", "In-Reply-To",
    "References", "Subject", "MIME-Version", "Content-Type", "Content-Transfer-Encoding">>

checkDuplicates(m) ==
  LET twice == Those(singletonHeaders, {n \in ToSet(singletonHeaders) : Count(m, n) > 1})
  IN  [i \in DOMAIN twice |->
         Finding("HDR_DUP",
                 IF twice[i] \in {"From", "Sender", "Reply-To"} THEN "high" ELSE "medium",
                 twice[i])]

AddressFields == <<"From", "Sender", "Reply-To", "To", "Cc", "Bcc">>

checkAddresses(m) ==
  LET bad == Those(AddressFields, m.unparseable)
      bare == Those(m.from, {a \in ToSet(m.from) : a.domain = NoDomain})
  IN  [i \in DOMAIN bad |-> Finding("HDR_ADDR_INVALID", "medium", bad[i])]
        \o [i \in DOMAIN bare |-> Finding("HDR_FROM_NO_DOMAIN", "high", "From")]

\* A domain elsewhere in the message that has nothing to do with From's.
Unrelated(domain, from) ==
  domain # NoDomain /\ from # NoDomain /\ ~SameOrgDomain(domain, from)

isListMail(m) == \E n \in {"List-Id", "List-Post", "List-Unsubscribe"} : Has(m, n)

checkSpoofing(m) ==
  IF m.from = <<>> THEN <<>>
  ELSE LET from == m.from[1] IN
    \* claims is the domain of an address in the display name, when it is not
    \* the address itself.
    When(from.claims # "",
         "SPOOF_DISPLAY_NAME_ADDR",
         IF SameOrgDomain(from.claims, from.domain) THEN "medium" ELSE "high", "From")
      \o When("name" \in from.mixed, "SPOOF_DISPLAY_NAME_MIXED_SCRIPT", "medium", "From")
      \o When("domain" \in from.mixed, "SPOOF_DOMAIN_MIXED_SCRIPT", "high", "From")
      \o When(Unrelated(m.replyTo, from.domain), "SPOOF_REPLYTO_MISMATCH", "medium", "Reply-To")
      \o When(Unrelated(m.envelope, from.domain) /\ ~isListMail(m),
              "SPOOF_ENVELOPE_MISMATCH", "low", "From")
      \o When(Unrelated(m.sender, from.domain), "SPOOF_SENDER_MISMATCH", "low", "Sender")
      \o When(Len(m.from) > 1, "SPOOF_MULTIPLE_FROM_ADDRS", "medium", "From")

checkDate(m) ==
  When(m.date = "unparseable", "HDR_DATE_UNPARSEABLE", "medium", "Date")
    \o When(m.date = "future", "HDR_DATE_FUTURE", "medium", "Date")
    \o When(m.date = "stale", "HDR_DATE_STALE", "low", "Date")

fromDomain(m) == IF m.from = <<>> THEN NoDomain ELSE m.from[1].domain

checkMessageID(m) ==
  When(m.messageId = "malformed", "HDR_MSGID_MALFORMED", "low", "Message-ID")
    \o When(m.messageId \in Domain /\ Unrelated(m.messageId, fromDomain(m)),
            "HDR_MSGID_DOMAIN_MISMATCH", "info", "Message-ID")

\* A malformed Content-Type ends the check.
checkMIME(m) ==
  IF ~Has(m, "Content-Type") \/ m.mime = "" THEN <<>>
  ELSE When(~Has(m, "MIME-Version"), "MIME_VERSION_MISSING", "low", "MIME-Version")
         \o When(m.mime = "malformed", "MIME_CONTENT_TYPE_MALFORMED", "medium", "Content-Type")
         \o When(m.mime = "no-boundary", "MIME_BOUNDARY_MISSING", "medium", "Content-Type")
         \o When(m.mime = "unused-boundary", "MIME_BOUNDARY_UNUSED", "medium", "Content-Type")
         \o When(m.mime # "malformed" /\ "encoding" \in m.excess, "MIME_CTE_UNKNOWN", "low",
                 "Content-Transfer-Encoding")

\* Hops, the newest first.  A hop without a time says nothing about the order;
\* a minute of skew is allowed, and the first reversal is reported alone.
TimeReversed(hops) ==
  \E i \in 1..Len(hops) - 1 :
    /\ hops[i].timed /\ hops[i + 1].timed
    /\ hops[i + 1].time > hops[i].time + 1

checkReceivedChain(m) ==
  LET hops == m.hops IN
  IF hops = <<>> THEN <<Finding("RCVD_NONE", "medium", "Received")>>
  ELSE When("hops" \in m.excess, "RCVD_EXCESSIVE", "low", "Received")
         \o When(TimeReversed(hops), "RCVD_TIME_REVERSED", "medium", "Received")
         \o When(Last(hops).private /\ Len(hops) > 1, "RCVD_PRIVATE_ORIGIN", "low", "Received")
         \o When(\A i \in DOMAIN hops : ~hops[i].parsed, "RCVD_UNPARSEABLE", "low", "Received")

\* The results are what the fields report (MessageAuth's parseAuthResults).
checkAuthentication(m) ==
  LET ar == m.auth
      results == "Authentication-Results" IN
  IF ~ar.present THEN <<Finding("AUTH_NOT_EVALUATED", "info", "")>>
  ELSE When(ar.spf = "fail", "AUTH_SPF_FAIL", "high", results)
         \o When(ar.spf = "softfail", "AUTH_SPF_SOFTFAIL", "low", results)
         \o When(ar.spf \in {"permerror", "temperror"}, "AUTH_SPF_ERROR", "low", results)
         \o When(ar.dkim = "fail", "AUTH_DKIM_FAIL", "medium", results)
         \o When(ar.signed /\ ar.dkim = "", "AUTH_DKIM_UNVERIFIED", "info", "DKIM-Signature")
         \o When(ar.dmarc = "fail", "AUTH_DMARC_FAIL",
                 IF ar.policy = "none" THEN "medium" ELSE "high", results)
         \o When(ar.dmarc \notin {"fail", "pass"} /\ ar.spf = "pass" /\ ~ar.aligned,
                 "AUTH_NO_ALIGNMENT", "medium", "")

Discovered(m) ==
  checkStructure(m) \o checkRequiredFields(m) \o checkDuplicates(m) \o checkAddresses(m)
    \o checkSpoofing(m) \o checkDate(m) \o checkMessageID(m) \o checkMIME(m)
    \o checkReceivedChain(m) \o checkAuthentication(m)

(***************************************************************************)
(* The sort, and the report.                                                *)
(***************************************************************************)
\* Slip: a finding moves ahead of those of its own severity.
InsertFindingAhead(sorted, f) ==
  LET before == {i \in DOMAIN sorted : severityRank(sorted[i].severity) > severityRank(f.severity)}
  IN  SubSeq(sorted, 1, Cardinality(before)) \o <<f>>
        \o SubSeq(sorted, Cardinality(before) + 1, Len(sorted))

\* A finding moves forward past those that are less severe.
InsertFinding(sorted, f) ==
  LET before == {i \in DOMAIN sorted : severityRank(sorted[i].severity) >= severityRank(f.severity)}
  IN  SubSeq(sorted, 1, Cardinality(before)) \o <<f>>
        \o SubSeq(sorted, Cardinality(before) + 1, Len(sorted))

Sort(found) ==
  LET sorted[n \in 0..Len(found)] ==
        IF n = 0 THEN <<>> ELSE InsertFinding(sorted[n - 1], found[n])
  IN  sorted[Len(found)]

ValidateHeaders(m) == Sort(Discovered(m))

\* A level nobody has heard of asks for everything.
threshold(minSeverity) ==
  IF minSeverity \in ToSet(Severities) THEN severityRank(minSeverity) ELSE 0

filterFindings(findings, minSeverity) ==
  Those(findings, {f \in ToSet(findings) : severityRank(f.severity) >= threshold(minSeverity)})
=============================================================================
