------------------------- MODULE MCOfflineCommands -------------------------
(***************************************************************************)
(* Three analyzers, one with the name of a scanner, clamd and YARA, each with  *)
(* every answer; messages with every finding; mailboxes of up to five lines,  *)
(* Maildirs of up to three files.                                            *)
(***************************************************************************)
EXTENDS OfflineCommands, TLC

Flags(names) ==
  [clamav |-> TRUE, yara |-> TRUE, analyzers |-> names, valid |-> TRUE, verifyAuth |-> FALSE,
   checkDANE |-> TRUE, enableDNS |-> FALSE]

MCConfigs ==
  {Flags(<<"a", "clamav", "c">>), Flags(<<"a", "a">>), [Flags(<<"a">>) EXCEPT !.valid = FALSE],
   [Flags(<<>>) EXCEPT !.clamav = FALSE, !.yara = FALSE, !.checkDANE = FALSE]}

MCYaraAnswers == {<<>>, <<"rule", "", "rule">>, <<"rule", Invalid>>}

Says(verdict, score) ==
  [verdict |-> verdict, score |-> score, coded |-> TRUE, deferred |-> verdict = "unknown"]

MCAnswers ==
  {Says("clean", 0), Says("unknown", 50), Says("malicious", 100), Says("clean", 101),
   Says("gibberish", 0), [Says("suspicious", 70) EXCEPT !.coded = FALSE]}

MCorg == [d \in {"a.ex", "b.ex", "other", "com"} |->
            CASE d = "com" -> "none" [] d = "other" -> "other" [] OTHER -> "a.ex"]

Field(name) == [name |-> name, defects |-> {}]

\* A message in order.
Plain ==
  [fields |-> <<Field("From"), Field("Date"), Field("Message-ID"), Field("Received"),
                Field("Content-Type"), Field("MIME-Version")>>,
   excess |-> {}, subject |-> {}, unparseable |-> {},
   from |-> <<[domain |-> "a.ex", claims |-> "", mixed |-> {}]>>,
   replyTo |-> "none", sender |-> "none", envelope |-> "a.ex",
   date |-> "in order", messageId |-> "a.ex", mime |-> "in order",
   hops |-> <<[timed |-> TRUE, time |-> 4, private |-> FALSE, parsed |-> TRUE]>>,
   auth |-> [present |-> TRUE, spf |-> "pass", dkim |-> "pass", dmarc |-> "pass",
             signed |-> TRUE, policy |-> "reject", aligned |-> TRUE]]

Hop(timed, time) == [timed |-> timed, time |-> time, private |-> TRUE, parsed |-> FALSE]

MCSamples ==
  {Plain,
   [Plain EXCEPT !.fields = <<Field(""), [Field("From") EXCEPT !.defects =
                                {"HDR_INJECTION", "HDR_LINE_TOO_LONG"}],
                              [Field("From") EXCEPT !.defects = {"HDR_NAME_INVALID",
                                "HDR_8BIT_UNENCODED", "HDR_INVALID_UTF8", "HDR_2047_MALFORMED"}],
                              Field("Content-Type"), Field("Subject"), Field("Subject")>>,
                 !.excess = {"count", "size", "hops", "encoding"},
                 !.subject = {"control", "long"}, !.unparseable = {"To"},
                 !.date = "", !.messageId = "malformed", !.mime = "no-boundary",
                 !.hops = <<Hop(TRUE, 1), Hop(TRUE, 3)>>,
                 !.auth.spf = "fail", !.auth.dkim = "fail", !.auth.dmarc = "fail"],
   [Plain EXCEPT !.from = <<[domain |-> "a.ex", claims |-> "other", mixed |-> {"name", "domain"}],
                            [domain |-> "none", claims |-> "", mixed |-> {}]>>,
                 !.replyTo = "com", !.sender = "b.ex", !.envelope = "other",
                 !.date = "stale", !.messageId = "other", !.mime = "malformed",
                 !.hops = <<Hop(TRUE, 1), Hop(TRUE, 2)>>,
                 !.auth.spf = "softfail", !.auth.dkim = "", !.auth.dmarc = "fail",
                 !.auth.policy = "none"],
   [Plain EXCEPT !.fields = <<>>, !.from = <<>>, !.hops = <<>>, !.date = "", !.messageId = "",
                 !.mime = "", !.auth.present = FALSE],
   [Plain EXCEPT !.from = <<[domain |-> "a.ex", claims |-> "b.ex", mixed |-> {}]>>,
                 !.fields = @ \o <<Field("List-Id"), Field("Date"), Field("Sender"), Field("Sender")>>,
                 !.sender = "other", !.envelope = "other", !.date = "future",
                 !.mime = "unused-boundary", !.hops = <<Hop(TRUE, 1), Hop(FALSE, 9), Hop(TRUE, 3)>>,
                 !.auth.dmarc = "", !.auth.aligned = FALSE]}

Mbox(label, lines, terminated) ==
  [label |-> label, kind |-> "mbox", lines |-> lines, terminated |-> terminated]

Maildir(label, state, cur, new, here) ==
  [label |-> label, kind |-> "maildir", sub |-> {9},
   dir |-> [cur |-> "readable", new |-> state] @@ ("." :> "readable"),
   files |-> [cur |-> cur, new |-> new] @@ ("." :> here)]

Mboxes ==
  {Mbox("ham", lines, t) : lines \in SeqOf({"From", "text"}, 5), t \in BOOLEAN}

MCInputs ==
  {<<m>> : m \in Mboxes \union {Maildir("ham", s, {1, 3}, {2, 4}, {}) :
                                s \in {"readable", "absent", "unreadable"}}}
    \union {<<Mbox("ham", l, t), Maildir("spam", s, {1, 3}, {2}, {5})>> :
              l \in {<<>>, <<"From", "text", "From", "From", "text">>,
                     <<"text", "From", "text", "From", "text">>},
              t \in BOOLEAN, s \in {"readable", "unreadable"}}
    \union {<<>>}
=============================================================================
