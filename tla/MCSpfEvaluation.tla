--------------------------- MODULE MCSpfEvaluation ---------------------------
(***************************************************************************)
(* An instance of SpfEvaluation, with the meaning of its records.            *)
(***************************************************************************)
EXTENDS SpfMeaning, TLC

a == "a.test"  b == "b.test"  c == "c.test"
MCDomain == {a, b, c}
MCSubdomain == {<<c, b>>}
MCIdentities == {a, "", "local"}
MCClients ==
  {[resolver |-> TRUE, ip |-> TRUE, mailFrom |-> from, helo |-> helo] :
     from \in {a, ""}, helo \in {a, "local"}} \union
  {[resolver |-> r, ip |-> ~r, mailFrom |-> a, helo |-> ""] : r \in BOOLEAN}

T(name, q, arg) == [name |-> name, q |-> q, arg |-> arg, wide |-> FALSE]
Wide(t) == [t EXCEPT !.wide = TRUE]
All(q) == T("all", q, "")
Spf(ts) == <<[spf1 |-> TRUE, terms |-> ts]>>

\* What the sender's domain publishes.
SenderTxt ==
  {<<>>, Spf(<<T("ip", "+", "covers")>>) \o Spf(<<All("+")>>),
   <<[spf1 |-> FALSE, terms |-> <<All("+")>>]>>,
   Spf(<<T("include", "+", b), All("-")>>),
   Spf(<<T("include", "-", b), T("include", "?", c), All("+")>>),
   Spf(<<T("include", "+", ""), All("+")>>),
   Spf(<<T("redirect", "+", c), T("a", "+", ""), T("redirect", "+", b)>>),
   Spf(<<T("redirect", "+", c), T("redirect", "+", "")>>),
   Spf(<<T("redirect", "+", BadMacro)>>), Spf(<<T("redirect", "+", a)>>),
   Spf(<<Wide(T("a", "~", "")), Wide(T("mx", "+", b)), T("mx", "-", "")>>),
   Spf(<<T("exists", "+", c), T("exists", "-", b), T("exists", "~", a)>>),
   Spf([i \in 1..12 |-> T("mx", "+", c)]), Spf(<<T("exists", "+", c), All("+")>>),
   Spf(<<T("ptr", "+", b), T("ptr", "-", CurrentDomain), T("exp", "+", b)>>),
   Spf(<<T("unknown", "+", ""), All("+")>>), Spf(<<T("ip", "+", "malformed")>>)}

\* What the domains it refers to publish.
OtherTxt ==
  {<<>>, Spf(<<T("a", "+", CurrentDomain)>>), Spf(<<T("a", "-", SenderDomain)>>),
   Spf(<<T("ip", "+", "covers"), All("~")>>), Spf(<<T("ip", "+", "misses"), All("-")>>),
   Spf(<<T("include", "+", a)>>), Spf(<<T("include", "+", c), T("include", "+", c)>>),
   Spf(<<T("redirect", "+", c)>>), Spf(<<T("mx", "+", c), T("exists", "+", b)>>),
   Spf(<<T("mx", "+", BadMacro)>>)}

LastTxt == {<<>>, Spf(<<T("a", "+", CurrentDomain)>>), Spf(<<T("include", "+", a)>>),
            Spf(<<T("redirect", "+", c)>>), Spf(<<T("mx", "-", ""), All("?")>>)}

\* Addresses of the hosts, how many hosts c's MX answer has, oversized answers.
Answers ==
  {[hosts |-> a :> {} @@ b :> {} @@ c :> {}, mxs |-> 10, large |-> {}],
   [hosts |-> a :> {} @@ b :> {"client"} @@ c :> {"near"}, mxs |-> 10, large |-> {}],
   [hosts |-> a :> {"near"} @@ b :> {"other"} @@ c :> {"client"}, mxs |-> 11,
    large |-> {}],
   [hosts |-> a :> {"near"} @@ b :> {"client"} @@ c :> {}, mxs |-> 0, large |-> {b}]}

MCZones ==
  {[txt |-> (a :> x @@ b :> y @@ c :> z), oversized |-> dns.large, a |-> dns.hosts,
    mx |-> (a :> <<>> @@ b :> <<a, c>> @@ c :> [i \in 1..dns.mxs |-> b]),
    ptr |-> {a, c}] :
   x \in SenderTxt, y \in OtherTxt, z \in LastTxt, dns \in Answers}
=============================================================================
