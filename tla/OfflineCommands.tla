-------------------------- MODULE OfflineCommands --------------------------
(***************************************************************************)
(* One run of a command away from the mail path: inspect (inspect.go) scans   *)
(* one message (Scanning) and reports on its header fields (HeaderChecks);    *)
(* the others walk mailboxes (MailboxWalk), which is done without scanning.   *)
(***************************************************************************)
EXTENDS Scanning, HeaderChecks, MailboxWalk

CONSTANT Samples     \* messages that may be inspected

IsMessage(m) ==
  /\ m.fields \in Seq([name : STRING, defects : SUBSET STRING])
  /\ m.from \in Seq([domain : Domain \union {NoDomain}, claims : Domain \union {""},
                     mixed : SUBSET {"name", "domain"}])
  /\ m.excess \subseteq {"count", "size", "hops", "encoding"}
  /\ m.subject \subseteq {"control", "long"}
  /\ {m.replyTo, m.sender, m.envelope} \subseteq Domain \union {NoDomain}
  /\ m.date \in {"", "unparseable", "future", "stale", "in order"}
  /\ m.messageId \in Domain \union {"", "malformed"}
  /\ m.mime \in {"", "malformed", "no-boundary", "unused-boundary", "in order"}

ASSUME SamplesAssumption == \A m \in Samples : IsMessage(m)

VARIABLES
  mode,        \* "inspect" or "walk"
  report       \* what inspect prints: [message, minSeverity, findings]

vars == <<mode, scanVars, walkVars, report>>

NoReport == [minSeverity |-> "none"]

Init ==
  /\ report = NoReport
  /\ \/ mode = "inspect" /\ InitScan /\ IdleWalk
     \/ mode = "walk" /\ InitWalk /\ IdleScan

runInspect ==
  /\ scan = "done" /\ report = NoReport
  /\ \E m \in Samples, s \in ToSet(Severities) \union {"other"} :
       report' = [message |-> m, minSeverity |-> s,
                  findings |-> filterFindings(ValidateHeaders(m), s)]
  /\ UNCHANGED <<mode, scanVars, walkVars>>

Next ==
  \/ NextScan /\ UNCHANGED <<mode, walkVars, report>>
  \/ runInspect
  \/ mode = "walk" /\ NextWalk /\ UNCHANGED <<mode, scanVars, report>>

Spec == Init /\ [][Next]_vars
-----------------------------------------------------------------------------
(***************************************************************************)
(* Properties                                                               *)
(***************************************************************************)
\* The report lists what the checks found from the most severe down to the level
\* asked for, and what is equally severe in the order it was found: the sort
\* neither loses, repeats nor reorders (ValidateHeaders, filterFindings).
FindingsInOrder ==
  report # NoReport =>
    LET found == Discovered(report.message)
        Rank(i) == severityRank(found[i].severity)
        asked == {i \in DOMAIN found : Rank(i) >= threshold(report.minSeverity)}
        Ahead(i, j) == Rank(i) > Rank(j) \/ (Rank(i) = Rank(j) /\ i <= j)
        Place(i) == Cardinality({j \in asked : Ahead(j, i)})
    IN  /\ Len(report.findings) = Cardinality(asked)
        /\ \A i \in asked : report.findings[Place(i)] = found[i]
=============================================================================
