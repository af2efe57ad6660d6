------------------------------ MODULE Scanning ------------------------------
(***************************************************************************)
(* The runtime of a command (cmd/mailscript/common.go) at work on one         *)
(* message: apply has it scanned by clamd (clamav.go) and the YARA sidecar    *)
(* (yara.go), then by the analyzers (analyzer.go), which run at once, and     *)
(* leaves what they said in the message context for the policy to read        *)
(* (pkg/rules/analyzers.go).  Every scanner and analyzer may fail.            *)
(***************************************************************************)
EXTENDS Naturals, Sequences, FiniteSets, SequencesExt, Subsequences

CONSTANTS
  Configs,       \* [clamav, yara, analyzers, valid, verifyAuth, checkDANE,
                 \* enableDNS]: the flags of the command, analyzers a sequence of names
  YaraAnswers,   \* the matches a sidecar may answer with, each a name, "" or Invalid
  Answers,       \* what an analyzer may answer: [verdict, score, coded, deferred]
  Rule, Invalid, Failed

ClamdReplies == {"OK", "FOUND", "FOUND-unnamed", "ERROR", "other"}
Verdicts == {"clean", "unknown", "suspicious", "malicious"}

ASSUME ScanningAssumption ==
  /\ \A c \in Configs : c.analyzers \in Seq(STRING)
  /\ \A y \in YaraAnswers : y \in Seq(Rule \union {"", Invalid})
  /\ {"", Invalid} \intersect Rule = {} /\ Failed \notin YaraAnswers \union Answers

VARIABLES
  config, oversized,   \* oversized: who is not sent the message, for its size
  scan,                \* where apply is
  outcomes,            \* one for each analyzer, NoOutcome while it works
  ctx,                 \* the MessageContext
  clamdSaid, finished  \* history: clamd's reply; the analyzers, as they finished

scanVars == <<config, oversized, scan, outcomes, ctx, clamdSaid, finished>>

NoOutcome == [state |-> "pending"]
Error == [state |-> "error"]

NewMessageContext ==
  [virusStatus |-> "unknown", avAvailable |-> FALSE, yaraAvailable |-> FALSE,
   yaraMatches |-> <<>>, analyzerResults |-> <<>>, log |-> <<>>,
   resolver |-> FALSE, verified |-> FALSE]

InitScan ==
  /\ config \in Configs
  /\ oversized \in SUBSET {"clamav", "yara", "analyzers"}
  /\ scan = "start" /\ outcomes = <<>> /\ clamdSaid = "" /\ finished = <<>>
  /\ ctx = NewMessageContext

IdleScan ==
  /\ config = [clamav |-> FALSE] /\ oversized = {} /\ scan = "idle" /\ outcomes = <<>>
  /\ ctx = NewMessageContext /\ clamdSaid = "" /\ finished = <<>>

\* valid: addresses, names, models and lists are in order.  An analyzer named twice
\* is refused too.
buildRuntime ==
  /\ scan = "start"
  /\ scan' = IF config.valid /\ IsInjective(config.analyzers) THEN "clamav" ELSE "refused"
  /\ UNCHANGED <<config, oversized, outcomes, ctx, clamdSaid, finished>>

\* A line of the log begins with what is unavailable; for an analyzer its name follows.
Unavailable(what) == <<what, "">>
AnalyzerUnavailable(name) == <<"analyzer", name>>

Log(c, line) == [c EXCEPT !.log = Append(@, line)]

(***************************************************************************)
(* clamd.                                                                   *)
(***************************************************************************)
\* Anything but the known replies is an error, as is a finding without a name.
parseClamdReply(reply) ==
  CASE reply = "OK" -> "clean" [] reply = "FOUND" -> "infected" [] OTHER -> Failed

\* apply hands the context its resolver first; verification implies one.
Equipped ==
  [ctx EXCEPT !.resolver = config.enableDNS \/ config.verifyAuth \/ config.checkDANE]

\* The exchange may fail anywhere: dialling, sending, waiting, or a reply that
\* ends early.
ScanClamAV ==
  /\ scan = "clamav" /\ scan' = "yara"
  /\ IF ~config.clamav THEN ctx' = Equipped /\ UNCHANGED clamdSaid
     ELSE \E reply \in IF "clamav" \in oversized THEN {Failed} ELSE ClamdReplies \union {Failed} :
            LET status == IF reply = Failed THEN Failed ELSE parseClamdReply(reply) IN
            /\ clamdSaid' = reply
            /\ ctx' = IF status = Failed
                      THEN Log([Equipped EXCEPT !.virusStatus = "unknown"], Unavailable("clamav"))
                      ELSE [Equipped EXCEPT !.virusStatus = status, !.avAvailable = TRUE]
  /\ UNCHANGED <<config, oversized, outcomes, finished>>

(***************************************************************************)
(* YARA: the names of an answer, each once; one entry that is no name makes   *)
(* the whole answer an error.                                               *)
(***************************************************************************)
uniqueTrimmed(names) ==
  FoldLeft(LAMBDA kept, n : IF n = "" \/ n \in ToSet(kept) THEN kept ELSE Append(kept, n),
           <<>>, names)

ScanYARA ==
  /\ scan = "yara" /\ scan' = "analyzers"
  /\ outcomes' = [i \in DOMAIN config.analyzers |-> NoOutcome]
  /\ IF ~config.yara THEN UNCHANGED ctx
     ELSE \E answer \in IF "yara" \in oversized THEN {Failed} ELSE YaraAnswers \union {Failed} :
            IF answer = Failed \/ (answer # Failed /\ Invalid \in ToSet(answer))
            THEN ctx' = Log(ctx, Unavailable("yara"))
            ELSE ctx' = [ctx EXCEPT !.yaraAvailable = TRUE, !.yaraMatches = uniqueTrimmed(answer)]
  /\ UNCHANGED <<config, oversized, clamdSaid, finished>>

(***************************************************************************)
(* The analyzers, a goroutine each.                                         *)
(***************************************************************************)
normalizeAnalyzerResult(name, answer) ==
  IF answer.verdict \in Verdicts /\ answer.score \in 0..100 /\ answer.coded
  THEN [state |-> "result", analyzer |-> name, verdict |-> answer.verdict,
        score |-> answer.score, deferred |-> answer.deferred]
  ELSE Error

analyze(i) ==
  /\ scan = "analyzers" /\ outcomes[i] = NoOutcome
  /\ \E answer \in IF "analyzers" \in oversized THEN {Failed} ELSE Answers \union {Failed} :
       outcomes' = [outcomes EXCEPT ![i] =
         IF answer = Failed THEN Error
         ELSE normalizeAnalyzerResult(config.analyzers[i], answer)]
  /\ finished' = Append(finished, i)
  /\ UNCHANGED <<config, oversized, scan, ctx, clamdSaid>>

\* Slip: outcomes are taken as the analyzers finish.
applyAnalyzersAsFinished ==
  /\ scan = "analyzers" /\ Len(finished) = Len(outcomes)
  /\ scan' = "done"
  /\ ctx' = FoldLeft(LAMBDA c, i : IF outcomes[i] = Error
                                   THEN Log(c, AnalyzerUnavailable(config.analyzers[i]))
                                   ELSE [c EXCEPT !.analyzerResults = Append(@, outcomes[i])],
                     [ctx EXCEPT !.verified = config.verifyAuth \/ config.checkDANE], finished)
  /\ UNCHANGED <<config, oversized, outcomes, clamdSaid, finished>>

\* When all have finished, what they said is appended in the order of the flags,
\* an error to the log only; then authentication is verified, if it is asked for.
applyAnalyzers ==
  /\ scan = "analyzers" /\ \A i \in DOMAIN outcomes : outcomes[i] # NoOutcome
  /\ scan' = "done"
  /\ LET failed == Those([i \in DOMAIN outcomes |-> i],
                        {i \in DOMAIN outcomes : outcomes[i] = Error})
         lines == [i \in DOMAIN failed |-> AnalyzerUnavailable(config.analyzers[failed[i]])]
     IN  ctx' = [ctx EXCEPT
                   !.log = @ \o lines,
                   !.analyzerResults = Those(outcomes, ToSet(outcomes) \ {Error}),
                   !.verified = config.verifyAuth \/ config.checkDANE]
  /\ UNCHANGED <<config, oversized, outcomes, clamdSaid, finished>>

NextScan ==
  \/ buildRuntime \/ ScanClamAV \/ ScanYARA
  \/ \E i \in DOMAIN outcomes : analyze(i)
  \/ applyAnalyzers

(***************************************************************************)
(* What the policy reads.                                                   *)
(***************************************************************************)
verdictRank(v) ==
  CASE v = "clean" -> 1 [] v = "unknown" -> 2 [] v = "suspicious" -> 3 [] OTHER -> 4

\* The most severe verdict; without a result, unknown.
ThreatVerdict ==
  LET verdicts == {r.verdict : r \in ToSet(ctx.analyzerResults)}
  IN  IF verdicts = {} THEN "unknown"
      ELSE CHOOSE v \in verdicts : \A w \in verdicts : verdictRank(w) <= verdictRank(v)

ThreatScore == Max({0} \union {r.score : r \in ToSet(ctx.analyzerResults)})

AnalysisPending == \E r \in ToSet(ctx.analyzerResults) : r.deferred
-----------------------------------------------------------------------------
(***************************************************************************)
(* Properties                                                               *)
(***************************************************************************)
CleanMeansScanned ==
  /\ ctx.virusStatus = "clean" => clamdSaid = "OK" /\ ctx.avAvailable
  /\ ctx.virusStatus = "infected" => clamdSaid = "FOUND" /\ ctx.avAvailable
  /\ ctx.avAvailable => config.clamav /\ "clamav" \notin oversized
  /\ ctx.virusStatus = "unknown" /\ config.clamav /\ scan \in {"yara", "analyzers", "done"} =>
       Unavailable("clamav") \in ToSet(ctx.log)

AnalysisInOrder ==
  LET results == ctx.analyzerResults
      Given(i) == outcomes[i] # Error
      Place(i) == Cardinality({j \in 1..i : Given(j) = Given(i)})
      lines == Those(ctx.log, {AnalyzerUnavailable(name) : name \in ToSet(config.analyzers)})
  IN  scan = "done" =>
        /\ Len(results) + Len(lines) = Len(config.analyzers)
        /\ \A i \in DOMAIN config.analyzers :
             IF Given(i) THEN results[Place(i)] = outcomes[i]
             ELSE lines[Place(i)] = AnalyzerUnavailable(config.analyzers[i])
        /\ \A r \in ToSet(results) :
             verdictRank(r.verdict) <= verdictRank(ThreatVerdict) /\ r.score <= ThreatScore
        /\ results # <<>> => \E r \in ToSet(results) : r.verdict = ThreatVerdict

\* What the policy is told is what was found.  A message is clean of viruses only
\* when clamd was configured, was sent this message and answered OK; whatever else
\* it answers, or fails at, the status is unknown and the log says so.  Whatever
\* order the analyzers finish in, each leaves its result or its line in the log,
\* once, in the order of the flags; the verdict is one an analyzer gave, none gave
\* a worse one, and the score is the highest (apply, parseClamdReply,
\* applyAnalyzers, ThreatVerdict, ThreatScore).
AnalysisIsHonest == CleanMeansScanned /\ AnalysisInOrder

\* "An inconclusive result outranks clean so a failed or uncertain analysis cannot
\* become clean" (pkg/rules/analyzers.go, at ThreatVerdict): with an analyzer that
\* failed, the verdict is not clean.  It is: applyAnalyzers leaves out what failed.
FailedAnalysisIsNotClean ==
  scan = "done" /\ (\E i \in DOMAIN outcomes : outcomes[i] = Error) => ThreatVerdict # "clean"
=============================================================================
