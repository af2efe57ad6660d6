# MailScript in TLA+

MailScript is an SMTP proxy without a queue of its own. It runs a Starlark
policy over each message between `DATA` and the reply to it, and hands the
message to the next hop before it answers. This directory holds TLA+ modules
of its control, TLC configurations that check them on small instances, and
proofs of their main theorems for TLAPS. File names below are relative to the
repository (`cmd/mailscript/` unless a directory is given).

    tlc -config SmtpSession.cfg MCSmtpSession        # any run of PROJECT.json
    tlapm SmtpSessionProofs.tla                      # any of the proof modules

## 1. The system

| Component | State | Operations | Talks to | Correct when |
|---|---|---|---|---|
| **SMTP session** `proxy.go`, `submission.go`, `upstream.go` | greeting, TLS, credentials, envelope, message, plan, one upstream connection | HELO EHLO MAIL RCPT DATA RSET STARTTLS AUTH QUIT | client, upstream server, policy, delivery adapter, shared counters | what it acknowledges is what the upstream holds; 250 only after delivery; one copy, all recipients of the plan or none; no identity but the client's |
| **Delivery decision** `delivery.go`, end of `processWithMailScript`, start of `deliver` | none | disposition, unsupported actions, recipients, header edits | session, gRPC service | the first block decides, nothing is ignored |
| **Host adapter** `host_adapter.go` | capabilities read at startup | hand over a whole plan over HTTP | delivery host | only plans the host understands; a lost answer is not a refusal |
| **Proxy process** `runProxy`, `serveSMTP`, `lifecycle.go` | listeners, slots, active connections, WaitGroup, policy pointer | accept, limit, reload, drain | sessions, gRPC server, signals | slots neither leak nor double; drain ends, and cleanly before its deadline |
| **Policy engine** `pkg/rules/engine.go`, `builtins_*.go`, `message.go` | the message context: actions, header edits, log, score | 262 builtins, limits, `load` | resolver, verification, models | effects accumulate in order; a failed run has none |
| **Policy loading** `pkg/rules/policy.go` | snapshot of root script and modules | load, reload | file system | one consistent snapshot per message |
| **gRPC service** `grpc_server.go` | none of its own | ProcessMessage, stream, GetStats | decision, delivery, counters | code, flag and counters agree with what was done |
| **DNS resolver** `pkg/dnsx` | cache, counters | lookups with TTL | network | an answer is no older than its TTL, whoever asked |
| **Message authentication** `pkg/authverify`, `pkg/rules/verify.go`, `auth.go` | verdict kept per message | SPF DKIM DMARC ARC DANE MTA-STS | resolver | limits hold across includes; authentic means signed by an aligned domain; a failure is not erased |
| **Runtime, analyzers, scanners** `common.go`, `analyzer*.go`, `clamav.go`, `yara.go` | configuration | apply to a context | sidecars, clamd | failures are visible, order is deterministic |
| **Header checks** `pkg/rules/validate.go`, `inspect.go` | none | ten checks, a sort, a filter | message context | findings are complete and in order |
| **Analysis and models** `pkg/rules/human.go`, `content.go`, `pkg/ml` | trained models | text features, training | | arithmetic and string heuristics |
| **Batch commands** `process.go`, `train.go`, `daemon.go` | counters of a loop | mbox, maildir, polling | files, daemon | each message once, limits kept, a corpus split without loss |

**Concurrency.** One goroutine per listener, one per connection, the main
goroutine, the gRPC server's. A session is sequential; sessions share the
counters (`stats` mutex), the set of active connections and the WaitGroup
(`connMutex`), the policy (an atomic pointer) and the resolver cache. Each
analyzer of a message has a goroutine; the main goroutine reloads the policy.
The offline commands are sequential, but the mailboxes they walk are not theirs.

**Failure and timing.** Client, upstream, host, DNS and sidecars may each
refuse, stall or vanish; a reply may be lost after the other side has acted.
The client has five minutes per command, each upstream command two minutes,
the host thirty seconds, the policy its own limit, the drain thirty seconds.
The gateway persists nothing, so there is no recovery: the sender's retry is it.
`train` writes a model in place.

PROJECT.json lists each hazard at its line, with the property that watches it
or the reason none does.

## 2. The modules

| Module | Models |
|---|---|
| `PolicyDisposition` | operators: the disposition of a list of actions, unsupported actions, what a host understands, the recipients of a plan |
| `SmtpSession` | one session, its upstream transaction, delivery upstream or to the host; several sessions one after the other |
| `RelayContract` | the abstract promise of a relay: taken at most once, answered at most once, truthfully |
| `ProxyLifecycle` | accept loops, connection limit, session bookkeeping, drain |
| `ReplyPipeline` | the connection deadline, lost replies and a pipelining client |
| `PolicyRun` | one run of a script as a sequence of builtin calls, and what the gateway makes of it |
| `PolicyReload` | the policy files, an administrator who edits them, SIGHUP, LoadPolicy file by file, the published snapshot |
| `GrpcService` | gRPC calls and streams over that snapshot: authorisation, evaluation, decision, delivery, counters |
| `SpfEvaluation` | the SPF evaluator as a stack of calls with its shared limits |
| `SpfMeaning` | what a published record means, from the zone alone: the reference for the evaluator's verdicts |
| `MessageAuth` | a message signed, sealed and edited on its way, and what DKIM, ARC, DMARC and the reported results say of it |
| `ResolverCache` | the shared DNS cache, step by step, and the DANE and MTA-STS checks on top of it |
| `Scanning` | the runtime: clamd, YARA, concurrent analyzers, and what the policy reads of them |
| `HeaderChecks` | operators: ValidateHeaders with its ten checks and its sort |
| `MailboxWalk` | process, train and daemon over mboxes, Maildirs and an inbox |
| `Subsequences` | operators: what a loop that keeps some of the elements it sees leaves behind, by place |
| `OfflineCommands` | composes the last three: one run of a command |
| `MC...` | instances for TLC |
| `SmtpSessionProofs`, `PolicyRunProofs`, `ProxyLifecycleProofs`, `SpfEvaluationProofs`, `ResolverCacheProofs`, `GrpcServiceProofs`, `MessageAuthProofs`, `OfflineCommandsProofs` | theorems and proofs |

`PolicyDisposition` is extended by `SmtpSession`, `PolicyRun` and `GrpcService`, so
they cannot disagree about what an action does. `GrpcService` composes with
`PolicyReload`: its steps and the reload's interleave. `SmtpSession` instantiates
`RelayContract` with a refinement mapping.

### SmtpSession

The variables are the fields of `SMTPSession` (`helo`, `tlsActive`, `authUser`
with `authenticated` being "not Anonymous", `mailSet`, `recipients`, `actions`,
`upstream`), the local variables of `forwardToUpstream` (`todo`, `rejection`),
the three counters, and history. `pc` is where the goroutine waits: for a
command, for the upstream's verdict on credentials, for the message, the policy,
each upstream reply, the host, or to answer. Between two waits a handler is one
action. `ConnLost` may happen at every wait; nothing else can touch a session.

Handlers and actions: `Hello` (both greetings), `Rset`, `StartTLS` and
`StartTLSFailed`, `Auth`/`AuthAccepted`/`AuthRefused`, `Mail`/`MailFailed`
(`beginUpstream` within), `Rcpt`/`RcptRefused`/`RcptLost`, `Data`,
`ReadMessage`/`ReadFailed`, `EvaluationFailed`, `PolicyRefuses`/`PolicyAccepts`,
`DeliverBadEnvelope`/`Deliver`, the `Forward...` and `BeginUpstream...` actions,
`DeliverToHost`/`HostTakes`/`HostRefuses`, `Reply`, `EndSession`.

After `421` from the upstream or a broken message the code closes the connection
and its loop goes on with whatever it has buffered; so does the model: commands
are executed on a closed connection, and their answers are `"unseen"`. Only
`StartTLS` needs the connection (its handshake reads from it).

Abstractions: malformed commands change nothing and are no step. `recipients`
is a set with the count the limit of 100 looks at (`named`), since a repeated
RCPT makes a list with a repetition but delivers to the same people. A message
is the set of those who wrote a copy of the quarantine marker in it: the client,
the policy, the proxy. `PolicyAccepts` does what the code does in its order: the
client's copies are stripped (`proxy.go:644`), the policy's header edits applied
(`:676`), the proxy's copy prepended on quarantine (`:597`). `add_header` takes any
name, so a policy may write the marker on a message it does not quarantine
(`PolicyRuns` says of each run whether it does).
Replies are classes: 250, 4xx, 5xx, and 421 where it closes the connection.
A refusal with a code that is neither 4xx nor 5xx is answered 4xx, as in the code.

### RelayContract

Messages are begun, taken (the relay knows it, or is unsure because the reply was
lost) and answered: 250 only when known to be taken, 5xx only when known not to
be, never 4xx when known to be taken, and "unseen" on a dead connection. The
mapping (`Custody`) reads `taken` from the history of deliveries.

### ProxyLifecycle

Each action is one critical section of the code, which is why admission
(`Admit`, `TurnAway`), registration (`Register`, `RegisterRefused`) and the
withdrawal of a slot (`Withdraw`) are three steps, and the deferred calls of a
session are three (`SessionEnds`, `SessionForgotten`, `SessionDone`). `runProxy`
starts a drain on a signal or on the first failed server and exits when `drain`
returns. The gRPC server is external: RPCs in flight, and what `GracefulStop`
and `Stop` do to it.

### ReplyPipeline

`SmtpSession` takes a reply to arrive unless the connection is gone. This module
drops that: `SetDeadline` is called once per turn of the command loop
(`proxy.go:376`), `writeLine` ignores the error of a write, and a pipelining
client pairs replies with commands by order (the proxy offers PIPELINING). On a
TLS connection a failed write breaks the connection for good, so the module is
about plaintext connections. The message is read only before the deadline; a
message in the read buffer when it passes counts as read in time, with `Expire`
falling in the work that follows. `Deliver` is policy, delivery and the reply at
once, since nothing is awaited between the last two.

### PolicyRun

A script is any sequence of calls of the builtins that have an effect, ended by
its return, by an error of a builtin, or by the limits (`Cancel`). Actions,
`ModifiedHeaders` and `RemovedHeaders` are kept as the code keeps them; a header
name has a field (itself without case), because removal folds case and addition
does not. `Decide` applies the header edits to the message and takes the
decision, as `processWithMailScript` and the host adapter do.

### PolicyReload and GrpcService

`LoadPolicy` reads a file and then the files it loads, so it is a walk over files
with a stack, one file per action, and an administrator's `EditFile` falls between
any two. The engine's `thread.Load` is the same walk over the frozen sources of a
snapshot; both use `Enter`, `Follow` and `Leave`, with the live files in one case
and the snapshot in the other. `reload` is the channel of capacity one: `Sighup`
fills it, `ReloadPolicy` takes it. A failed first load stops the proxy, a later one
keeps the policy in force. An RPC takes the snapshot in force at `ProcessMessage`
(`policy.Load()`), walks it (`EvaluateLoad`, `EvaluateFile`), and then `Decide`,
`Deliver` and `Count` are the code's sections between which others may run.
The delivery is what `SmtpSession` models; here it is taken, refused or unknown.

### SpfEvaluation

`check()` calls itself for include and redirect; a call is a frame of `stack`, and
`lookups`, `voidLookups` and `redirects` are the fields shared by all calls. There
is one action per mechanism; `Ask` is `spend` and `countVoid`. The zone is what
DNS would answer. `ReturnToInclude` and `ReturnToRedirect` are what a caller does
with the result.

The reference is `SpfMeaning`, without stack, counters or order of evaluation: the first
term that matches or is in error decides, after them the last redirect, unless it is
empty as the code allows. It is a function over depth: a record n levels deep is read
from what the records it names mean n - 1 levels deep.

### MessageAuth

In transit: `Submit`, `Sign`, `SignAsOther` (a signature in the name of a domain
whose key one does not have), `AddFrom`, `ChangeHeader`, `ChangeBody`, `Rewrite`
(white space), `Seal` and `DamageChain`, in any order; these are the environment.
Then `VerifyAuth` computes what the code computes: `VerifyDKIM` (signature limit,
From rules, tags, key, `l=`), `VerifyARC`, `VerifyDMARC`, and
`parseAuthResults`/`strongerResult` for the results the message reports. A
signature is a record of key and signed input, and verifies when both match what
the verifier rebuilds; that is the only cryptography. `vouched` and `sealed` are
history: what each domain really signed.

### ResolverCache

`get` is two steps, `Read` under the lock and `Hit` or `Miss` after it; `Query` is
the exchange and `Store` is `put`. `LookupMX` and its like turn an error into an
empty answer that is cached; the authenticated lookups are not cached and report it.
`CheckDANE`, `CheckDANEDomain`, `VerifyDANECertificate` and `CheckMTASTS` are
operators of the answers a session has collected, one lookup after the other.

### Scanning, HeaderChecks, MailboxWalk, OfflineCommands

`Scanning` is `buildRuntime` and `apply`: `ScanClamAV`, `ScanYARA`, `analyze(i)` for
the goroutines and `applyAnalyzers` after `wg.Wait`. Each scanner may answer
anything its reader tells apart, or fail, or never be sent a message that is too
large. `HeaderChecks` has one operator per check, each a sequence of findings, and
the insertion sort; a message is what the checks tell apart. In `MailboxWalk` a
step is a line of an mbox, a directory listing, an entry of it, or a poll.
`at` is the place in the sources, `buffer` the message collected, `listing` the
rest of a directory (the code walks it in order, so a set of names is enough),
`results` what was met in each source, `corpus` what training keeps of it. `FileMessage` is a mail reader moving a message from new to
cur, `Arrive` and `DeleteMessage` are the inbox. `OfflineCommands` runs `inspect`
(scanning, then the checks) or a walk. `process` and `daemon` build their own message
context and scan nothing, so the two meet nowhere else; the gateway calls the same
`apply` before a policy runs.

### Slips

An operator whose comment begins with "Slip:" is a variant of the definition
below it with a mistake someone could make there (a reset forgotten, a check
dropped, an order swapped). No specification uses them. PROJECT.json names, for
each property, a slip that must violate it: it shows the property is able to fail.

## 3. What TLC checks

| Run | Question | Instance | Size |
|---|---|---|---|
| `smtp_session` | safety of sessions and the contract | 3 addresses, 1 user, 2 recipients, 2 transactions over any number of sessions, 12 policy runs, 3 configurations | 4.8M states, about 2 min |
| `smtp_liveness` | progress | the same with 1 transaction and 3 plans | 3.3k states |
| `proxy_lifecycle` | accepting, limiting, draining | 3 clients, 2 listeners, 1 slot, 1 RPC | 78k states |
| `policy_run` | runs of a policy | 3 builtin calls out of all, 3 header names in 2 fields, codes around 400 and 599 | 3.9M states, about 45 s |
| `grpc_service` | RPCs while the policy is edited and reloaded | 3 files, 3 versions, 2 edits, 2 signals, 2 messages | about 1 min |
| `spf_evaluation` | limits and verdicts | 3 domains, 3400 zones, 6 clients | 117k states, a few seconds |
| `message_auth` | authentication of an edited message | 3 domains in 2 organisations, 3 steps on the way, 5 ways to sign, 4 DNS contents | about 1 min |
| `resolver_cache` | concurrent lookups | 2 sessions, 2 hosts, TTL 1, clock to 3, 1 change of the zones | 7.3M states, about 100 s |
| `offline_commands` | scanning, header checks, mailboxes | 3 analyzers, 5 messages, every mbox of up to 5 lines, Maildirs of up to 4 files, 3 arrivals | 426k states, about 45 s |
| `failed_analysis` | finding 3 | the same | violated in 7 steps |
| `reply_pipeline` | finding 1 | 3 commands | violated in 11 steps |
| `host_plan` | finding 2 | a host that advertises everything | violated in 4 steps |

**Properties of sessions.** `EnvelopeInSync`: the acknowledged envelope is the
upstream transaction's. `DeliveredAsPlanned`: one copy, to all the recipients the
plan asks for. `MarkerIsOurs`: no client's copy of the quarantine marker reaches the
next hop, the proxy's does iff it quarantined that message, and a copy the policy
wrote goes only with the message it was written on. It does not say that a marked
message is quarantined: a policy may mark without, so a next hop that trusts the
marker trusts the policy's authors. `SubmissionIdentity`: nothing is opened or delivered in
submission mode but under the identity the upstream vouched for.
`StatsTruthful`: counters agree with deliveries. `ImplementsContract`:
RelayContract is implemented. `MessageIsAnswered` and `DeadSessionEnds`: progress.

**Of the process.** `SlotsBalanced`, `NoLateSession` (the WaitGroup never grows
while it is waited on), `DrainIsClean`, `DrainEnds`; `TypeOK` includes that the
failures channel is never over its capacity.

**Of a policy run.** `BlockIsFinal`, `NothingIgnored`, `HeaderEditsHold`;
`TypeOK` includes that no refusal carries a code of success and no field is
recorded for removal twice.

**Of the service.** `OnePolicyPerMessage`: root and modules come from one published
snapshot, whatever is reloaded between them. `PublishedPolicyRuns`: what is
published has no cycle and misses no module, whatever was edited during the read.
`AnswersAreHonest`: code, flags, delivery and authorisation agree.
`EditsTakeEffect`: the last edit that was signalled is in force in the end.

**Of authentication.** `LimitsAreFinal`, `QueriesBounded` and `NestingBounded`: the
limits are those of the evaluation and not of a call, and bound its work.
`VerdictIsMeaning`: within the limits the verdict is the reference's.
`AuthenticMeansSigned`: what DKIM authenticates shows the From an aligned domain
signed. `TruncationIsFlagged`: without a warning the body is what was signed.
`ChainIsVouched`: a passing ARC chain was sealed step by step over this message.
`UnsignedIsRejected`: p=reject is applied to what nobody aligned signed.
`FailureIsNotErased`: reported results combine in any order.
`AnswersAreRecent`, `AvailableIsBacked`, `PassIsVouched`: of the cache and DANE.

**Of the commands.** `AnalysisIsHonest`: clean means clamd said OK of this message,
and every analyzer leaves its result or its line in the log, in order, however they
finish. `EveryMessageOnce`: each message is met once and whole, none is missed
without a limit, a corpus is split without loss, a monitor keeps up whatever polls
are lost. `FindingsInOrder`: the sort loses and reorders nothing.

**Bounds.** Two transactions show everything one can leave behind for the next
(an upstream connection, an envelope, credentials, a marker); each begins blank,
which is what the proofs establish for any number. Three addresses separate the
original recipients, the diversion and the copy, with two recipients a partial
refusal. The plans contain every kind of action the delivery code tells apart,
blocking ones before and after others. The three configurations are those that
differ in a branch: a relay that trusts quarantine, a submission service that
also has a service account (to mix the two up), a host gateway. Two listeners
and three clients contend for one slot and race one drain. In a policy run, three
calls suffice to block, unblock and block again, or to remove, replace and clear.
Three policy files make a cycle, a diamond and a missing module; two edits and two
signals let one fall into a read and one after it. The SPF zones nest references
three deep and in cycles, and reach each limit (the constants are the code's). A
message is edited three times: signed, changed and signed or sealed again; that
is also a chain of two seals over a signature. In the cache two sessions look one
name up at once, and time passes the TTL while one of them still holds an entry.
Five lines of an mbox hold two messages and an empty one, or a limit and one beyond
it; the largest corpus has six documents, one more than is needed for it to be
split.

**Fairness.** Handlers are weakly fair: each wait has a deadline in the code
(`SetDeadline` in the loop and in `upstreamTransaction.command`, the timeouts of
the HTTP client, of the dial and of the engine), after which the wait fails.
`EndSession` on a closed connection is strongly fair: the buffered commands
before the read error are finitely many, but each takes the goroutine away from
the read for a while. Clients, the upstream and the host owe nothing. In
`ProxyLifecycle` the drain and the steps that wait for nothing are weakly fair;
that a session whose socket is closed ends is `DeadSessionEnds`; sessions and
RPCs as such need never end, and `DrainEnds` holds all the same. In `GrpcService`
only the main loop is weakly fair: it takes a waiting signal and finishes a load,
whose reads do not wait for anybody. Edits and signals are bounded, so that the
administrator comes to rest.

## 4. What is proved

`SmtpSessionProofs` proves, for any addresses, users,
configurations that can start, host capabilities, policies and number of
transactions: `TypeOK`, `EnvelopeInSync`, `DeliveredAsPlanned`, `MarkerIsOurs`,
`SubmissionIdentity`, `StatsTruthful`, and that `SmtpSession` implements `RelayContract`
(`KeepsContract`). The assumptions are `ConfigAssumption` (what `runProxy`
refuses to start with), `DataAssumption` and `AddrAssumption`.

None of these is inductive: that a delivery went to the recipients of its plan
depends on what each wait of `deliver` has established. `IInv` says, by `pc`,
what the current transaction has done so far. `TxnInv`: the transaction in hand
is the newest, unanswered, and delivered only once `pc` is "reply". `PlanInv`:
`actions`, `marks` and `recipients` are those of the plan, rewritten after
"deliver". `ForwardInv`: accepted and outstanding upstream recipients make up the
envelope unless one was refused. `OutcomeInv`: the outcome says what the next hop
did. `AuthInv`: between commands the credentials are those the upstream vouched
for. The proof has a step per action; actions that share a tail
(`resetTransaction`, `Settle`, `RefuseMessage`) share lemmas. For the counters a step
is one of five kinds (`CountedStep`), and only two of them change what the next hop
has acknowledged or the accepted count, one after the other (`Balance`). The refinement
theorem maps `Mail` to `Begin`, the steps with `Take` to `Take`, those with
`ReplyToData` to `Answer`, and the rest to stuttering.

`PolicyRunProofs` proves `TypeOK`, `BlockIsFinal`, `NothingIgnored` and
`HeaderEditsHold` for scripts of any length. Its core is
`AppendKeepsFirstBlock`: an action appended to a list that blocks does not change
the disposition, because the least blocking index stays the least.

`ProxyLifecycleProofs` proves `TypeOK`, `SlotsBalanced`, `NoLateSession` (an action
property) and `DrainIsClean` for any clients, finitely many listeners and any limit.
A counter that balances says nothing about who will give the slot back, so the
invariant follows each connection: `HandInv` says it is new, in the hands of one
accept loop or a session's; `SlotInv` and `SessionInv` equate the counters with the
cardinalities of those sets, which have to be finite for that, while clients may be
infinitely many; `DrainInv` says what the drain has been told by the time it acts.

`SpfEvaluationProofs` proves `TypeOK`, `LimitsAreFinal`, `QueriesBounded`,
`NestingBounded` and `VerdictIsMeaning` for any limits and any zones, cyclic ones too (`IsZone`: a PTR
answer is finite). `PaidInv`: every open call but the first was paid for from the
budget on lookups. `BudgetInv`: a limit once passed is remembered as the result
under way until it is the verdict, which is what an `include` that swallowed its
error would break. `QueriesInv`: a paid term accounts for one question and the
names it leads to, with one question still to come when a call has been opened and
its record not read. The work is a product of two unknowns (`Paid * (1 + Names)`),
so its steps rest on lemmas about multiplication of their own.

`VerdictIsMeaning` compares the evaluator with `SpfMeaning`. `MeaningInv` holds while no
limit is passed: the call at place i of the stack is on the way to what its domain means
at `Level(i)` of the table. Its record was found, none of its terms so far decides it
(`Passed`), and if it has opened another call it stands at the include, or past its
terms at the redirect, that names the other's domain (`Waits`); a call that returns,
returns the meaning. A mechanism that is answered within the limits is judged as the
reference judges it (`Judged`), and `FirstDecides` and `NoneDecides` turn the reference,
which speaks of all terms at once, into what a caller knows at the term it has come to.
The depth suffices because of `PaidInv`.

`ResolverCacheProofs` proves `TypeOK`, `AnswersAreRecent`, `AvailableIsBacked` and
`PassIsVouched` for any sessions, zones, TTL and timeout. The difficulty is what a
session carries over an unlock: an entry it has read but not yet judged, an answer it
has been given but not yet stored, while time passes and others store theirs. `Backed`
and `Fresh` say which answer of the network each of them goes back to and how old
that can be; they survive because answers given are never forgotten and time only
grows. `PlanInv` adds what a DANE check has asked so far and of which hosts, so that
none is passed over. `ResolverAssumption` keeps the kinds of names apart and types
what a zone publishes.

`GrpcServiceProofs` proves `OnePolicyPerMessage`, `PublishedPolicyRuns` and
`AnswersAreHonest` for any files, versions, edits, callers and deliveries. What makes
a gathered policy runnable is an order of its files in which each comes after those
it loads (`Sound`). `Gathering` says that the reader's walk extends such an order
though files change under it: a file is kept only after all it loads, and what it
loads is kept, still to do, or being read just above it. An evaluation goes down that
order (`Descends`): a file it is about to enter ranks below every file it is in, so
`OnStack` never holds and nothing is absent. `CallsInv` ties each evaluation to a
snapshot in `installed`, and says phase by phase what is settled of the answer.

`MessageAuthProofs` proves `TypeOK`, `AuthenticMeansSigned`, `TruncationIsFlagged`,
`UnsignedIsRejected` and `ChainIsVouched` for any domains, ways to sign, contents of
DNS, and any number of signatures, hops and edits. A signature on the message may be
older than any number of edits, so `SignaturesInv` keeps for each the letter it was
made of, and that the domain it names vouched for that letter if the key was that
domain's; `ChainInv` does so for the seals, each with the chain up to it; `VerdictInv`
ties the verdict to the message. The rest is algebra. `SignatureSound`: a verifier
that rebuilds the input of a signature sees the last From field and the beginning of
the body as the signer did, because the first "from" that h= names takes the bottom
instance and the canonical forms lose no content. `SealSound`: two seal inputs are
equal only over equal chains. That a passing signature is never counted on a message
with two From fields (`DkimVerdict`) is what makes the last From the one that is
shown. `MessageAuthAssumption` types the ways to sign and the records DNS may hold;
that nobody signs with another's key is the model's `SignAsOther`, which leaves a mark
(`NoDomain`) no verifier accepts. `FailureIsNotErased` is about a loop over the reporting
fields: `Weighs` says what its result is worth after each of them, `Stronger` that
one more field keeps that so, and `ReportsInv` that the result was computed from the
message as it is.

`OfflineCommandsProofs` proves `AnalysisIsHonest`, `FindingsInOrder` and
`EveryMessageOnce` for any scanners, analyzers, messages, mailboxes and limits.

- *Analysis.* `ScanInv` says by phase what the context may hold: nothing of clamd before
  it was asked, only the lines of the two scanners in the log before the analyzers are
  applied, one outcome per configured analyzer after that. `AppliedInOrder` turns the
  final loop into places: the results are the elements of the outcomes that are no
  errors, each where as many of them come up to it (`Those` of `Subsequences`,
  `Counting`, `ThoseAt`).
- *Findings.* Each check yields a sequence of findings with a severity
  (`DiscoveredReported`, through every loop of the checks). `SortPlaces` says where the
  insertion sort puts the element at i: at the number of those that are more severe,
  or as severe and not after it. The filter keeps this numbering (`ReportInOrder`).
- *Mailboxes.* What was met is not inductive: that the next message begins where the
  last one ended depends on what is in the buffer. `WalkInv` says where each command has
  come. `MboxSoFar`: the buffer is the text since the last From line, and all text
  before it was met. `MaildirSoFar`: what is left of the listing comes after what was
  met of this directory and has none of it, though a mail reader moves a file from new
  to cur behind the walk's back (`MaildirMet` is what stays true of a message that has
  been moved). `LimitInv`: the documents of the source in hand are those from
  `at.before` on, and fewer than the limit where the next one is taken without a look.

Loops are functions over 0..n, and what they compute is proved by induction over n. The
library's induction theorems take an operator, which the provers cannot instantiate, so
`SetInduction` and `Recursion` state the same of sets and functions and are proved from
the well-foundedness of an ordering, which the library states without operators.

Each inductive invariant was checked on the instance of its run before it was
proved (with finite sets for the quantifiers over `Nat` and over orders).

Only model-checked: `MessageIsAnswered`, `DeadSessionEnds`, `DrainEnds` and
`EditsTakeEffect`, because liveness under fairness and ENABLED are out of the prover's
reach. Every safety property of a passing run is a theorem.

## 5. Findings

1. **A refusal may be read as an acceptance** (`reply_pipeline`). Receiving,
   policy and delivery of one DATA share a deadline of five minutes that nothing
   renews, while one delivery may take several upstream commands of up to two
   minutes each. When the reply is written too late it is dropped, the loop sets
   a new deadline, and on a plaintext connection the next command is answered
   normally. A client that has sent RSET or MAIL behind its message takes that
   250 for the message.
2. **A lookup defers the message** (`host_plan`). `rbl_check`, `mx_in_rbl` and
   `domain_resolution` leave a note among the actions, which the host adapter
   takes for an action the host must advertise.

3. **A failed analysis leaves the verdict clean** (`failed_analysis`). `ThreatVerdict`
   ranks an inconclusive result above clean "so a failed or uncertain analysis cannot
   become clean", but `applyAnalyzers` writes a failure to the log only, so that
   nothing inconclusive is ranked: the others decide.

Noticed while reading. The models have the code's behaviour in each case; nothing in
the repository says it should be otherwise, so no run is about it.

- Policy: a snapshot may mix versions of different files edited during the read
  (`pkg/rules/policy.go:50`). A header added before `remove_header` of the same
  name is still added (`applyHeaderChanges` removes first).
- gRPC: an evaluation that fails is answered 451 and counted nowhere; an accepted
  message that is quarantined is not marked unless it is forwarded.
- DNS: temporary errors are cached as empty answers (`pkg/dnsx/resolver.go:206`), so
  SPF never sees a temperror from them; `LookupTLSA` and `LookupTXTAuthenticated`
  take any response code for an answer, and a truncated TLSA answer stands when the
  retry over TCP fails.
- Authentication: the first verification is kept for a later call that asks for DANE
  (`pkg/rules/verify.go:41`); a record with pct below 100 and p=quarantine is not
  softened (`pkg/authverify/dmarc.go:254`); the names of a ptr lookup are not limited
  and its argument is not expanded; a TXT record that begins with "v=spf10" is a
  permerror.
- Scanning: `processMessage` and the daemon commands begin with a virus status of
  "clean" where nothing was scanned; the comment at `clamav.go:101` says a reply is
  bounded, but the reader grows with the line.
- Mailboxes: the last message of an mbox is processed beyond `--max`
  (`process.go:179`), which `EveryMessageOnce` allows for; a message moved from new to
  cur between the two listings is missed; the daemon monitor counts (`daemon.go:204`),
  so a deletion hides a new message and an empty answer makes it start over.
- Training: `Save` truncates the model in place and ignores the errors of closing it,
  so a full disk is reported as success over a partial model (`pkg/ml/model.go:389`);
  the split may hold a whole class out.
- `SPOOF_MULTIPLE_FROM_ADDRS` says "without a Sender field", which is not looked at.

## 6. Not modelled, and the plan

The plan of modules and theorems is carried out. What could be added: the builtins that
only read the message, if a property is found that is about them, and the parsing of
DKIM and DMARC tags, which is data here.

Out of scope: parsing of RFC 5322, MIME and SMTP text, wording of replies, text
heuristics and statistics (`human.go`, `content.go`, `ai.go`, the features and scores
of `pkg/ml`: data without control), the builtins that only read the message
(`builtins_analysis.go`), cryptography, `lint.go`, generated protocol code, and the
commands that only print. Within the modelled components: TLS itself, wire framing
(`readWireLine`, `dotStuff`), the bodies of HTTP requests, the encoding of DNS
messages, DNSBL helpers, and the bookkeeping map `connections`, which nothing reads.
