---------------------------- MODULE SmtpSession ----------------------------
(***************************************************************************)
(* One client connection of the SMTP proxy and the transaction it keeps      *)
(* open with the next hop (cmd/mailscript: proxy.go, submission.go,          *)
(* upstream.go, host_adapter.go).                                           *)
(*                                                                         *)
(* The session is one goroutine: it reads a command, runs its handler to     *)
(* the end and reads the next.  A handler that waits for the client, the     *)
(* policy, the upstream server or the host adapter is split at each wait     *)
(* (variable pc), so that the client's connection may be lost there          *)
(* (ConnLost: the client hangs up, or the drain deadline closes it).         *)
(*                                                                         *)
(* What the environment decides is nondeterministic: the commands (a client  *)
(* may pipeline them without reading replies, and what the proxy has         *)
(* buffered is still executed once the connection is closed), the policy's   *)
(* actions, each reply of the upstream or the host, and the loss of a reply  *)
(* after the server has acted on the command.                               *)
(*                                                                         *)
(* Abstractions: a malformed command is answered and changes nothing, so it  *)
(* is no step; an envelope is a set of addresses with the count the limit    *)
(* looks at; a message is what the properties tell apart, the copies of the  *)
(* quarantine marker among its headers and who wrote them.                   *)
(***************************************************************************)
EXTENDS PolicyDisposition, FiniteSets

CONSTANTS
  User,           \* identities a client may submit as
  Anonymous,      \* no credentials
  Service,        \* the service account --upstream-user
  MaxRecipients,  \* recipients of one transaction (100)
  MaxTxns,        \* bound of the model: transactions the behaviour begins
  Configs,        \* the configurations the proxy may be started with
  HostActions,    \* the actions the delivery host advertises
  PolicyRuns      \* what the policy may leave behind

\* A configuration: --submission, --enable-tls, --upstream-tls other than
\* plain, --upstream-user, --forward-quarantine, --delivery-adapter; and what
\* runProxy and loadUpstreamConfig refuse to start with.
Startable(cfg) ==
  /\ cfg.submission => cfg.tls /\ cfg.upstreamTLS
  /\ cfg.serviceAccount => cfg.upstreamTLS

ASSUME ConfigAssumption ==
  /\ Configs \subseteq
       [submission : BOOLEAN, tls : BOOLEAN, upstreamTLS : BOOLEAN,
        serviceAccount : BOOLEAN, forwardQuarantine : BOOLEAN,
        hostAdapter : BOOLEAN]
  /\ \A cfg \in Configs : Startable(cfg)
  /\ "accept" \in HostActions      \* newHostAdapter

\* What a run leaves: its actions, and whether its header edits add a copy of
\* the quarantine marker.  add_header takes any name, and clear_actions takes
\* back the actions but not the edits, so neither determines the other.
ASSUME DataAssumption ==
  /\ MaxRecipients \in Nat /\ MaxTxns \in Nat
  /\ {Anonymous, Service} \intersect User = {} /\ Anonymous # Service
  /\ PolicyRuns \subseteq [actions : Seq(Actions), addsMarker : BOOLEAN]

Txns == 1..MaxTxns
Identities == User \union {Anonymous, Service}

\* Who wrote a copy of X-MailScript-Quarantine.
Marks == {"client", "policy", "proxy"}

\* Replies are told apart by the status they end in: the classes a sender
\* acts on, and 421, which also closes the client's connection.
Refusals == {"4xx", "5xx", "421"}
ClassOf(code) == IF code = 250 THEN "250" ELSE IF code < 500 THEN "4xx" ELSE "5xx"

VARIABLES
  config,         \* how the proxy was started; never changes
  \* the session
  conn,           \* the client's connection: "open" or "closed"
  pc,             \* what the session goroutine waits for
  helo,           \* a greeting has been accepted
  tlsActive,
  authUser,       \* whom the session authenticated as (Anonymous: nobody)
  mailSet,        \* a mail transaction is open
  recipients,     \* the envelope recipients, and how often RCPT appended one
  named,
  marks,          \* copies of the quarantine marker in s.data
  actions,        \* the plan the policy left
  outcome,        \* the status deliver() ended with, for the reply to DATA
  \* forwardToUpstream's loop over the recipients
  todo, rejection,
  \* the upstream server's end of the connection
  upstream,
  \* counters shared through ProxyStats
  processed, accepted, rejected,
  \* history: transactions begun, what the next hop holds of each, what the
  \* client was told of each, the plan of each, who the upstream vouched for
  txn, delivered, answer, plan, verifiedAs

sessionVars == <<conn, pc, helo, tlsActive, authUser>>
envelopeVars == <<mailSet, recipients, named, marks, actions>>
forwardVars == <<outcome, todo, rejection, upstream>>
statsVars == <<processed, accepted, rejected>>
historyVars == <<txn, delivered, answer, plan, verifiedAs>>
vars == <<config, sessionVars, envelopeVars, forwardVars, statsVars, historyVars>>

NoUpstream == [open |-> FALSE, as |-> Anonymous, rcpts |-> {}]
NoPlan == [code |-> 0, quarantine |-> FALSE, named |-> {}, actions |-> <<>>,
           addsMarker |-> FALSE]
NoDelivery == [copies |-> 0, to |-> {}, marks |-> {}, as |-> Anonymous,
               lost |-> FALSE]

Init ==
  /\ config \in Configs
  /\ conn = "open" /\ pc = "command"
  /\ helo = FALSE /\ tlsActive = FALSE /\ authUser = Anonymous
  /\ mailSet = FALSE /\ recipients = {} /\ named = 0
  /\ marks = {} /\ actions = <<>>
  /\ outcome = "none" /\ todo = {} /\ rejection = "none"
  /\ upstream = NoUpstream
  /\ processed = 0 /\ accepted = 0 /\ rejected = 0
  /\ txn = 0
  /\ delivered = [t \in Txns |-> NoDelivery]
  /\ answer = [t \in Txns |-> "none"]
  /\ plan = [t \in Txns |-> NoPlan]
  /\ verifiedAs = Anonymous

(***************************************************************************)
(* resetTransaction: also closes the upstream connection.                   *)
(***************************************************************************)
resetTransaction ==
  /\ upstream' = NoUpstream
  /\ mailSet' = FALSE /\ recipients' = {} /\ named' = 0
  /\ marks' = {} /\ actions' = <<>>
  /\ outcome' = "none" /\ todo' = {} /\ rejection' = "none"

\* upstreamFailure: a 421 from the upstream is relayed and ends the client's
\* connection, every other failure only answers.
upstreamFailure(status) == conn' = IF status = "421" THEN "closed" ELSE conn

\* The credentials connectUpstream presents.
UpstreamUser ==
  IF authUser # Anonymous THEN authUser
  ELSE IF config.serviceAccount THEN Service ELSE Anonymous

(***************************************************************************)
(* Commands that need no upstream.                                          *)
(***************************************************************************)
Hello ==
  /\ pc = "command"
  /\ resetTransaction
  /\ helo' = TRUE
  /\ UNCHANGED <<conn, pc, tlsActive, authUser, statsVars, historyVars>>

Rset ==
  /\ pc = "command"
  /\ resetTransaction
  /\ UNCHANGED <<sessionVars, statsVars, historyVars>>

StartTLS ==
  /\ pc = "command" /\ conn = "open"
  /\ config.tls /\ ~tlsActive
  /\ resetTransaction
  /\ helo' = FALSE /\ tlsActive' = TRUE /\ authUser' = Anonymous
  /\ UNCHANGED <<conn, pc, statsVars, historyVars>>

StartTLSFailed ==
  /\ pc = "command"
  /\ config.tls /\ ~tlsActive
  /\ conn' = "closed"
  /\ UNCHANGED <<pc, helo, tlsActive, authUser, envelopeVars, forwardVars,
                 statsVars, historyVars>>

(***************************************************************************)
(* AUTH sets the credentials first and asks the upstream about them next.    *)
(***************************************************************************)
Auth(u) ==
  /\ pc = "command"
  /\ config.submission /\ tlsActive /\ helo /\ ~mailSet /\ authUser = Anonymous
  /\ authUser' = u
  /\ pc' = "auth"
  /\ UNCHANGED <<conn, helo, tlsActive, envelopeVars, forwardVars,
                 statsVars, historyVars>>

AuthAccepted ==
  /\ pc = "auth"
  /\ pc' = "command"
  /\ verifiedAs' = UpstreamUser
  /\ UNCHANGED <<conn, helo, tlsActive, authUser, envelopeVars, forwardVars,
                 statsVars, txn, delivered, answer, plan>>

\* Slip: a refused client is left with the credentials it presented.
AuthRefusedKeepsCredentials ==
  /\ pc = "auth"
  /\ pc' = "command"
  /\ UNCHANGED <<conn, helo, tlsActive, authUser, envelopeVars, forwardVars,
                 statsVars, historyVars>>

\* Slip: a refused client falls back to the service account.
AuthRefusedFallsBack ==
  /\ pc = "auth"
  /\ pc' = "command"
  /\ authUser' = Service
  /\ UNCHANGED <<conn, helo, tlsActive, envelopeVars, forwardVars,
                 statsVars, historyVars>>

AuthRefused ==
  /\ pc = "auth"
  /\ pc' = "command"
  /\ authUser' = Anonymous
  /\ UNCHANGED <<conn, helo, tlsActive, envelopeVars, forwardVars,
                 statsVars, historyVars>>

(***************************************************************************)
(* MAIL opens the upstream transaction (beginUpstream).                     *)
(***************************************************************************)
MailAllowed ==
  /\ pc = "command"
  /\ helo /\ ~mailSet
  /\ config.submission => authUser # Anonymous

Mail ==
  /\ MailAllowed
  /\ txn < MaxTxns
  /\ upstream' = [open |-> TRUE, as |-> UpstreamUser, rcpts |-> {}]
  /\ mailSet' = TRUE
  /\ recipients' = {} /\ named' = 0 /\ marks' = {} /\ actions' = <<>>
  /\ txn' = txn + 1
  /\ UNCHANGED <<sessionVars, outcome, todo, rejection, statsVars,
                 delivered, answer, plan, verifiedAs>>

MailFailed ==
  /\ MailAllowed
  /\ resetTransaction
  /\ \E status \in Refusals : upstreamFailure(status)
  /\ UNCHANGED <<pc, helo, tlsActive, authUser, statsVars, historyVars>>

(***************************************************************************)
(* RCPT is relayed at once; only what the upstream accepts joins the        *)
(* envelope.  A lost reply (the upstream may or may not have accepted)       *)
(* abandons the whole transaction.                                          *)
(***************************************************************************)
WithRcpt(r) == [open |-> upstream.open, as |-> upstream.as,
                rcpts |-> upstream.rcpts \union {r}]

RcptAllowed ==
  /\ pc = "command"
  /\ mailSet
  /\ named < MaxRecipients

Rcpt(r) ==
  /\ RcptAllowed
  /\ recipients' = recipients \union {r}
  /\ named' = named + 1
  /\ upstream' = IF upstream.open THEN WithRcpt(r) ELSE upstream
  /\ UNCHANGED <<sessionVars, mailSet, marks, actions, outcome, todo, rejection,
                 statsVars, historyVars>>

\* Slip: the recipient joins the envelope before the upstream has answered.
RcptRefusedStillNamed ==
  /\ RcptAllowed /\ upstream.open
  /\ \E r \in Addr : recipients' = recipients \union {r}
  /\ named' = named + 1
  /\ UNCHANGED <<sessionVars, mailSet, marks, actions, forwardVars,
                 statsVars, historyVars>>

RcptRefused ==
  /\ RcptAllowed /\ upstream.open
  /\ \E status \in Refusals : upstreamFailure(status)
  /\ UNCHANGED <<pc, helo, tlsActive, authUser, envelopeVars, forwardVars,
                 statsVars, historyVars>>

RcptLost ==
  /\ RcptAllowed /\ upstream.open
  /\ resetTransaction
  /\ UNCHANGED <<sessionVars, statsVars, historyVars>>

(***************************************************************************)
(* DATA: 354, the message, the policy, delivery, the reply.                 *)
(***************************************************************************)
Data ==
  /\ pc = "command"
  /\ mailSet /\ recipients # {}
  /\ pc' = "reading"
  /\ UNCHANGED <<conn, helo, tlsActive, authUser, envelopeVars, forwardVars,
                 statsVars, historyVars>>

ReadMessage ==
  /\ pc = "reading"
  /\ marks' \in {{}, {"client"}}
  /\ pc' = "policy"
  /\ UNCHANGED <<conn, helo, tlsActive, authUser, mailSet, recipients, named,
                 actions, forwardVars, statsVars, historyVars>>

\* The status line that ends DATA; nobody reads it on a closed connection.
ReplyToData(status) ==
  answer' = [answer EXCEPT ![txn] = IF conn = "open" THEN status ELSE "unseen"]

\* A read error or the deadline (no reply), or bare line feeds or a message
\* over 50 MiB (550, 552).  The connection is closed in each case.
ReadFailed ==
  /\ pc = "reading"
  /\ \/ UNCHANGED answer
     \/ ReplyToData("5xx")
  /\ conn' = "closed"
  /\ pc' = "command"
  /\ resetTransaction
  /\ UNCHANGED <<helo, tlsActive, authUser, statsVars, txn, delivered, plan,
                 verifiedAs>>

\* The message is refused before delivery: counted and answered at once.
RefuseMessage(status) ==
  /\ processed' = processed + 1 /\ rejected' = rejected + 1
  /\ ReplyToData(status)
  /\ resetTransaction
  /\ pc' = "command"
  /\ UNCHANGED <<conn, helo, tlsActive, authUser, accepted, txn, delivered,
                 verifiedAs>>

\* The message does not parse (550), or the policy fails on it (451).
EvaluationFailed ==
  /\ pc = "policy"
  /\ \E status \in {"4xx", "5xx"} : RefuseMessage(status)
  /\ UNCHANGED plan

PlanOf(run) ==
  LET d == RelayDisposition(run.actions, config.forwardQuarantine, config.hostAdapter)
  IN  [code |-> d.code, quarantine |-> d.quarantine,
       named |-> recipients, actions |-> run.actions,
       addsMarker |-> run.addsMarker]

\* The copies in the message that goes on: those kept of the client's, what
\* applyHeaderChanges prepends for the policy, what handleDATA prepends.
Marked(kept, p) ==
  kept \union {m \in {"policy"} : p.addsMarker} \union {m \in {"proxy"} : p.quarantine}

PolicyRefuses(run) ==
  /\ pc = "policy"
  /\ PlanOf(run).code # 250
  /\ plan' = [plan EXCEPT ![txn] = PlanOf(run)]
  /\ RefuseMessage(ClassOf(PlanOf(run).code))

\* Slip: the client's header is not stripped.
PolicyAcceptsAnyMarker(run) ==
  /\ pc = "policy"
  /\ PlanOf(run).code = 250
  /\ plan' = [plan EXCEPT ![txn] = PlanOf(run)]
  /\ marks' = Marked(marks, PlanOf(run))
  /\ actions' = run.actions
  /\ processed' = processed + 1
  /\ pc' = "deliver"
  /\ UNCHANGED <<conn, helo, tlsActive, authUser, mailSet, recipients, named,
                 forwardVars, accepted, rejected, txn, delivered, answer,
                 verifiedAs>>

\* stripHeader leaves no copy, before the policy runs; the policy's header
\* edits and then the proxy may add theirs.
PolicyAccepts(run) ==
  /\ pc = "policy"
  /\ PlanOf(run).code = 250
  /\ plan' = [plan EXCEPT ![txn] = PlanOf(run)]
  /\ marks' = Marked({}, PlanOf(run))
  /\ actions' = run.actions
  /\ processed' = processed + 1
  /\ pc' = "deliver"
  /\ UNCHANGED <<conn, helo, tlsActive, authUser, mailSet, recipients, named,
                 forwardVars, accepted, rejected, txn, delivered, answer,
                 verifiedAs>>

(***************************************************************************)
(* deliver and forwardToUpstream.                                           *)
(***************************************************************************)
Settle(status) == outcome' = status /\ pc' = "reply"

Undelivered ==
  UNCHANGED <<conn, helo, tlsActive, authUser, mailSet, named, marks, actions,
              statsVars, historyVars>>

Targets == TargetRecipients(recipients, actions)

\* A plan that names an address SMTP cannot carry.
DeliverBadEnvelope ==
  /\ pc = "deliver" /\ ~config.hostAdapter
  /\ NoAddr \in Targets
  /\ Settle("4xx")
  /\ UNCHANGED <<recipients, todo, rejection, upstream>> /\ Undelivered

\* The open transaction is used, unless the plan rewrites the envelope.
Deliver ==
  /\ pc = "deliver" /\ ~config.hostAdapter
  /\ NoAddr \notin Targets
  /\ recipients' = Targets
  /\ upstream' = IF Rewrites(actions) THEN NoUpstream ELSE upstream
  /\ \/ upstream'.open /\ pc' = "transfer" /\ UNCHANGED <<outcome, todo>>
     \/ ~upstream'.open /\ pc' = "begin" /\ todo' = Targets /\ UNCHANGED outcome
     \/ Settle("5xx") /\ UNCHANGED todo      \* validateWireData
  /\ UNCHANGED rejection /\ Undelivered

BeginUpstream ==
  /\ pc = "begin"
  /\ upstream' = [open |-> TRUE, as |-> UpstreamUser, rcpts |-> {}]
  /\ pc' = "rcpts"
  /\ UNCHANGED <<recipients, outcome, todo, rejection>> /\ Undelivered

BeginUpstreamFailed ==
  /\ pc = "begin"
  /\ \E status \in {"4xx", "5xx"} : Settle(status)
  /\ UNCHANGED <<recipients, todo, rejection, upstream>> /\ Undelivered

ForwardRcpt(r) ==
  /\ pc = "rcpts" /\ r \in todo
  /\ todo' = todo \ {r}
  /\ upstream' = WithRcpt(r)
  /\ UNCHANGED <<pc, recipients, outcome, rejection>> /\ Undelivered

\* A temporary refusal outranks a permanent one.
ForwardRcptRefused(r) ==
  /\ pc = "rcpts" /\ r \in todo
  /\ todo' = todo \ {r}
  /\ \E status \in {"4xx", "5xx"} :
       rejection' = IF rejection \in {"none", "5xx"} \/ status = "4xx"
                    THEN status ELSE rejection
  /\ UNCHANGED <<pc, recipients, outcome, upstream>> /\ Undelivered

ForwardRcptLost ==
  /\ pc = "rcpts" /\ todo # {}
  /\ upstream' = NoUpstream
  /\ Settle("4xx")
  /\ UNCHANGED <<recipients, todo, rejection>> /\ Undelivered

\* Slip: the message goes to the recipients that were accepted.
ForwardRcptsDonePartially ==
  /\ pc = "rcpts" /\ todo = {} /\ upstream.rcpts # {}
  /\ pc' = "transfer"
  /\ UNCHANGED <<outcome, upstream>>
  /\ UNCHANGED <<recipients, todo, rejection>> /\ Undelivered

\* One outcome for all recipients: anything but unanimity gives up.
ForwardRcptsDone ==
  /\ pc = "rcpts" /\ todo = {}
  /\ \/ /\ rejection = "none"
        /\ pc' = "transfer"
        /\ UNCHANGED <<outcome, upstream>>
     \/ /\ rejection # "none"
        /\ upstream' = NoUpstream
        /\ Settle(IF upstream.rcpts # {} THEN "4xx" ELSE rejection)
  /\ UNCHANGED <<recipients, todo, rejection>> /\ Undelivered

\* DATA to the upstream.
ForwardData ==
  /\ pc = "transfer"
  /\ pc' = "body"
  /\ UNCHANGED <<recipients, forwardVars>> /\ Undelivered

\* Slip: the handler returns without a reply.
ForwardDataFailedSilently ==
  /\ pc \in {"transfer", "body"}
  /\ resetTransaction
  /\ pc' = "command"
  /\ UNCHANGED <<conn, helo, tlsActive, authUser, statsVars, historyVars>>

\* DATA refused, or the connection fails before the final dot.
ForwardDataFailed ==
  /\ pc \in {"transfer", "body"}
  /\ upstream' = NoUpstream
  /\ \E status \in {"4xx", "5xx"} : Settle(status)
  /\ UNCHANGED <<recipients, todo, rejection>> /\ Undelivered

(***************************************************************************)
(* The next hop takes the message, and its reply arrives or is lost.        *)
(***************************************************************************)
Take(to, as, lost) ==
  delivered' = [delivered EXCEPT ![txn] =
                  [copies |-> delivered[txn].copies + 1, to |-> to, marks |-> marks,
                   as |-> as, lost |-> lost]]

\* Slip: a reply that never came is taken for a permanent refusal.
ForwardDotAssumesRefusal ==
  /\ pc = "body"
  /\ upstream' = NoUpstream
  /\ \/ Take(upstream.rcpts, upstream.as, FALSE) /\ Settle("250")
     \/ Take(upstream.rcpts, upstream.as, TRUE) /\ Settle("5xx")
  /\ UNCHANGED <<conn, helo, tlsActive, authUser, envelopeVars, todo, rejection,
                 statsVars, txn, answer, plan, verifiedAs>>

ForwardDot ==
  /\ pc = "body"
  /\ upstream' = NoUpstream
  /\ \/ Take(upstream.rcpts, upstream.as, FALSE) /\ Settle("250")
     \/ Take(upstream.rcpts, upstream.as, TRUE) /\ Settle("4xx")
  /\ UNCHANGED <<conn, helo, tlsActive, authUser, envelopeVars, todo, rejection,
                 statsVars, txn, answer, plan, verifiedAs>>

\* hostAdapter.deliver: the transaction with the upstream is given up first.
DeliverToHost ==
  /\ pc = "deliver" /\ config.hostAdapter
  /\ upstream' = NoUpstream
  /\ \/ HostUnderstands(actions, HostActions) /\ pc' = "host" /\ UNCHANGED outcome
     \/ ~HostUnderstands(actions, HostActions) /\ Settle("4xx")
  /\ UNCHANGED <<recipients, todo, rejection>> /\ Undelivered

HostTakes ==
  /\ pc = "host"
  /\ \/ Take(recipients, Anonymous, FALSE) /\ Settle("250")
     \/ Take(recipients, Anonymous, TRUE) /\ Settle("4xx")
  /\ UNCHANGED <<conn, helo, tlsActive, authUser, envelopeVars, todo, rejection,
                 upstream, statsVars, txn, answer, plan, verifiedAs>>

HostRefuses ==
  /\ pc = "host"
  /\ \E status \in {"4xx", "5xx"} : Settle(status)
  /\ UNCHANGED <<recipients, todo, rejection, upstream>> /\ Undelivered

\* Slip: a message the next hop did not take is counted nowhere.
ReplyUncounted ==
  /\ pc = "reply"
  /\ accepted' = accepted + (IF outcome = "250" THEN 1 ELSE 0)
  /\ ReplyToData(outcome)
  /\ resetTransaction
  /\ pc' = "command"
  /\ UNCHANGED <<conn, helo, tlsActive, authUser, processed, rejected, txn,
                 delivered, plan, verifiedAs>>

(***************************************************************************)
(* The end of handleDATA once deliver has returned.                         *)
(***************************************************************************)
Reply ==
  /\ pc = "reply"
  /\ IF outcome = "250"
     THEN accepted' = accepted + 1 /\ UNCHANGED rejected
     ELSE rejected' = rejected + 1 /\ UNCHANGED accepted
  /\ ReplyToData(outcome)
  /\ resetTransaction
  /\ pc' = "command"
  /\ UNCHANGED <<conn, helo, tlsActive, authUser, processed, txn, delivered,
                 plan, verifiedAs>>

(***************************************************************************)
(* The connection.                                                          *)
(***************************************************************************)
ConnLost ==
  /\ pc # "ended"
  /\ conn' = "closed"
  /\ UNCHANGED <<pc, helo, tlsActive, authUser, envelopeVars, forwardVars,
                 statsVars, historyVars>>

\* Slip: nothing closes the upstream connection of an abandoned transaction.
EndSessionLeaksUpstream ==
  /\ pc = "command"
  /\ pc' = "ended"
  /\ conn' = "closed"
  /\ UNCHANGED <<helo, tlsActive, authUser, envelopeVars, forwardVars, statsVars,
                 historyVars>>

\* QUIT, end of input, the five-minute deadline, or a closed connection.
EndSession ==
  /\ pc = "command"
  /\ pc' = "ended"
  /\ conn' = "closed"
  /\ resetTransaction
  /\ UNCHANGED <<helo, tlsActive, authUser, statsVars, historyVars>>

NewSession ==
  /\ pc = "ended"
  /\ pc' = "command" /\ conn' = "open"
  /\ helo' = FALSE /\ tlsActive' = FALSE /\ authUser' = Anonymous
  /\ verifiedAs' = Anonymous
  /\ UNCHANGED <<envelopeVars, forwardVars, statsVars, txn, delivered, answer,
                 plan>>

Client ==
  /\ UNCHANGED config
  /\ \/ Hello \/ Rset \/ StartTLS \/ StartTLSFailed
     \/ \E u \in User : Auth(u)
     \/ Mail \/ MailFailed
     \/ \E r \in Addr : Rcpt(r)
     \/ RcptRefused \/ RcptLost
     \/ Data

Handler ==
  /\ UNCHANGED config
  /\ \/ AuthAccepted \/ AuthRefused
     \/ ReadMessage \/ ReadFailed
     \/ EvaluationFailed
     \/ \E run \in PolicyRuns : PolicyRefuses(run) \/ PolicyAccepts(run)
     \/ DeliverBadEnvelope \/ Deliver
     \/ BeginUpstream \/ BeginUpstreamFailed
     \/ \E r \in Addr : ForwardRcpt(r) \/ ForwardRcptRefused(r)
     \/ ForwardRcptLost \/ ForwardRcptsDone
     \/ ForwardData \/ ForwardDataFailed \/ ForwardDot
     \/ DeliverToHost \/ HostTakes \/ HostRefuses
     \/ Reply

Connection == UNCHANGED config /\ (ConnLost \/ EndSession \/ NewSession)

Next == Client \/ Handler \/ Connection

\* Each wait of a handler has a deadline: five minutes on the client, two
\* minutes on each upstream command, thirty seconds on the host, the engine's
\* time limit on the policy.  What is left in the session's read buffer when
\* its connection is closed is finite, so its loop reaches the read error.
Fairness ==
  /\ WF_vars(Handler)
  /\ SF_vars(conn = "closed" /\ EndSession /\ UNCHANGED config)

Spec == Init /\ [][Next]_vars

FairSpec == Spec /\ Fairness
-----------------------------------------------------------------------------
(***************************************************************************)
(* Properties                                                               *)
(***************************************************************************)
Statuses == {"250", "4xx", "5xx"}
InDelivery == {"deliver", "begin", "rcpts", "transfer", "body", "host", "reply"}
PCs == {"command", "auth", "reading", "policy", "ended"} \union InDelivery

SessionType ==
  /\ config \in Configs
  /\ conn \in {"open", "closed"} /\ pc \in PCs
  /\ helo \in BOOLEAN /\ tlsActive \in BOOLEAN
  /\ authUser \in User \union {Anonymous}
  /\ verifiedAs \in Identities

EnvelopeType ==
  /\ mailSet \in BOOLEAN /\ recipients \in SUBSET Addr /\ named \in Nat
  /\ marks \in SUBSET Marks /\ actions \in Seq(Actions)

ForwardType ==
  /\ outcome \in Statuses \union {"none"}
  /\ todo \in SUBSET Addr /\ rejection \in {"none", "4xx", "5xx"}
  /\ upstream \in [open : BOOLEAN, as : Identities, rcpts : SUBSET Addr]

StatsType == processed \in Nat /\ accepted \in Nat /\ rejected \in Nat

Deliveries == [copies : Nat, to : SUBSET Addr, marks : SUBSET Marks, as : Identities,
               lost : BOOLEAN]
Plans == [code : Nat, quarantine : BOOLEAN, named : SUBSET Addr,
          actions : Seq(Actions), addsMarker : BOOLEAN]

HistoryType ==
  /\ txn \in 0..MaxTxns
  /\ delivered \in [Txns -> Deliveries]
  /\ answer \in [Txns -> Statuses \union {"none", "unseen"}]
  /\ plan \in [Txns -> Plans]

\* The type invariant.
TypeOK == SessionType /\ EnvelopeType /\ ForwardType /\ StatsType /\ HistoryType

(***************************************************************************)
(* The envelope the proxy has acknowledged to the client is, recipient for   *)
(* recipient, the envelope the upstream server has accepted in the           *)
(* transaction that will carry the message; without a mail transaction no    *)
(* upstream transaction is left open (upstream.go:17-18).                    *)
(***************************************************************************)
EnvelopeInSync ==
  /\ pc \in {"command", "reading", "policy"} /\ mailSet =>
       upstream.open /\ upstream.rcpts = recipients
  /\ ~mailSet => ~upstream.open

(***************************************************************************)
(* What the next hop holds of a transaction is one copy, to exactly the      *)
(* recipients its policy plan calls for (never some of them), and only if    *)
(* the plan lets the message through (deliver, forwardToUpstream).           *)
(***************************************************************************)
DeliveredAsPlanned ==
  \A t \in Txns : delivered[t].copies > 0 =>
    /\ delivered[t].copies = 1
    /\ plan[t].code = 250
    /\ delivered[t].to = IF config.hostAdapter THEN plan[t].named
                         ELSE TargetRecipients(plan[t].named, plan[t].actions)

(***************************************************************************)
(* No client's copy of the private marker reaches the next hop; the proxy's  *)
(* own does exactly when it quarantined that message (proxy.go:640-644).     *)
(* The policy's header edits come after the strip: they may add a copy,      *)
(* quarantine or not, and a message carries one only if its own policy run   *)
(* added it.                                                                *)
(***************************************************************************)
MarkedAsPlanned(copies, p) ==
  /\ "client" \notin copies
  /\ "proxy" \in copies <=> p.quarantine
  /\ "policy" \in copies <=> p.addsMarker

MarkerIsOurs ==
  \A t \in Txns : delivered[t].copies > 0 =>
    MarkedAsPlanned(delivered[t].marks, plan[t])

(***************************************************************************)
(* In submission mode nothing is opened or delivered upstream except under   *)
(* the identity this client proved to the upstream over TLS: not             *)
(* anonymously, not as the service account, not as a user the upstream       *)
(* refused (handleAUTH sets the credentials before it has asked).            *)
(***************************************************************************)
SubmissionIdentity ==
  config.submission =>
    /\ upstream.open => tlsActive /\ upstream.as \in User
                           /\ upstream.as = verifiedAs
    /\ pc = "command" /\ authUser # Anonymous => authUser = verifiedAs
    /\ \A t \in Txns : delivered[t].copies > 0 /\ ~config.hostAdapter =>
         delivered[t].as \in User

(***************************************************************************)
(* The counters of GetStats agree with what happened: a message processed    *)
(* is accepted, rejected or in delivery, and the accepted ones are those the *)
(* next hop acknowledged (handleDATA's three separate critical sections).    *)
(***************************************************************************)
StatsTruthful ==
  /\ processed = accepted + rejected + (IF pc \in InDelivery THEN 1 ELSE 0)
  /\ accepted + (IF pc = "reply" /\ outcome = "250" THEN 1 ELSE 0) =
       Cardinality({t \in Txns : delivered[t].copies > 0 /\ ~delivered[t].lost})

(***************************************************************************)
(* Responsibility for a message passes from the sender to the next hop as    *)
(* RelayContract says (proxy.go:606).                                        *)
(***************************************************************************)
Custody == [t \in Txns |-> IF delivered[t].copies = 0 THEN "no"
                           ELSE IF delivered[t].lost THEN "unsure" ELSE "yes"]

Contract == INSTANCE RelayContract WITH begun <- txn, taken <- Custody

ImplementsContract == Contract!Spec

\* The contract's safety, as an invariant of this module.
HonestAnswers == Contract!Honest

\* A message the client has sent in full is answered (handleDATA's reply), or
\* its connection is gone.
MessageIsAnswered ==
  \A t \in Txns : pc = "policy" /\ txn = t ~> answer[t] # "none"

\* A session whose connection is closed ends, and with it its hold on the
\* upstream server (handleSMTPConnection's deferred closeUpstream).
DeadSessionEnds ==
  conn = "closed" ~> pc = "ended" /\ ~upstream.open
-----------------------------------------------------------------------------
(***************************************************************************)
(* The inductive invariant behind the safety properties: where the session   *)
(* goroutine stands determines what the current transaction has done so far. *)
(***************************************************************************)

\* The transaction in hand is the newest and unanswered; later ones are blank.
TxnInv ==
  /\ pc \in {"reading", "policy"} \union InDelivery => mailSet
  /\ pc \in {"auth", "ended"} => ~mailSet
  /\ mailSet => txn \in Txns /\ answer[txn] = "none"
  /\ mailSet /\ pc # "reply" => delivered[txn].copies = 0
  /\ \A t \in Txns : t > txn => delivered[t].copies = 0 /\ answer[t] = "none"

\* What deliver() works on is what the plan asked for.
PlanInv ==
  pc \in InDelivery =>
    /\ plan[txn].code = 250
    /\ plan[txn].actions = actions
    /\ MarkedAsPlanned(marks, plan[txn])
    /\ pc \in {"deliver", "host"} => recipients = plan[txn].named
    /\ pc \in {"begin", "rcpts", "transfer", "body"} =>
         /\ ~config.hostAdapter
         /\ recipients = TargetRecipients(plan[txn].named, plan[txn].actions)
    /\ pc = "host" => config.hostAdapter

\* The upstream's envelope while forwardToUpstream builds and uses it.
ForwardInv ==
  /\ EnvelopeInSync
  /\ pc \notin {"rcpts", "reply"} => rejection = "none"
  /\ pc = "deliver" => upstream.open /\ upstream.rcpts = recipients
  /\ pc = "begin" => todo = recipients
  /\ pc = "rcpts" => /\ upstream.open
                     /\ rejection = "none" =>
                          upstream.rcpts \union todo = recipients
  /\ pc \in {"transfer", "body"} => upstream.open /\ upstream.rcpts = recipients

\* deliver()'s result says what the next hop has done.
OutcomeInv ==
  pc = "reply" =>
    /\ outcome \in Statuses
    /\ outcome = "250" => delivered[txn].copies = 1 /\ ~delivered[txn].lost
    /\ outcome = "5xx" => delivered[txn].copies = 0
    /\ outcome = "4xx" => delivered[txn].copies = 0 \/ delivered[txn].lost

\* Between commands a session is authenticated as whom the upstream vouched for.
AuthInv ==
  config.submission =>
    /\ mailSet => authUser # Anonymous
    /\ authUser # Anonymous => tlsActive
    /\ authUser # Anonymous /\ pc \notin {"auth", "ended"} => authUser = verifiedAs
    /\ upstream.open => upstream.as = authUser

\* What the next hop holds in submission mode came under a client's name.
SenderInv ==
  config.submission /\ ~config.hostAdapter =>
    \A t \in Txns : delivered[t].copies > 0 => delivered[t].as \in User

IInv ==
  /\ TypeOK /\ TxnInv /\ PlanInv /\ ForwardInv /\ OutcomeInv /\ AuthInv
  /\ SenderInv /\ DeliveredAsPlanned /\ MarkerIsOurs /\ HonestAnswers
=============================================================================
