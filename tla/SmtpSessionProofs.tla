------------------------- MODULE SmtpSessionProofs -------------------------
(***************************************************************************)
(* The safety of SmtpSession, for every value of its constants.              *)
(*                                                                         *)
(* IInv is shown inductive conjunct by conjunct, one lemma each, one step    *)
(* per action.  The order of the conjuncts is the order of the argument:     *)
(* the bookkeeping of the transaction (TxnInv), what deliver() works on      *)
(* (PlanInv), the upstream's envelope (ForwardInv), what deliver() reports   *)
(* (OutcomeInv), and from them the properties.                               *)
(***************************************************************************)
EXTENDS SmtpSession, FiniteSetTheorems, TLAPS

(***************************************************************************)
(* Types.                                                                   *)
(***************************************************************************)
\* Whatever actions the policy leaves, the delivery code arrives at a status
\* and a quarantine flag.
LEMMA DispositionType ==
  ASSUME NEW run, NEW fq \in BOOLEAN, NEW host \in BOOLEAN
  PROVE  RelayDisposition(run, fq, host) \in [code : Nat, quarantine : BOOLEAN]
<1>1. ASSUME NEW x PROVE BlockCode(x) \in Nat
  BY DEF BlockCode
<1>2. policyDisposition(run, fq \/ host) \in [code : Nat, quarantine : BOOLEAN]
  BY <1>1 DEF policyDisposition
<1> QED
  BY <1>2 DEF RelayDisposition

\* The status refused messages are answered with is one a client can act on.
LEMMA ClassType == ASSUME NEW code PROVE ClassOf(code) \in Statuses
  BY DEF ClassOf, Statuses

LEMMA PlanType ==
  ASSUME TypeOK, NEW run \in PolicyRuns
  PROVE  PlanOf(run) \in Plans
<1>1. config.forwardQuarantine \in BOOLEAN /\ config.hostAdapter \in BOOLEAN
  BY ConfigAssumption DEF TypeOK, SessionType
<1>2. RelayDisposition(run.actions, config.forwardQuarantine, config.hostAdapter)
        \in [code : Nat, quarantine : BOOLEAN]
  BY <1>1, DispositionType
<1>3. run.actions \in Seq(Actions) /\ run.addsMarker \in BOOLEAN
  BY DataAssumption
<1> QED
  BY <1>2, <1>3 DEF PlanOf, Plans, TypeOK, EnvelopeType

\* The recipients of a plan are addresses SMTP can carry unless it names one
\* that is not.
LEMMA TargetsType ==
  ASSUME TypeOK, NoAddr \notin Targets
  PROVE  Targets \in SUBSET Addr
<1>1. ASSUME NEW i \in DOMAIN actions PROVE actions[i].to \in Addr \union {NoAddr}
  <2>1. actions[i] \in Actions
    BY <1>1 DEF TypeOK, EnvelopeType
  <2> QED
    BY <2>1 DEF Actions
<1>2. \A verbs : AddressesOf(actions, verbs) \subseteq Addr \union {NoAddr}
  BY <1>1 DEF AddressesOf
<1>3. Targets \subseteq Addr \union {NoAddr}
  BY <1>2 DEF Targets, TargetRecipients, TypeOK, EnvelopeType
<1> QED
  BY <1>3
-----------------------------------------------------------------------------
(***************************************************************************)
(* Type correctness.                                                        *)
(***************************************************************************)
UpstreamType == [open : BOOLEAN, as : Identities, rcpts : SUBSET Addr]

LEMMA NoUpstreamType == NoUpstream \in UpstreamType
  BY DEF NoUpstream, UpstreamType, Identities

LEMMA UpstreamUserType == ASSUME TypeOK PROVE UpstreamUser \in Identities
  BY DEF TypeOK, SessionType, UpstreamUser, Identities

LEMMA OpenType ==
  ASSUME TypeOK
  PROVE  [open |-> TRUE, as |-> UpstreamUser, rcpts |-> {}] \in UpstreamType
  BY UpstreamUserType DEF UpstreamType

LEMMA WithRcptType ==
  ASSUME TypeOK, NEW r \in Addr PROVE WithRcpt(r) \in UpstreamType
  BY DEF TypeOK, ForwardType, UpstreamType, WithRcpt

LEMMA NoActionsType == <<>> \in Seq(Actions)
  OBVIOUS

\* The answer a client is given is a status or goes unseen.
LEMMA AnswerType ==
  ASSUME TypeOK, NEW status \in Statuses \union {"none"}, ReplyToData(status)
  PROVE  answer' \in [Txns -> Statuses \union {"none", "unseen"}]
<1>1. (IF conn = "open" THEN status ELSE "unseen") \in Statuses \union {"none", "unseen"}
  OBVIOUS
<1> QED
  BY <1>1 DEF ReplyToData, TypeOK, HistoryType

\* The strip, the policy and the proxy leave copies that have an author.
LEMMA MarkedType == ASSUME NEW p PROVE Marked({}, p) \in SUBSET Marks
  BY DEF Marked, Marks

\* The history of plans after the policy has settled on one.
LEMMA PlanNoted ==
  ASSUME TypeOK, NEW run \in PolicyRuns,
         plan' = [plan EXCEPT ![txn] = PlanOf(run)]
  PROVE  plan' \in [Txns -> Plans]
  BY PlanType DEF TypeOK, HistoryType

\* Closing a transaction leaves the blank envelope.
LEMMA ResetType == resetTransaction => EnvelopeType' /\ ForwardType'
<1> SUFFICES ASSUME resetTransaction PROVE EnvelopeType' /\ ForwardType'
  OBVIOUS
<1>1. EnvelopeType'
  BY NoActionsType DEF resetTransaction, EnvelopeType, Marks
<1>2. ForwardType'
  BY NoUpstreamType DEF resetTransaction, ForwardType, UpstreamType, Statuses
<1> QED
  BY <1>1, <1>2

\* What the next hop is recorded to hold is a delivery.
LEMMA TakeType ==
  ASSUME TypeOK, NEW to \in SUBSET Addr, NEW as \in Identities,
         NEW lost \in BOOLEAN, Take(to, as, lost)
  PROVE  delivered' \in [Txns -> Deliveries]
<1>1. ASSUME txn \in Txns
      PROVE  [copies |-> delivered[txn].copies + 1, to |-> to, marks |-> marks,
              as |-> as, lost |-> lost] \in Deliveries
  <2>1. delivered[txn] \in Deliveries
    BY <1>1 DEF TypeOK, HistoryType
  <2>2. delivered[txn].copies + 1 \in Nat
    BY <2>1 DEF Deliveries
  <2>3. marks \in SUBSET Marks
    BY DEF TypeOK, EnvelopeType
  <2> QED
    BY <2>2, <2>3 DEF Deliveries
<1>2. delivered \in [Txns -> Deliveries]
  BY DEF TypeOK, HistoryType
<1> QED
  BY <1>1, <1>2 DEF Take

LEMMA TransferType ==
  ASSUME TypeOK, ForwardDot \/ HostTakes
  PROVE  delivered' \in [Txns -> Deliveries]
<1>1. upstream.rcpts \in SUBSET Addr /\ upstream.as \in Identities
  BY DEF TypeOK, ForwardType
<1>2. recipients \in SUBSET Addr /\ Anonymous \in Identities
  BY DEF TypeOK, EnvelopeType, Identities
<1>3. CASE ForwardDot
  BY <1>1, <1>3, TakeType DEF ForwardDot
<1>4. CASE HostTakes
  BY <1>2, <1>4, TakeType DEF HostTakes
<1> QED
  BY <1>3, <1>4

\* Every step keeps the variables in their types.
LEMMA TypeStep == TypeOK /\ [Next]_vars => TypeOK'
<1> SUFFICES ASSUME TypeOK, [Next]_vars PROVE TypeOK'
  OBVIOUS
<1> USE DataAssumption
<1> USE DEF TypeOK, SessionType, EnvelopeType, ForwardType, StatsType, HistoryType,
            UpstreamType, Identities, Marks, PCs, InDelivery, Statuses,
            sessionVars, envelopeVars, forwardVars, statsVars, historyVars
<1>1. ASSUME UNCHANGED config, Hello PROVE TypeOK'
  BY <1>1, ResetType DEF Hello
<1>2. ASSUME UNCHANGED config, Rset PROVE TypeOK'
  BY <1>2, ResetType DEF Rset
<1>3. ASSUME UNCHANGED config, StartTLS PROVE TypeOK'
  BY <1>3, ResetType DEF StartTLS
<1>4. ASSUME UNCHANGED config, StartTLSFailed PROVE TypeOK'
  BY <1>4 DEF StartTLSFailed
<1>5. ASSUME NEW u \in User, UNCHANGED config, Auth(u) PROVE TypeOK'
  BY <1>5 DEF Auth
<1>6. ASSUME UNCHANGED config, Mail PROVE TypeOK'
  BY <1>6, OpenType DEF Mail, MailAllowed
<1>7. ASSUME UNCHANGED config, MailFailed PROVE TypeOK'
  BY <1>7, ResetType DEF MailFailed, MailAllowed, upstreamFailure, Refusals
<1>8. ASSUME NEW r \in Addr, UNCHANGED config, Rcpt(r) PROVE TypeOK'
  BY <1>8, WithRcptType DEF Rcpt, RcptAllowed
<1>9. ASSUME UNCHANGED config, RcptRefused PROVE TypeOK'
  BY <1>9 DEF RcptRefused, RcptAllowed, upstreamFailure, Refusals
<1>10. ASSUME UNCHANGED config, RcptLost PROVE TypeOK'
  BY <1>10, ResetType DEF RcptLost, RcptAllowed
<1>11. ASSUME UNCHANGED config, Data PROVE TypeOK'
  BY <1>11 DEF Data
<1>12. ASSUME UNCHANGED config, AuthAccepted PROVE TypeOK'
  BY <1>12, UpstreamUserType DEF AuthAccepted
<1>13. ASSUME UNCHANGED config, AuthRefused PROVE TypeOK'
  BY <1>13 DEF AuthRefused
<1>14. ASSUME UNCHANGED config, ReadMessage PROVE TypeOK'
  BY <1>14 DEF ReadMessage
<1>15. ASSUME UNCHANGED config, ReadFailed PROVE TypeOK'
  <2>1. answer' \in [Txns -> Statuses \union {"none", "unseen"}]
    BY <1>15, AnswerType DEF ReadFailed
  <2> QED
    BY <1>15, <2>1, ResetType DEF ReadFailed
<1>16. ASSUME UNCHANGED config, EvaluationFailed PROVE TypeOK'
  <2>1. answer' \in [Txns -> Statuses \union {"none", "unseen"}]
    BY <1>16, AnswerType DEF EvaluationFailed, RefuseMessage
  <2> QED
    BY <1>16, <2>1, ResetType DEF EvaluationFailed, RefuseMessage
<1>17. ASSUME NEW run \in PolicyRuns, UNCHANGED config, PolicyRefuses(run) PROVE TypeOK'
  <2>1. answer' \in [Txns -> Statuses \union {"none", "unseen"}]
    BY <1>17, AnswerType, ClassType DEF PolicyRefuses, RefuseMessage
  <2>2. plan' \in [Txns -> Plans]
    BY <1>17, PlanNoted DEF PolicyRefuses
  <2> QED
    BY <1>17, <2>1, <2>2, ResetType DEF PolicyRefuses, RefuseMessage
<1>18. ASSUME NEW run \in PolicyRuns, UNCHANGED config, PolicyAccepts(run) PROVE TypeOK'
  <2>1. plan' \in [Txns -> Plans]
    BY <1>18, PlanNoted DEF PolicyAccepts
  <2>2. marks' \in SUBSET Marks /\ actions' \in Seq(Actions)
    BY <1>18, MarkedType DEF PolicyAccepts
  <2>3. pc' \in PCs /\ processed' \in Nat
    BY <1>18 DEF PolicyAccepts
  <2> QED
    BY <1>18, <2>1, <2>2, <2>3 DEF PolicyAccepts
<1>19. ASSUME UNCHANGED config, DeliverBadEnvelope PROVE TypeOK'
  BY <1>19 DEF DeliverBadEnvelope, Settle, Undelivered
<1>20. ASSUME UNCHANGED config, Deliver PROVE TypeOK'
  BY <1>20, TargetsType, NoUpstreamType DEF Deliver, Settle, Undelivered
<1>21. ASSUME UNCHANGED config, BeginUpstream PROVE TypeOK'
  BY <1>21, OpenType DEF BeginUpstream, Undelivered
<1>22. ASSUME UNCHANGED config, BeginUpstreamFailed PROVE TypeOK'
  BY <1>22 DEF BeginUpstreamFailed, Settle, Undelivered
<1>23. ASSUME NEW r \in Addr, UNCHANGED config, ForwardRcpt(r) PROVE TypeOK'
  BY <1>23, WithRcptType DEF ForwardRcpt, Undelivered
<1>24. ASSUME NEW r \in Addr, UNCHANGED config, ForwardRcptRefused(r) PROVE TypeOK'
  BY <1>24 DEF ForwardRcptRefused, Undelivered
<1>25. ASSUME UNCHANGED config, ForwardRcptLost PROVE TypeOK'
  BY <1>25, NoUpstreamType DEF ForwardRcptLost, Settle, Undelivered
<1>26. ASSUME UNCHANGED config, ForwardRcptsDone PROVE TypeOK'
  BY <1>26, NoUpstreamType DEF ForwardRcptsDone, Settle, Undelivered
<1>27. ASSUME UNCHANGED config, ForwardData PROVE TypeOK'
  BY <1>27 DEF ForwardData, Undelivered
<1>28. ASSUME UNCHANGED config, ForwardDataFailed PROVE TypeOK'
  BY <1>28, NoUpstreamType DEF ForwardDataFailed, Settle, Undelivered
<1>29. ASSUME UNCHANGED config, ForwardDot PROVE TypeOK'
  <2>1. delivered' \in [Txns -> Deliveries]
    BY <1>29, TransferType
  <2>2. outcome' \in Statuses /\ pc' = "reply"
    BY <1>29 DEF ForwardDot, Settle
  <2> QED
    BY <1>29, <2>1, <2>2, NoUpstreamType DEF ForwardDot
<1>30. ASSUME UNCHANGED config, DeliverToHost PROVE TypeOK'
  BY <1>30, NoUpstreamType DEF DeliverToHost, Settle, Undelivered
<1>31. ASSUME UNCHANGED config, HostTakes PROVE TypeOK'
  <2>1. delivered' \in [Txns -> Deliveries]
    BY <1>31, TransferType
  <2>2. outcome' \in Statuses /\ pc' = "reply"
    BY <1>31 DEF HostTakes, Settle
  <2> QED
    BY <1>31, <2>1, <2>2 DEF HostTakes
<1>32. ASSUME UNCHANGED config, HostRefuses PROVE TypeOK'
  BY <1>32 DEF HostRefuses, Settle, Undelivered
<1>33. ASSUME UNCHANGED config, Reply PROVE TypeOK'
  <2>1. answer' \in [Txns -> Statuses \union {"none", "unseen"}]
    BY <1>33, AnswerType DEF Reply
  <2> QED
    BY <1>33, <2>1, ResetType DEF Reply
<1>34. ASSUME UNCHANGED config, ConnLost PROVE TypeOK'
  BY <1>34 DEF ConnLost
<1>35. ASSUME UNCHANGED config, EndSession PROVE TypeOK'
  BY <1>35, ResetType DEF EndSession
<1>36. ASSUME UNCHANGED config, NewSession PROVE TypeOK'
  BY <1>36 DEF NewSession
<1>37. CASE UNCHANGED vars
  BY <1>37 DEF vars
<1> QED
  BY <1>1, <1>2, <1>3, <1>4, <1>5, <1>6, <1>7, <1>8, <1>9, <1>10, <1>11,
     <1>12, <1>13, <1>14, <1>15, <1>16, <1>17, <1>18, <1>19, <1>20, <1>21,
     <1>22, <1>23, <1>24, <1>25, <1>26, <1>27, <1>28, <1>29, <1>30, <1>31,
     <1>32, <1>33, <1>34, <1>35, <1>36, <1>37
     DEF Next, Client, Handler, Connection

LEMMA InitType == Init => TypeOK
<1> SUFFICES ASSUME Init PROVE TypeOK
  OBVIOUS
<1>1. SessionType
  BY DEF Init, SessionType, PCs, Identities
<1>2. EnvelopeType
  BY NoActionsType DEF Init, EnvelopeType, Marks
<1>3. ForwardType
  BY NoUpstreamType DEF Init, ForwardType, UpstreamType, Statuses
<1>4. StatsType
  BY DEF Init, StatsType
<1>5. HistoryType
  <2>1. NoDelivery \in Deliveries
    BY DEF NoDelivery, Deliveries, Marks, Identities
  <2>2. NoPlan \in Plans
    BY NoActionsType DEF NoPlan, Plans
  <2> QED
    BY <2>1, <2>2, DataAssumption DEF Init, HistoryType, Statuses
<1> QED
  BY <1>1, <1>2, <1>3, <1>4, <1>5 DEF TypeOK

\* Every variable keeps its type, whatever the client, the policy, the upstream
\* and the host do.
THEOREM TypeCorrect == Spec => []TypeOK
  BY InitType, TypeStep, PTL DEF Spec

(***************************************************************************)
(* Safety.                                                                  *)
(***************************************************************************)
\* Only the transaction in hand is answered, and only it is delivered.
LEMMA OneAnswer ==
  ASSUME TypeOK, txn \in Txns, NEW status, ReplyToData(status)
  PROVE  /\ answer'[txn] = IF conn = "open" THEN status ELSE "unseen"
         /\ \A t \in Txns : t # txn => answer'[t] = answer[t]
  BY DEF ReplyToData, TypeOK, HistoryType

\* What the next hop holds after a transfer.
LEMMA Transferred ==
  ASSUME TypeOK, TxnInv, ForwardDot \/ HostTakes
  PROVE  /\ txn \in Txns
         /\ delivered'[txn].copies = 1
         /\ delivered'[txn].to = IF pc = "body" THEN upstream.rcpts ELSE recipients
         /\ delivered'[txn].as = IF pc = "body" THEN upstream.as ELSE Anonymous
         /\ delivered'[txn].marks = marks
         /\ outcome' \in {"250", "4xx"}
         /\ outcome' = "250" <=> ~delivered'[txn].lost
         /\ \A t \in Txns : t # txn => delivered'[t] = delivered[t]
<1>1. /\ txn \in Txns /\ delivered[txn].copies = 0
      /\ delivered \in [Txns -> Deliveries]
  BY DEF TxnInv, InDelivery, ForwardDot, HostTakes, TypeOK, HistoryType
<1>2. CASE ForwardDot
  <2>1. CASE Take(upstream.rcpts, upstream.as, FALSE) /\ Settle("250")
    <3>1. delivered' = [delivered EXCEPT ![txn] =
                         [copies |-> delivered[txn].copies + 1, to |-> upstream.rcpts,
                          marks |-> marks, as |-> upstream.as, lost |-> FALSE]]
      BY <2>1 DEF Take
    <3>2. delivered'[txn] = [copies |-> delivered[txn].copies + 1, to |-> upstream.rcpts,
                            marks |-> marks, as |-> upstream.as, lost |-> FALSE]
      BY <1>1, <3>1
    <3>3. \A t \in Txns : t # txn => delivered'[t] = delivered[t]
      BY <1>1, <3>1
    <3>4. delivered'[txn].lost = FALSE
      BY <3>2
    <3>5. outcome' = "250" /\ pc = "body"
      BY <1>2, <2>1 DEF ForwardDot, Settle
    <3> QED
      BY <1>1, <3>2, <3>3, <3>4, <3>5
  <2>2. CASE Take(upstream.rcpts, upstream.as, TRUE) /\ Settle("4xx")
    <3>1. delivered' = [delivered EXCEPT ![txn] =
                         [copies |-> delivered[txn].copies + 1, to |-> upstream.rcpts,
                          marks |-> marks, as |-> upstream.as, lost |-> TRUE]]
      BY <2>2 DEF Take
    <3>2. delivered'[txn] = [copies |-> delivered[txn].copies + 1, to |-> upstream.rcpts,
                            marks |-> marks, as |-> upstream.as, lost |-> TRUE]
      BY <1>1, <3>1
    <3>3. \A t \in Txns : t # txn => delivered'[t] = delivered[t]
      BY <1>1, <3>1
    <3>4. delivered'[txn].lost = TRUE
      BY <3>2
    <3>5. outcome' = "4xx" /\ pc = "body"
      BY <1>2, <2>2 DEF ForwardDot, Settle
    <3> QED
      BY <1>1, <3>2, <3>3, <3>4, <3>5
  <2> QED
    BY <1>2, <2>1, <2>2 DEF ForwardDot
<1>3. CASE HostTakes
  <2>1. CASE Take(recipients, Anonymous, FALSE) /\ Settle("250")
    <3>1. delivered' = [delivered EXCEPT ![txn] =
                         [copies |-> delivered[txn].copies + 1, to |-> recipients,
                          marks |-> marks, as |-> Anonymous, lost |-> FALSE]]
      BY <2>1 DEF Take
    <3>2. delivered'[txn] = [copies |-> delivered[txn].copies + 1, to |-> recipients,
                            marks |-> marks, as |-> Anonymous, lost |-> FALSE]
      BY <1>1, <3>1
    <3>3. \A t \in Txns : t # txn => delivered'[t] = delivered[t]
      BY <1>1, <3>1
    <3>4. delivered'[txn].lost = FALSE
      BY <3>2
    <3>5. outcome' = "250" /\ pc = "host"
      BY <1>3, <2>1 DEF HostTakes, Settle
    <3> QED
      BY <1>1, <3>2, <3>3, <3>4, <3>5
  <2>2. CASE Take(recipients, Anonymous, TRUE) /\ Settle("4xx")
    <3>1. delivered' = [delivered EXCEPT ![txn] =
                         [copies |-> delivered[txn].copies + 1, to |-> recipients,
                          marks |-> marks, as |-> Anonymous, lost |-> TRUE]]
      BY <2>2 DEF Take
    <3>2. delivered'[txn] = [copies |-> delivered[txn].copies + 1, to |-> recipients,
                            marks |-> marks, as |-> Anonymous, lost |-> TRUE]
      BY <1>1, <3>1
    <3>3. \A t \in Txns : t # txn => delivered'[t] = delivered[t]
      BY <1>1, <3>1
    <3>4. delivered'[txn].lost = TRUE
      BY <3>2
    <3>5. outcome' = "4xx" /\ pc = "host"
      BY <1>3, <2>2 DEF HostTakes, Settle
    <3> QED
      BY <1>1, <3>2, <3>3, <3>4, <3>5
  <2> QED
    BY <1>3, <2>1, <2>2 DEF HostTakes
<1> QED
  BY <1>2, <1>3

\* A plan without rewriting leaves the envelope as it is.
LEMMA TargetsKept ==
  ASSUME ~Rewrites(actions)
  PROVE  Targets = recipients
<1>1. \A i \in DOMAIN actions : actions[i].verb \notin ReplaceVerbs \union CopyVerbs
  BY DEF Rewrites, AddressesOf
<1>2. AddressesOf(actions, ReplaceVerbs) = {} /\ AddressesOf(actions, CopyVerbs) = {}
  BY <1>1 DEF AddressesOf
<1> QED
  BY <1>2 DEF Targets, TargetRecipients

\* The policy's verdict is noted as the plan of the transaction in hand.
LEMMA OnePlan ==
  ASSUME TypeOK, txn \in Txns, NEW run \in PolicyRuns,
         plan' = [plan EXCEPT ![txn] = PlanOf(run)]
  PROVE  /\ plan'[txn] = PlanOf(run)
         /\ \A t \in Txns : t # txn => plan'[t] = plan[t]
  BY DEF TypeOK, HistoryType

LEMMA PlanOfFields ==
  ASSUME NEW run
  PROVE  PlanOf(run).named = recipients /\ PlanOf(run).actions = run.actions
  BY DEF PlanOf

\* The copies a message goes on with, once the client's are gone, are the plan's.
LEMMA StripThenMark == ASSUME NEW p PROVE MarkedAsPlanned(Marked({}, p), p)
  BY DEF MarkedAsPlanned, Marked
LEMMA SubmissionFollows ==
  ASSUME TypeOK, TxnInv, ForwardInv, AuthInv, SenderInv
  PROVE  SubmissionIdentity
<1> SUFFICES ASSUME config.submission PROVE SubmissionIdentity
  BY DEF SubmissionIdentity
<1>1. ASSUME upstream.open
      PROVE  tlsActive /\ upstream.as \in User /\ upstream.as = verifiedAs
  <2>1. mailSet
    BY <1>1 DEF ForwardInv, EnvelopeInSync
  <2>2. authUser # Anonymous /\ pc \notin {"auth", "ended"}
    BY <2>1 DEF AuthInv, TxnInv
  <2> QED
    BY <1>1, <2>2 DEF AuthInv, TypeOK, SessionType
<1>2. pc = "command" /\ authUser # Anonymous => authUser = verifiedAs
  BY DEF AuthInv
<1>3. \A t \in Txns : delivered[t].copies > 0 /\ ~config.hostAdapter =>
        delivered[t].as \in User
  BY DEF SenderInv
<1> QED
  BY <1>1, <1>2, <1>3 DEF SubmissionIdentity
-----------------------------------------------------------------------------
(***************************************************************************)
(* The inductive invariant, conjunct by conjunct.                           *)
(***************************************************************************)
\* The bookkeeping of the transaction in hand is kept by every step.
LEMMA TxnStep == TypeOK /\ TxnInv /\ [Next]_vars => TxnInv'
<1> SUFFICES ASSUME TypeOK, TxnInv, [Next]_vars PROVE TxnInv'
  OBVIOUS
<1> USE DEF TxnInv, InDelivery, sessionVars, envelopeVars, forwardVars, statsVars, historyVars
<1>1. ASSUME UNCHANGED config, Hello PROVE TxnInv'
  BY <1>1 DEF Hello, resetTransaction
<1>2. ASSUME UNCHANGED config, Rset PROVE TxnInv'
  BY <1>2 DEF Rset, resetTransaction
<1>3. ASSUME UNCHANGED config, StartTLS PROVE TxnInv'
  BY <1>3 DEF StartTLS, resetTransaction
<1>4. ASSUME UNCHANGED config, StartTLSFailed PROVE TxnInv'
  BY <1>4 DEF StartTLSFailed
<1>5. ASSUME NEW u \in User, UNCHANGED config, Auth(u) PROVE TxnInv'
  BY <1>5 DEF Auth
<1>6. ASSUME UNCHANGED config, Mail PROVE TxnInv'
  <2>1. txn' = txn + 1 /\ txn \in 0..MaxTxns /\ txn < MaxTxns /\ mailSet'
    BY <1>6 DEF Mail, TypeOK, HistoryType
  <2>2. txn' \in Txns /\ \A t \in Txns : t > txn' => t > txn
    BY <2>1, DataAssumption DEF Txns
  <2>3. delivered'[txn'].copies = 0 /\ answer'[txn'] = "none"
    BY <1>6, <2>1, <2>2, DataAssumption DEF Mail, Txns
  <2> QED
    BY <1>6, <2>1, <2>2, <2>3 DEF Mail, MailAllowed
<1>7. ASSUME UNCHANGED config, MailFailed PROVE TxnInv'
  BY <1>7 DEF MailFailed, MailAllowed, resetTransaction, upstreamFailure
<1>8. ASSUME NEW r \in Addr, UNCHANGED config, Rcpt(r) PROVE TxnInv'
  BY <1>8 DEF Rcpt, RcptAllowed, WithRcpt
<1>9. ASSUME UNCHANGED config, RcptRefused PROVE TxnInv'
  BY <1>9 DEF RcptRefused, RcptAllowed, upstreamFailure
<1>10. ASSUME UNCHANGED config, RcptLost PROVE TxnInv'
  BY <1>10 DEF RcptLost, RcptAllowed, resetTransaction
<1>11. ASSUME UNCHANGED config, Data PROVE TxnInv'
  BY <1>11 DEF Data
<1>12. ASSUME UNCHANGED config, AuthAccepted PROVE TxnInv'
  BY <1>12 DEF AuthAccepted
<1>13. ASSUME UNCHANGED config, AuthRefused PROVE TxnInv'
  BY <1>13 DEF AuthRefused
<1>14. ASSUME UNCHANGED config, ReadMessage PROVE TxnInv'
  BY <1>14 DEF ReadMessage
<1>15. ASSUME UNCHANGED config, ReadFailed PROVE TxnInv'
  <2>1. \A t \in Txns : t # txn => answer'[t] = answer[t]
    BY <1>15, OneAnswer DEF ReadFailed
  <2> QED
    BY <1>15, <2>1, DataAssumption DEF ReadFailed, resetTransaction, Txns, TypeOK, HistoryType
<1>16. ASSUME UNCHANGED config, EvaluationFailed PROVE TxnInv'
  BY <1>16 DEF EvaluationFailed, RefuseMessage, resetTransaction, ReplyToData
<1>17. ASSUME NEW run \in PolicyRuns, UNCHANGED config, PolicyRefuses(run) PROVE TxnInv'
  <2>1. RefuseMessage(ClassOf(PlanOf(run).code)) /\ pc = "policy"
    BY <1>17 DEF PolicyRefuses
  <2> QED
    BY <2>1 DEF RefuseMessage, resetTransaction, ReplyToData
<1>18. ASSUME NEW run \in PolicyRuns, UNCHANGED config, PolicyAccepts(run) PROVE TxnInv'
  BY <1>18 DEF PolicyAccepts
<1>19. ASSUME UNCHANGED config, DeliverBadEnvelope PROVE TxnInv'
  BY <1>19 DEF DeliverBadEnvelope, Settle, Undelivered
<1>20. ASSUME UNCHANGED config, Deliver PROVE TxnInv'
  BY <1>20 DEF Deliver, Settle, Undelivered
<1>21. ASSUME UNCHANGED config, BeginUpstream PROVE TxnInv'
  BY <1>21 DEF BeginUpstream, Undelivered
<1>22. ASSUME UNCHANGED config, BeginUpstreamFailed PROVE TxnInv'
  BY <1>22 DEF BeginUpstreamFailed, Settle, Undelivered
<1>23. ASSUME NEW r \in Addr, UNCHANGED config, ForwardRcpt(r) PROVE TxnInv'
  BY <1>23 DEF ForwardRcpt, WithRcpt, Undelivered
<1>24. ASSUME NEW r \in Addr, UNCHANGED config, ForwardRcptRefused(r) PROVE TxnInv'
  BY <1>24 DEF ForwardRcptRefused, Undelivered
<1>25. ASSUME UNCHANGED config, ForwardRcptLost PROVE TxnInv'
  BY <1>25 DEF ForwardRcptLost, Settle, Undelivered
<1>26. ASSUME UNCHANGED config, ForwardRcptsDone PROVE TxnInv'
  BY <1>26 DEF ForwardRcptsDone, Settle, Undelivered
<1>27. ASSUME UNCHANGED config, ForwardData PROVE TxnInv'
  BY <1>27 DEF ForwardData, Undelivered
<1>28. ASSUME UNCHANGED config, ForwardDataFailed PROVE TxnInv'
  BY <1>28 DEF ForwardDataFailed, Settle, Undelivered
<1>29. ASSUME UNCHANGED config, ForwardDot PROVE TxnInv'
  <2>1. \A t \in Txns : t > txn => delivered'[t] = delivered[t]
    BY <1>29, Transferred DEF Txns
  <2> QED
    BY <1>29, <2>1 DEF ForwardDot, Settle
<1>30. ASSUME UNCHANGED config, DeliverToHost PROVE TxnInv'
  BY <1>30 DEF DeliverToHost, Settle, Undelivered
<1>31. ASSUME UNCHANGED config, HostTakes PROVE TxnInv'
  <2>1. \A t \in Txns : t > txn => delivered'[t] = delivered[t]
    BY <1>31, Transferred DEF Txns
  <2> QED
    BY <1>31, <2>1 DEF HostTakes, Settle
<1>32. ASSUME UNCHANGED config, HostRefuses PROVE TxnInv'
  BY <1>32 DEF HostRefuses, Settle, Undelivered
<1>33. ASSUME UNCHANGED config, Reply PROVE TxnInv'
  <2>1. \A t \in Txns : t > txn => answer'[t] = answer[t]
    BY <1>33, OneAnswer DEF Reply, Txns
  <2> QED
    BY <1>33, <2>1 DEF Reply, resetTransaction
<1>34. ASSUME UNCHANGED config, ConnLost PROVE TxnInv'
  BY <1>34 DEF ConnLost
<1>35. ASSUME UNCHANGED config, EndSession PROVE TxnInv'
  BY <1>35 DEF EndSession, resetTransaction
<1>36. ASSUME UNCHANGED config, NewSession PROVE TxnInv'
  BY <1>36 DEF NewSession
<1>37. CASE UNCHANGED vars
  BY <1>37 DEF vars
<1> QED
  BY <1>1, <1>2, <1>3, <1>4, <1>5, <1>6, <1>7, <1>8, <1>9, <1>10, <1>11,
     <1>12, <1>13, <1>14, <1>15, <1>16, <1>17, <1>18, <1>19, <1>20, <1>21,
     <1>22, <1>23, <1>24, <1>25, <1>26, <1>27, <1>28, <1>29, <1>30, <1>31,
     <1>32, <1>33, <1>34, <1>35, <1>36, <1>37
     DEF Next, Client, Handler, Connection

\* What deliver() works on stays what the plan asked for.
LEMMA PlanStep == TypeOK /\ TxnInv /\ PlanInv /\ [Next]_vars => PlanInv'
<1> SUFFICES ASSUME TypeOK, TxnInv, PlanInv, [Next]_vars PROVE PlanInv'
  OBVIOUS
<1> USE DEF PlanInv, TxnInv, InDelivery, sessionVars, envelopeVars, forwardVars, statsVars, historyVars
<1>1. ASSUME UNCHANGED config, Hello PROVE PlanInv'
  BY <1>1 DEF Hello, resetTransaction
<1>2. ASSUME UNCHANGED config, Rset PROVE PlanInv'
  BY <1>2 DEF Rset, resetTransaction
<1>3. ASSUME UNCHANGED config, StartTLS PROVE PlanInv'
  BY <1>3 DEF StartTLS, resetTransaction
<1>4. ASSUME UNCHANGED config, StartTLSFailed PROVE PlanInv'
  BY <1>4 DEF StartTLSFailed
<1>5. ASSUME NEW u \in User, UNCHANGED config, Auth(u) PROVE PlanInv'
  BY <1>5 DEF Auth
<1>6. ASSUME UNCHANGED config, Mail PROVE PlanInv'
  BY <1>6 DEF Mail, MailAllowed
<1>7. ASSUME UNCHANGED config, MailFailed PROVE PlanInv'
  BY <1>7 DEF MailFailed, MailAllowed, resetTransaction, upstreamFailure
<1>8. ASSUME NEW r \in Addr, UNCHANGED config, Rcpt(r) PROVE PlanInv'
  BY <1>8 DEF Rcpt, RcptAllowed, WithRcpt
<1>9. ASSUME UNCHANGED config, RcptRefused PROVE PlanInv'
  BY <1>9 DEF RcptRefused, RcptAllowed, upstreamFailure
<1>10. ASSUME UNCHANGED config, RcptLost PROVE PlanInv'
  BY <1>10 DEF RcptLost, RcptAllowed, resetTransaction
<1>11. ASSUME UNCHANGED config, Data PROVE PlanInv'
  BY <1>11 DEF Data
<1>12. ASSUME UNCHANGED config, AuthAccepted PROVE PlanInv'
  BY <1>12 DEF AuthAccepted
<1>13. ASSUME UNCHANGED config, AuthRefused PROVE PlanInv'
  BY <1>13 DEF AuthRefused
<1>14. ASSUME UNCHANGED config, ReadMessage PROVE PlanInv'
  BY <1>14 DEF ReadMessage
<1>15. ASSUME UNCHANGED config, ReadFailed PROVE PlanInv'
  BY <1>15 DEF ReadFailed, resetTransaction, ReplyToData
<1>16. ASSUME UNCHANGED config, EvaluationFailed PROVE PlanInv'
  BY <1>16 DEF EvaluationFailed, RefuseMessage, resetTransaction, ReplyToData
<1>17. ASSUME NEW run \in PolicyRuns, UNCHANGED config, PolicyRefuses(run) PROVE PlanInv'
  BY <1>17 DEF PolicyRefuses, RefuseMessage
<1>18. ASSUME NEW run \in PolicyRuns, UNCHANGED config, PolicyAccepts(run) PROVE PlanInv'
  <2>1. txn \in Txns
    BY <1>18 DEF PolicyAccepts
  <2>2. plan'[txn] = PlanOf(run)
    BY <1>18, <2>1, OnePlan DEF PolicyAccepts
  <2>3. MarkedAsPlanned(marks', plan'[txn])
    BY <1>18, <2>2, StripThenMark DEF PolicyAccepts
  <2> QED
    BY <1>18, <2>2, <2>3, PlanOfFields DEF PolicyAccepts
<1>19. ASSUME UNCHANGED config, DeliverBadEnvelope PROVE PlanInv'
  BY <1>19 DEF DeliverBadEnvelope, Settle, Undelivered
<1>20. ASSUME UNCHANGED config, Deliver PROVE PlanInv'
  BY <1>20 DEF Deliver, Settle, Undelivered, Targets
<1>21. ASSUME UNCHANGED config, BeginUpstream PROVE PlanInv'
  BY <1>21 DEF BeginUpstream, Undelivered
<1>22. ASSUME UNCHANGED config, BeginUpstreamFailed PROVE PlanInv'
  BY <1>22 DEF BeginUpstreamFailed, Settle, Undelivered
<1>23. ASSUME NEW r \in Addr, UNCHANGED config, ForwardRcpt(r) PROVE PlanInv'
  BY <1>23 DEF ForwardRcpt, WithRcpt, Undelivered
<1>24. ASSUME NEW r \in Addr, UNCHANGED config, ForwardRcptRefused(r) PROVE PlanInv'
  BY <1>24 DEF ForwardRcptRefused, Undelivered
<1>25. ASSUME UNCHANGED config, ForwardRcptLost PROVE PlanInv'
  BY <1>25 DEF ForwardRcptLost, Settle, Undelivered
<1>26. ASSUME UNCHANGED config, ForwardRcptsDone PROVE PlanInv'
  BY <1>26 DEF ForwardRcptsDone, Settle, Undelivered
<1>27. ASSUME UNCHANGED config, ForwardData PROVE PlanInv'
  BY <1>27 DEF ForwardData, Undelivered
<1>28. ASSUME UNCHANGED config, ForwardDataFailed PROVE PlanInv'
  BY <1>28 DEF ForwardDataFailed, Settle, Undelivered
<1>29. ASSUME UNCHANGED config, ForwardDot PROVE PlanInv'
  BY <1>29 DEF ForwardDot, Take, Settle
<1>30. ASSUME UNCHANGED config, DeliverToHost PROVE PlanInv'
  BY <1>30 DEF DeliverToHost, Settle, Undelivered
<1>31. ASSUME UNCHANGED config, HostTakes PROVE PlanInv'
  BY <1>31 DEF HostTakes, Take, Settle
<1>32. ASSUME UNCHANGED config, HostRefuses PROVE PlanInv'
  BY <1>32 DEF HostRefuses, Settle, Undelivered
<1>33. ASSUME UNCHANGED config, Reply PROVE PlanInv'
  BY <1>33 DEF Reply, resetTransaction, ReplyToData
<1>34. ASSUME UNCHANGED config, ConnLost PROVE PlanInv'
  BY <1>34 DEF ConnLost
<1>35. ASSUME UNCHANGED config, EndSession PROVE PlanInv'
  BY <1>35 DEF EndSession, resetTransaction
<1>36. ASSUME UNCHANGED config, NewSession PROVE PlanInv'
  BY <1>36 DEF NewSession
<1>37. CASE UNCHANGED vars
  BY <1>37 DEF vars
<1> QED
  BY <1>1, <1>2, <1>3, <1>4, <1>5, <1>6, <1>7, <1>8, <1>9, <1>10, <1>11,
     <1>12, <1>13, <1>14, <1>15, <1>16, <1>17, <1>18, <1>19, <1>20, <1>21,
     <1>22, <1>23, <1>24, <1>25, <1>26, <1>27, <1>28, <1>29, <1>30, <1>31,
     <1>32, <1>33, <1>34, <1>35, <1>36, <1>37
     DEF Next, Client, Handler, Connection

\* The upstream's envelope stays in step with the recipients it is for.
LEMMA ForwardStep == TypeOK /\ TxnInv /\ PlanInv /\ ForwardInv /\ [Next]_vars => ForwardInv'
<1> SUFFICES ASSUME TypeOK, TxnInv, PlanInv, ForwardInv, [Next]_vars PROVE ForwardInv'
  OBVIOUS
<1> USE DEF ForwardInv, EnvelopeInSync, TxnInv, InDelivery, NoUpstream, sessionVars, envelopeVars, forwardVars, statsVars, historyVars
<1>1. ASSUME UNCHANGED config, Hello PROVE ForwardInv'
  BY <1>1 DEF Hello, resetTransaction
<1>2. ASSUME UNCHANGED config, Rset PROVE ForwardInv'
  BY <1>2 DEF Rset, resetTransaction
<1>3. ASSUME UNCHANGED config, StartTLS PROVE ForwardInv'
  BY <1>3 DEF StartTLS, resetTransaction
<1>4. ASSUME UNCHANGED config, StartTLSFailed PROVE ForwardInv'
  BY <1>4 DEF StartTLSFailed
<1>5. ASSUME NEW u \in User, UNCHANGED config, Auth(u) PROVE ForwardInv'
  BY <1>5 DEF Auth
<1>6. ASSUME UNCHANGED config, Mail PROVE ForwardInv'
  BY <1>6 DEF Mail, MailAllowed
<1>7. ASSUME UNCHANGED config, MailFailed PROVE ForwardInv'
  BY <1>7 DEF MailFailed, MailAllowed, resetTransaction, upstreamFailure
<1>8. ASSUME NEW r \in Addr, UNCHANGED config, Rcpt(r) PROVE ForwardInv'
  BY <1>8 DEF Rcpt, RcptAllowed, WithRcpt
<1>9. ASSUME UNCHANGED config, RcptRefused PROVE ForwardInv'
  BY <1>9 DEF RcptRefused, RcptAllowed, upstreamFailure
<1>10. ASSUME UNCHANGED config, RcptLost PROVE ForwardInv'
  BY <1>10 DEF RcptLost, RcptAllowed, resetTransaction
<1>11. ASSUME UNCHANGED config, Data PROVE ForwardInv'
  BY <1>11 DEF Data
<1>12. ASSUME UNCHANGED config, AuthAccepted PROVE ForwardInv'
  BY <1>12 DEF AuthAccepted
<1>13. ASSUME UNCHANGED config, AuthRefused PROVE ForwardInv'
  BY <1>13 DEF AuthRefused
<1>14. ASSUME UNCHANGED config, ReadMessage PROVE ForwardInv'
  BY <1>14 DEF ReadMessage
<1>15. ASSUME UNCHANGED config, ReadFailed PROVE ForwardInv'
  BY <1>15 DEF ReadFailed, resetTransaction, ReplyToData
<1>16. ASSUME UNCHANGED config, EvaluationFailed PROVE ForwardInv'
  BY <1>16 DEF EvaluationFailed, RefuseMessage, resetTransaction, ReplyToData
<1>17. ASSUME NEW run \in PolicyRuns, UNCHANGED config, PolicyRefuses(run) PROVE ForwardInv'
  BY <1>17 DEF PolicyRefuses, RefuseMessage, resetTransaction, ReplyToData
<1>18. ASSUME NEW run \in PolicyRuns, UNCHANGED config, PolicyAccepts(run) PROVE ForwardInv'
  BY <1>18 DEF PolicyAccepts
<1>19. ASSUME UNCHANGED config, DeliverBadEnvelope PROVE ForwardInv'
  BY <1>19 DEF DeliverBadEnvelope, Settle, Undelivered
<1>20. ASSUME UNCHANGED config, Deliver PROVE ForwardInv'
  BY <1>20, TargetsKept DEF Deliver, Settle, Undelivered
<1>21. ASSUME UNCHANGED config, BeginUpstream PROVE ForwardInv'
  BY <1>21 DEF BeginUpstream, Undelivered
<1>22. ASSUME UNCHANGED config, BeginUpstreamFailed PROVE ForwardInv'
  BY <1>22 DEF BeginUpstreamFailed, Settle, Undelivered
<1>23. ASSUME NEW r \in Addr, UNCHANGED config, ForwardRcpt(r) PROVE ForwardInv'
  BY <1>23 DEF ForwardRcpt, WithRcpt, Undelivered
<1>24. ASSUME NEW r \in Addr, UNCHANGED config, ForwardRcptRefused(r) PROVE ForwardInv'
  BY <1>24 DEF ForwardRcptRefused, Undelivered
<1>25. ASSUME UNCHANGED config, ForwardRcptLost PROVE ForwardInv'
  BY <1>25 DEF ForwardRcptLost, Settle, Undelivered
<1>26. ASSUME UNCHANGED config, ForwardRcptsDone PROVE ForwardInv'
  BY <1>26 DEF ForwardRcptsDone, Settle, Undelivered
<1>27. ASSUME UNCHANGED config, ForwardData PROVE ForwardInv'
  BY <1>27 DEF ForwardData, Undelivered
<1>28. ASSUME UNCHANGED config, ForwardDataFailed PROVE ForwardInv'
  BY <1>28 DEF ForwardDataFailed, Settle, Undelivered
<1>29. ASSUME UNCHANGED config, ForwardDot PROVE ForwardInv'
  BY <1>29 DEF ForwardDot, Take, Settle
<1>30. ASSUME UNCHANGED config, DeliverToHost PROVE ForwardInv'
  BY <1>30 DEF DeliverToHost, Settle, Undelivered
<1>31. ASSUME UNCHANGED config, HostTakes PROVE ForwardInv'
  BY <1>31 DEF HostTakes, Take, Settle
<1>32. ASSUME UNCHANGED config, HostRefuses PROVE ForwardInv'
  BY <1>32 DEF HostRefuses, Settle, Undelivered
<1>33. ASSUME UNCHANGED config, Reply PROVE ForwardInv'
  BY <1>33 DEF Reply, resetTransaction, ReplyToData
<1>34. ASSUME UNCHANGED config, ConnLost PROVE ForwardInv'
  BY <1>34 DEF ConnLost
<1>35. ASSUME UNCHANGED config, EndSession PROVE ForwardInv'
  BY <1>35 DEF EndSession, resetTransaction
<1>36. ASSUME UNCHANGED config, NewSession PROVE ForwardInv'
  BY <1>36 DEF NewSession
<1>37. CASE UNCHANGED vars
  BY <1>37 DEF vars
<1> QED
  BY <1>1, <1>2, <1>3, <1>4, <1>5, <1>6, <1>7, <1>8, <1>9, <1>10, <1>11,
     <1>12, <1>13, <1>14, <1>15, <1>16, <1>17, <1>18, <1>19, <1>20, <1>21,
     <1>22, <1>23, <1>24, <1>25, <1>26, <1>27, <1>28, <1>29, <1>30, <1>31,
     <1>32, <1>33, <1>34, <1>35, <1>36, <1>37
     DEF Next, Client, Handler, Connection

\* deliver()'s result keeps saying what the next hop has done.
LEMMA OutcomeStep == TypeOK /\ TxnInv /\ OutcomeInv /\ [Next]_vars => OutcomeInv'
<1> SUFFICES ASSUME TypeOK, TxnInv, OutcomeInv, [Next]_vars PROVE OutcomeInv'
  OBVIOUS
<1> USE DEF OutcomeInv, TxnInv, InDelivery, Statuses, sessionVars, envelopeVars, forwardVars, statsVars, historyVars
<1>1. ASSUME UNCHANGED config, Hello PROVE OutcomeInv'
  BY <1>1 DEF Hello, resetTransaction
<1>2. ASSUME UNCHANGED config, Rset PROVE OutcomeInv'
  BY <1>2 DEF Rset, resetTransaction
<1>3. ASSUME UNCHANGED config, StartTLS PROVE OutcomeInv'
  BY <1>3 DEF StartTLS, resetTransaction
<1>4. ASSUME UNCHANGED config, StartTLSFailed PROVE OutcomeInv'
  BY <1>4 DEF StartTLSFailed
<1>5. ASSUME NEW u \in User, UNCHANGED config, Auth(u) PROVE OutcomeInv'
  BY <1>5 DEF Auth
<1>6. ASSUME UNCHANGED config, Mail PROVE OutcomeInv'
  BY <1>6 DEF Mail, MailAllowed
<1>7. ASSUME UNCHANGED config, MailFailed PROVE OutcomeInv'
  BY <1>7 DEF MailFailed, MailAllowed, resetTransaction, upstreamFailure
<1>8. ASSUME NEW r \in Addr, UNCHANGED config, Rcpt(r) PROVE OutcomeInv'
  BY <1>8 DEF Rcpt, RcptAllowed, WithRcpt
<1>9. ASSUME UNCHANGED config, RcptRefused PROVE OutcomeInv'
  BY <1>9 DEF RcptRefused, RcptAllowed, upstreamFailure
<1>10. ASSUME UNCHANGED config, RcptLost PROVE OutcomeInv'
  BY <1>10 DEF RcptLost, RcptAllowed, resetTransaction
<1>11. ASSUME UNCHANGED config, Data PROVE OutcomeInv'
  BY <1>11 DEF Data
<1>12. ASSUME UNCHANGED config, AuthAccepted PROVE OutcomeInv'
  BY <1>12 DEF AuthAccepted
<1>13. ASSUME UNCHANGED config, AuthRefused PROVE OutcomeInv'
  BY <1>13 DEF AuthRefused
<1>14. ASSUME UNCHANGED config, ReadMessage PROVE OutcomeInv'
  BY <1>14 DEF ReadMessage
<1>15. ASSUME UNCHANGED config, ReadFailed PROVE OutcomeInv'
  BY <1>15 DEF ReadFailed, resetTransaction, ReplyToData
<1>16. ASSUME UNCHANGED config, EvaluationFailed PROVE OutcomeInv'
  BY <1>16 DEF EvaluationFailed, RefuseMessage, resetTransaction, ReplyToData
<1>17. ASSUME NEW run \in PolicyRuns, UNCHANGED config, PolicyRefuses(run) PROVE OutcomeInv'
  BY <1>17 DEF PolicyRefuses, RefuseMessage, resetTransaction, ReplyToData
<1>18. ASSUME NEW run \in PolicyRuns, UNCHANGED config, PolicyAccepts(run) PROVE OutcomeInv'
  BY <1>18 DEF PolicyAccepts
<1>19. ASSUME UNCHANGED config, DeliverBadEnvelope PROVE OutcomeInv'
  BY <1>19 DEF DeliverBadEnvelope, Settle, Undelivered
<1>20. ASSUME UNCHANGED config, Deliver PROVE OutcomeInv'
  BY <1>20 DEF Deliver, Settle, Undelivered
<1>21. ASSUME UNCHANGED config, BeginUpstream PROVE OutcomeInv'
  BY <1>21 DEF BeginUpstream, Undelivered
<1>22. ASSUME UNCHANGED config, BeginUpstreamFailed PROVE OutcomeInv'
  BY <1>22 DEF BeginUpstreamFailed, Settle, Undelivered
<1>23. ASSUME NEW r \in Addr, UNCHANGED config, ForwardRcpt(r) PROVE OutcomeInv'
  BY <1>23 DEF ForwardRcpt, WithRcpt, Undelivered
<1>24. ASSUME NEW r \in Addr, UNCHANGED config, ForwardRcptRefused(r) PROVE OutcomeInv'
  BY <1>24 DEF ForwardRcptRefused, Undelivered
<1>25. ASSUME UNCHANGED config, ForwardRcptLost PROVE OutcomeInv'
  BY <1>25 DEF ForwardRcptLost, Settle, Undelivered
<1>26. ASSUME UNCHANGED config, ForwardRcptsDone PROVE OutcomeInv'
  BY <1>26 DEF ForwardRcptsDone, Settle, Undelivered, TypeOK, ForwardType
<1>27. ASSUME UNCHANGED config, ForwardData PROVE OutcomeInv'
  BY <1>27 DEF ForwardData, Undelivered
<1>28. ASSUME UNCHANGED config, ForwardDataFailed PROVE OutcomeInv'
  BY <1>28 DEF ForwardDataFailed, Settle, Undelivered
<1>29. ASSUME UNCHANGED config, ForwardDot PROVE OutcomeInv'
  BY <1>29, Transferred DEF ForwardDot, Settle
<1>30. ASSUME UNCHANGED config, DeliverToHost PROVE OutcomeInv'
  BY <1>30 DEF DeliverToHost, Settle, Undelivered
<1>31. ASSUME UNCHANGED config, HostTakes PROVE OutcomeInv'
  BY <1>31, Transferred DEF HostTakes, Settle
<1>32. ASSUME UNCHANGED config, HostRefuses PROVE OutcomeInv'
  BY <1>32 DEF HostRefuses, Settle, Undelivered
<1>33. ASSUME UNCHANGED config, Reply PROVE OutcomeInv'
  BY <1>33 DEF Reply, resetTransaction, ReplyToData
<1>34. ASSUME UNCHANGED config, ConnLost PROVE OutcomeInv'
  BY <1>34 DEF ConnLost
<1>35. ASSUME UNCHANGED config, EndSession PROVE OutcomeInv'
  BY <1>35 DEF EndSession, resetTransaction
<1>36. ASSUME UNCHANGED config, NewSession PROVE OutcomeInv'
  BY <1>36 DEF NewSession
<1>37. CASE UNCHANGED vars
  BY <1>37 DEF vars
<1> QED
  BY <1>1, <1>2, <1>3, <1>4, <1>5, <1>6, <1>7, <1>8, <1>9, <1>10, <1>11,
     <1>12, <1>13, <1>14, <1>15, <1>16, <1>17, <1>18, <1>19, <1>20, <1>21,
     <1>22, <1>23, <1>24, <1>25, <1>26, <1>27, <1>28, <1>29, <1>30, <1>31,
     <1>32, <1>33, <1>34, <1>35, <1>36, <1>37
     DEF Next, Client, Handler, Connection

\* Between commands the session stays authenticated as whom the upstream vouched for.
LEMMA AuthStep == TypeOK /\ TxnInv /\ AuthInv /\ EnvelopeInSync /\ [Next]_vars => AuthInv'
<1> SUFFICES ASSUME TypeOK, TxnInv, AuthInv, EnvelopeInSync, [Next]_vars PROVE AuthInv'
  OBVIOUS
<1> USE DEF AuthInv, TxnInv, EnvelopeInSync, InDelivery, NoUpstream, UpstreamUser, sessionVars, envelopeVars, forwardVars, statsVars, historyVars
<1>1. ASSUME UNCHANGED config, Hello PROVE AuthInv'
  BY <1>1 DEF Hello, resetTransaction
<1>2. ASSUME UNCHANGED config, Rset PROVE AuthInv'
  BY <1>2 DEF Rset, resetTransaction
<1>3. ASSUME UNCHANGED config, StartTLS PROVE AuthInv'
  BY <1>3 DEF StartTLS, resetTransaction
<1>4. ASSUME UNCHANGED config, StartTLSFailed PROVE AuthInv'
  BY <1>4 DEF StartTLSFailed
<1>5. ASSUME NEW u \in User, UNCHANGED config, Auth(u) PROVE AuthInv'
  BY <1>5 DEF Auth
<1>6. ASSUME UNCHANGED config, Mail PROVE AuthInv'
  BY <1>6 DEF Mail, MailAllowed
<1>7. ASSUME UNCHANGED config, MailFailed PROVE AuthInv'
  BY <1>7 DEF MailFailed, MailAllowed, resetTransaction, upstreamFailure
<1>8. ASSUME NEW r \in Addr, UNCHANGED config, Rcpt(r) PROVE AuthInv'
  BY <1>8 DEF Rcpt, RcptAllowed, WithRcpt
<1>9. ASSUME UNCHANGED config, RcptRefused PROVE AuthInv'
  BY <1>9 DEF RcptRefused, RcptAllowed, upstreamFailure
<1>10. ASSUME UNCHANGED config, RcptLost PROVE AuthInv'
  BY <1>10 DEF RcptLost, RcptAllowed, resetTransaction
<1>11. ASSUME UNCHANGED config, Data PROVE AuthInv'
  BY <1>11 DEF Data
<1>12. ASSUME UNCHANGED config, AuthAccepted PROVE AuthInv'
  BY <1>12 DEF AuthAccepted
<1>13. ASSUME UNCHANGED config, AuthRefused PROVE AuthInv'
  BY <1>13 DEF AuthRefused
<1>14. ASSUME UNCHANGED config, ReadMessage PROVE AuthInv'
  BY <1>14 DEF ReadMessage
<1>15. ASSUME UNCHANGED config, ReadFailed PROVE AuthInv'
  BY <1>15 DEF ReadFailed, resetTransaction, ReplyToData
<1>16. ASSUME UNCHANGED config, EvaluationFailed PROVE AuthInv'
  BY <1>16 DEF EvaluationFailed, RefuseMessage, resetTransaction, ReplyToData
<1>17. ASSUME NEW run \in PolicyRuns, UNCHANGED config, PolicyRefuses(run) PROVE AuthInv'
  BY <1>17 DEF PolicyRefuses, RefuseMessage, resetTransaction, ReplyToData
<1>18. ASSUME NEW run \in PolicyRuns, UNCHANGED config, PolicyAccepts(run) PROVE AuthInv'
  BY <1>18 DEF PolicyAccepts
<1>19. ASSUME UNCHANGED config, DeliverBadEnvelope PROVE AuthInv'
  BY <1>19 DEF DeliverBadEnvelope, Settle, Undelivered
<1>20. ASSUME UNCHANGED config, Deliver PROVE AuthInv'
  BY <1>20 DEF Deliver, Settle, Undelivered
<1>21. ASSUME UNCHANGED config, BeginUpstream PROVE AuthInv'
  BY <1>21 DEF BeginUpstream, Undelivered
<1>22. ASSUME UNCHANGED config, BeginUpstreamFailed PROVE AuthInv'
  BY <1>22 DEF BeginUpstreamFailed, Settle, Undelivered
<1>23. ASSUME NEW r \in Addr, UNCHANGED config, ForwardRcpt(r) PROVE AuthInv'
  BY <1>23 DEF ForwardRcpt, WithRcpt, Undelivered
<1>24. ASSUME NEW r \in Addr, UNCHANGED config, ForwardRcptRefused(r) PROVE AuthInv'
  BY <1>24 DEF ForwardRcptRefused, Undelivered
<1>25. ASSUME UNCHANGED config, ForwardRcptLost PROVE AuthInv'
  BY <1>25 DEF ForwardRcptLost, Settle, Undelivered
<1>26. ASSUME UNCHANGED config, ForwardRcptsDone PROVE AuthInv'
  BY <1>26 DEF ForwardRcptsDone, Settle, Undelivered
<1>27. ASSUME UNCHANGED config, ForwardData PROVE AuthInv'
  BY <1>27 DEF ForwardData, Undelivered
<1>28. ASSUME UNCHANGED config, ForwardDataFailed PROVE AuthInv'
  BY <1>28 DEF ForwardDataFailed, Settle, Undelivered
<1>29. ASSUME UNCHANGED config, ForwardDot PROVE AuthInv'
  BY <1>29 DEF ForwardDot, Take, Settle
<1>30. ASSUME UNCHANGED config, DeliverToHost PROVE AuthInv'
  BY <1>30 DEF DeliverToHost, Settle, Undelivered
<1>31. ASSUME UNCHANGED config, HostTakes PROVE AuthInv'
  BY <1>31 DEF HostTakes, Take, Settle
<1>32. ASSUME UNCHANGED config, HostRefuses PROVE AuthInv'
  BY <1>32 DEF HostRefuses, Settle, Undelivered
<1>33. ASSUME UNCHANGED config, Reply PROVE AuthInv'
  BY <1>33 DEF Reply, resetTransaction, ReplyToData
<1>34. ASSUME UNCHANGED config, ConnLost PROVE AuthInv'
  BY <1>34 DEF ConnLost
<1>35. ASSUME UNCHANGED config, EndSession PROVE AuthInv'
  BY <1>35 DEF EndSession, resetTransaction
<1>36. ASSUME UNCHANGED config, NewSession PROVE AuthInv'
  BY <1>36 DEF NewSession
<1>37. CASE UNCHANGED vars
  BY <1>37 DEF vars
<1> QED
  BY <1>1, <1>2, <1>3, <1>4, <1>5, <1>6, <1>7, <1>8, <1>9, <1>10, <1>11,
     <1>12, <1>13, <1>14, <1>15, <1>16, <1>17, <1>18, <1>19, <1>20, <1>21,
     <1>22, <1>23, <1>24, <1>25, <1>26, <1>27, <1>28, <1>29, <1>30, <1>31,
     <1>32, <1>33, <1>34, <1>35, <1>36, <1>37
     DEF Next, Client, Handler, Connection

\* In submission mode only a client's own identity sends.
LEMMA SenderStep == TypeOK /\ TxnInv /\ PlanInv /\ ForwardInv /\ AuthInv /\ SenderInv /\ [Next]_vars => SenderInv'
<1> SUFFICES ASSUME TypeOK, TxnInv, PlanInv, ForwardInv, AuthInv, SenderInv, [Next]_vars PROVE SenderInv'
  OBVIOUS
<1> USE DEF SenderInv, sessionVars, envelopeVars, forwardVars, statsVars, historyVars
<1>1. ASSUME UNCHANGED config, Hello PROVE SenderInv'
  BY <1>1 DEF Hello, resetTransaction
<1>2. ASSUME UNCHANGED config, Rset PROVE SenderInv'
  BY <1>2 DEF Rset, resetTransaction
<1>3. ASSUME UNCHANGED config, StartTLS PROVE SenderInv'
  BY <1>3 DEF StartTLS, resetTransaction
<1>4. ASSUME UNCHANGED config, StartTLSFailed PROVE SenderInv'
  BY <1>4 DEF StartTLSFailed
<1>5. ASSUME NEW u \in User, UNCHANGED config, Auth(u) PROVE SenderInv'
  BY <1>5 DEF Auth
<1>6. ASSUME UNCHANGED config, Mail PROVE SenderInv'
  BY <1>6 DEF Mail, MailAllowed
<1>7. ASSUME UNCHANGED config, MailFailed PROVE SenderInv'
  BY <1>7 DEF MailFailed, MailAllowed, resetTransaction, upstreamFailure
<1>8. ASSUME NEW r \in Addr, UNCHANGED config, Rcpt(r) PROVE SenderInv'
  BY <1>8 DEF Rcpt, RcptAllowed, WithRcpt
<1>9. ASSUME UNCHANGED config, RcptRefused PROVE SenderInv'
  BY <1>9 DEF RcptRefused, RcptAllowed, upstreamFailure
<1>10. ASSUME UNCHANGED config, RcptLost PROVE SenderInv'
  BY <1>10 DEF RcptLost, RcptAllowed, resetTransaction
<1>11. ASSUME UNCHANGED config, Data PROVE SenderInv'
  BY <1>11 DEF Data
<1>12. ASSUME UNCHANGED config, AuthAccepted PROVE SenderInv'
  BY <1>12 DEF AuthAccepted
<1>13. ASSUME UNCHANGED config, AuthRefused PROVE SenderInv'
  BY <1>13 DEF AuthRefused
<1>14. ASSUME UNCHANGED config, ReadMessage PROVE SenderInv'
  BY <1>14 DEF ReadMessage
<1>15. ASSUME UNCHANGED config, ReadFailed PROVE SenderInv'
  BY <1>15 DEF ReadFailed, resetTransaction, ReplyToData
<1>16. ASSUME UNCHANGED config, EvaluationFailed PROVE SenderInv'
  BY <1>16 DEF EvaluationFailed, RefuseMessage, resetTransaction, ReplyToData
<1>17. ASSUME NEW run \in PolicyRuns, UNCHANGED config, PolicyRefuses(run) PROVE SenderInv'
  BY <1>17 DEF PolicyRefuses, RefuseMessage, resetTransaction, ReplyToData
<1>18. ASSUME NEW run \in PolicyRuns, UNCHANGED config, PolicyAccepts(run) PROVE SenderInv'
  BY <1>18 DEF PolicyAccepts
<1>19. ASSUME UNCHANGED config, DeliverBadEnvelope PROVE SenderInv'
  BY <1>19 DEF DeliverBadEnvelope, Settle, Undelivered
<1>20. ASSUME UNCHANGED config, Deliver PROVE SenderInv'
  BY <1>20 DEF Deliver, Settle, Undelivered
<1>21. ASSUME UNCHANGED config, BeginUpstream PROVE SenderInv'
  BY <1>21 DEF BeginUpstream, Undelivered
<1>22. ASSUME UNCHANGED config, BeginUpstreamFailed PROVE SenderInv'
  BY <1>22 DEF BeginUpstreamFailed, Settle, Undelivered
<1>23. ASSUME NEW r \in Addr, UNCHANGED config, ForwardRcpt(r) PROVE SenderInv'
  BY <1>23 DEF ForwardRcpt, WithRcpt, Undelivered
<1>24. ASSUME NEW r \in Addr, UNCHANGED config, ForwardRcptRefused(r) PROVE SenderInv'
  BY <1>24 DEF ForwardRcptRefused, Undelivered
<1>25. ASSUME UNCHANGED config, ForwardRcptLost PROVE SenderInv'
  BY <1>25 DEF ForwardRcptLost, Settle, Undelivered
<1>26. ASSUME UNCHANGED config, ForwardRcptsDone PROVE SenderInv'
  BY <1>26 DEF ForwardRcptsDone, Settle, Undelivered
<1>27. ASSUME UNCHANGED config, ForwardData PROVE SenderInv'
  BY <1>27 DEF ForwardData, Undelivered
<1>28. ASSUME UNCHANGED config, ForwardDataFailed PROVE SenderInv'
  BY <1>28 DEF ForwardDataFailed, Settle, Undelivered
<1>29. ASSUME UNCHANGED config, ForwardDot PROVE SenderInv'
  <2>1. config.submission => upstream.as \in User
    BY <1>29 DEF ForwardDot, ForwardInv, EnvelopeInSync, AuthInv, TxnInv, TypeOK, SessionType
  <2>2. /\ delivered'[txn].as = upstream.as
        /\ \A t \in Txns : t # txn => delivered'[t] = delivered[t]
    BY <1>29, Transferred DEF ForwardDot
  <2> QED
    BY <1>29, <2>1, <2>2 DEF ForwardDot
<1>30. ASSUME UNCHANGED config, DeliverToHost PROVE SenderInv'
  BY <1>30 DEF DeliverToHost, Settle, Undelivered
<1>31. ASSUME UNCHANGED config, HostTakes PROVE SenderInv'
  BY <1>31 DEF HostTakes, PlanInv, InDelivery
<1>32. ASSUME UNCHANGED config, HostRefuses PROVE SenderInv'
  BY <1>32 DEF HostRefuses, Settle, Undelivered
<1>33. ASSUME UNCHANGED config, Reply PROVE SenderInv'
  BY <1>33 DEF Reply, resetTransaction, ReplyToData
<1>34. ASSUME UNCHANGED config, ConnLost PROVE SenderInv'
  BY <1>34 DEF ConnLost
<1>35. ASSUME UNCHANGED config, EndSession PROVE SenderInv'
  BY <1>35 DEF EndSession, resetTransaction
<1>36. ASSUME UNCHANGED config, NewSession PROVE SenderInv'
  BY <1>36 DEF NewSession
<1>37. CASE UNCHANGED vars
  BY <1>37 DEF vars
<1> QED
  BY <1>1, <1>2, <1>3, <1>4, <1>5, <1>6, <1>7, <1>8, <1>9, <1>10, <1>11,
     <1>12, <1>13, <1>14, <1>15, <1>16, <1>17, <1>18, <1>19, <1>20, <1>21,
     <1>22, <1>23, <1>24, <1>25, <1>26, <1>27, <1>28, <1>29, <1>30, <1>31,
     <1>32, <1>33, <1>34, <1>35, <1>36, <1>37
     DEF Next, Client, Handler, Connection

\* What the next hop holds stays what the plan called for.
LEMMA DeliveredStep == TypeOK /\ TxnInv /\ PlanInv /\ ForwardInv /\ DeliveredAsPlanned /\ [Next]_vars => DeliveredAsPlanned'
<1> SUFFICES ASSUME TypeOK, TxnInv, PlanInv, ForwardInv, DeliveredAsPlanned, [Next]_vars PROVE DeliveredAsPlanned'
  OBVIOUS
<1> USE DEF DeliveredAsPlanned, sessionVars, envelopeVars, forwardVars, statsVars, historyVars
<1>1. ASSUME UNCHANGED config, Hello PROVE DeliveredAsPlanned'
  BY <1>1 DEF Hello, resetTransaction
<1>2. ASSUME UNCHANGED config, Rset PROVE DeliveredAsPlanned'
  BY <1>2 DEF Rset, resetTransaction
<1>3. ASSUME UNCHANGED config, StartTLS PROVE DeliveredAsPlanned'
  BY <1>3 DEF StartTLS, resetTransaction
<1>4. ASSUME UNCHANGED config, StartTLSFailed PROVE DeliveredAsPlanned'
  BY <1>4 DEF StartTLSFailed
<1>5. ASSUME NEW u \in User, UNCHANGED config, Auth(u) PROVE DeliveredAsPlanned'
  BY <1>5 DEF Auth
<1>6. ASSUME UNCHANGED config, Mail PROVE DeliveredAsPlanned'
  BY <1>6 DEF Mail, MailAllowed
<1>7. ASSUME UNCHANGED config, MailFailed PROVE DeliveredAsPlanned'
  BY <1>7 DEF MailFailed, MailAllowed, resetTransaction, upstreamFailure
<1>8. ASSUME NEW r \in Addr, UNCHANGED config, Rcpt(r) PROVE DeliveredAsPlanned'
  BY <1>8 DEF Rcpt, RcptAllowed, WithRcpt
<1>9. ASSUME UNCHANGED config, RcptRefused PROVE DeliveredAsPlanned'
  BY <1>9 DEF RcptRefused, RcptAllowed, upstreamFailure
<1>10. ASSUME UNCHANGED config, RcptLost PROVE DeliveredAsPlanned'
  BY <1>10 DEF RcptLost, RcptAllowed, resetTransaction
<1>11. ASSUME UNCHANGED config, Data PROVE DeliveredAsPlanned'
  BY <1>11 DEF Data
<1>12. ASSUME UNCHANGED config, AuthAccepted PROVE DeliveredAsPlanned'
  BY <1>12 DEF AuthAccepted
<1>13. ASSUME UNCHANGED config, AuthRefused PROVE DeliveredAsPlanned'
  BY <1>13 DEF AuthRefused
<1>14. ASSUME UNCHANGED config, ReadMessage PROVE DeliveredAsPlanned'
  BY <1>14 DEF ReadMessage
<1>15. ASSUME UNCHANGED config, ReadFailed PROVE DeliveredAsPlanned'
  BY <1>15 DEF ReadFailed, resetTransaction, ReplyToData
<1>16. ASSUME UNCHANGED config, EvaluationFailed PROVE DeliveredAsPlanned'
  BY <1>16 DEF EvaluationFailed, RefuseMessage, resetTransaction, ReplyToData
<1>17. ASSUME NEW run \in PolicyRuns, UNCHANGED config, PolicyRefuses(run) PROVE DeliveredAsPlanned'
  <2>1. txn \in Txns /\ delivered[txn].copies = 0
    BY <1>17 DEF PolicyRefuses, TxnInv, InDelivery
  <2>2. \A t \in Txns : t # txn => plan'[t] = plan[t]
    BY <1>17, <2>1, OnePlan DEF PolicyRefuses
  <2> QED
    BY <1>17, <2>1, <2>2 DEF PolicyRefuses, RefuseMessage
<1>18. ASSUME NEW run \in PolicyRuns, UNCHANGED config, PolicyAccepts(run) PROVE DeliveredAsPlanned'
  <2>1. txn \in Txns /\ delivered[txn].copies = 0
    BY <1>18 DEF PolicyAccepts, TxnInv, InDelivery
  <2>2. \A t \in Txns : t # txn => plan'[t] = plan[t]
    BY <1>18, <2>1, OnePlan DEF PolicyAccepts
  <2> QED
    BY <1>18, <2>1, <2>2 DEF PolicyAccepts
<1>19. ASSUME UNCHANGED config, DeliverBadEnvelope PROVE DeliveredAsPlanned'
  BY <1>19 DEF DeliverBadEnvelope, Settle, Undelivered
<1>20. ASSUME UNCHANGED config, Deliver PROVE DeliveredAsPlanned'
  BY <1>20 DEF Deliver, Settle, Undelivered
<1>21. ASSUME UNCHANGED config, BeginUpstream PROVE DeliveredAsPlanned'
  BY <1>21 DEF BeginUpstream, Undelivered
<1>22. ASSUME UNCHANGED config, BeginUpstreamFailed PROVE DeliveredAsPlanned'
  BY <1>22 DEF BeginUpstreamFailed, Settle, Undelivered
<1>23. ASSUME NEW r \in Addr, UNCHANGED config, ForwardRcpt(r) PROVE DeliveredAsPlanned'
  BY <1>23 DEF ForwardRcpt, WithRcpt, Undelivered
<1>24. ASSUME NEW r \in Addr, UNCHANGED config, ForwardRcptRefused(r) PROVE DeliveredAsPlanned'
  BY <1>24 DEF ForwardRcptRefused, Undelivered
<1>25. ASSUME UNCHANGED config, ForwardRcptLost PROVE DeliveredAsPlanned'
  BY <1>25 DEF ForwardRcptLost, Settle, Undelivered
<1>26. ASSUME UNCHANGED config, ForwardRcptsDone PROVE DeliveredAsPlanned'
  BY <1>26 DEF ForwardRcptsDone, Settle, Undelivered
<1>27. ASSUME UNCHANGED config, ForwardData PROVE DeliveredAsPlanned'
  BY <1>27 DEF ForwardData, Undelivered
<1>28. ASSUME UNCHANGED config, ForwardDataFailed PROVE DeliveredAsPlanned'
  BY <1>28 DEF ForwardDataFailed, Settle, Undelivered
<1>29. ASSUME UNCHANGED config, ForwardDot PROVE DeliveredAsPlanned'
  <2>1. /\ plan[txn].code = 250 /\ ~config.hostAdapter
        /\ upstream.rcpts = TargetRecipients(plan[txn].named, plan[txn].actions)
    BY <1>29 DEF ForwardDot, PlanInv, ForwardInv, InDelivery
  <2>2. /\ delivered'[txn].copies = 1 /\ delivered'[txn].to = upstream.rcpts
        /\ \A t \in Txns : t # txn => delivered'[t] = delivered[t]
    BY <1>29, Transferred DEF ForwardDot
  <2> QED
    BY <1>29, <2>1, <2>2 DEF ForwardDot
<1>30. ASSUME UNCHANGED config, DeliverToHost PROVE DeliveredAsPlanned'
  BY <1>30 DEF DeliverToHost, Settle, Undelivered
<1>31. ASSUME UNCHANGED config, HostTakes PROVE DeliveredAsPlanned'
  <2>1. /\ plan[txn].code = 250 /\ config.hostAdapter
        /\ recipients = plan[txn].named
    BY <1>31 DEF HostTakes, PlanInv, InDelivery
  <2>2. /\ delivered'[txn].copies = 1 /\ delivered'[txn].to = recipients
        /\ \A t \in Txns : t # txn => delivered'[t] = delivered[t]
    BY <1>31, Transferred DEF HostTakes
  <2> QED
    BY <1>31, <2>1, <2>2 DEF HostTakes
<1>32. ASSUME UNCHANGED config, HostRefuses PROVE DeliveredAsPlanned'
  BY <1>32 DEF HostRefuses, Settle, Undelivered
<1>33. ASSUME UNCHANGED config, Reply PROVE DeliveredAsPlanned'
  BY <1>33 DEF Reply, resetTransaction, ReplyToData
<1>34. ASSUME UNCHANGED config, ConnLost PROVE DeliveredAsPlanned'
  BY <1>34 DEF ConnLost
<1>35. ASSUME UNCHANGED config, EndSession PROVE DeliveredAsPlanned'
  BY <1>35 DEF EndSession, resetTransaction
<1>36. ASSUME UNCHANGED config, NewSession PROVE DeliveredAsPlanned'
  BY <1>36 DEF NewSession
<1>37. CASE UNCHANGED vars
  BY <1>37 DEF vars
<1> QED
  BY <1>1, <1>2, <1>3, <1>4, <1>5, <1>6, <1>7, <1>8, <1>9, <1>10, <1>11,
     <1>12, <1>13, <1>14, <1>15, <1>16, <1>17, <1>18, <1>19, <1>20, <1>21,
     <1>22, <1>23, <1>24, <1>25, <1>26, <1>27, <1>28, <1>29, <1>30, <1>31,
     <1>32, <1>33, <1>34, <1>35, <1>36, <1>37
     DEF Next, Client, Handler, Connection

\* The quarantine markers of a delivered message stay those of its own plan.
LEMMA MarkStep == TypeOK /\ TxnInv /\ PlanInv /\ ForwardInv /\ MarkerIsOurs /\ [Next]_vars => MarkerIsOurs'
<1> SUFFICES ASSUME TypeOK, TxnInv, PlanInv, ForwardInv, MarkerIsOurs, [Next]_vars PROVE MarkerIsOurs'
  OBVIOUS
<1> USE DEF MarkerIsOurs, sessionVars, envelopeVars, forwardVars, statsVars, historyVars
<1>1. ASSUME UNCHANGED config, Hello PROVE MarkerIsOurs'
  BY <1>1 DEF Hello, resetTransaction
<1>2. ASSUME UNCHANGED config, Rset PROVE MarkerIsOurs'
  BY <1>2 DEF Rset, resetTransaction
<1>3. ASSUME UNCHANGED config, StartTLS PROVE MarkerIsOurs'
  BY <1>3 DEF StartTLS, resetTransaction
<1>4. ASSUME UNCHANGED config, StartTLSFailed PROVE MarkerIsOurs'
  BY <1>4 DEF StartTLSFailed
<1>5. ASSUME NEW u \in User, UNCHANGED config, Auth(u) PROVE MarkerIsOurs'
  BY <1>5 DEF Auth
<1>6. ASSUME UNCHANGED config, Mail PROVE MarkerIsOurs'
  BY <1>6 DEF Mail, MailAllowed
<1>7. ASSUME UNCHANGED config, MailFailed PROVE MarkerIsOurs'
  BY <1>7 DEF MailFailed, MailAllowed, resetTransaction, upstreamFailure
<1>8. ASSUME NEW r \in Addr, UNCHANGED config, Rcpt(r) PROVE MarkerIsOurs'
  BY <1>8 DEF Rcpt, RcptAllowed, WithRcpt
<1>9. ASSUME UNCHANGED config, RcptRefused PROVE MarkerIsOurs'
  BY <1>9 DEF RcptRefused, RcptAllowed, upstreamFailure
<1>10. ASSUME UNCHANGED config, RcptLost PROVE MarkerIsOurs'
  BY <1>10 DEF RcptLost, RcptAllowed, resetTransaction
<1>11. ASSUME UNCHANGED config, Data PROVE MarkerIsOurs'
  BY <1>11 DEF Data
<1>12. ASSUME UNCHANGED config, AuthAccepted PROVE MarkerIsOurs'
  BY <1>12 DEF AuthAccepted
<1>13. ASSUME UNCHANGED config, AuthRefused PROVE MarkerIsOurs'
  BY <1>13 DEF AuthRefused
<1>14. ASSUME UNCHANGED config, ReadMessage PROVE MarkerIsOurs'
  BY <1>14 DEF ReadMessage
<1>15. ASSUME UNCHANGED config, ReadFailed PROVE MarkerIsOurs'
  BY <1>15 DEF ReadFailed, resetTransaction, ReplyToData
<1>16. ASSUME UNCHANGED config, EvaluationFailed PROVE MarkerIsOurs'
  BY <1>16 DEF EvaluationFailed, RefuseMessage, resetTransaction, ReplyToData
<1>17. ASSUME NEW run \in PolicyRuns, UNCHANGED config, PolicyRefuses(run) PROVE MarkerIsOurs'
  <2>1. txn \in Txns /\ delivered[txn].copies = 0
    BY <1>17 DEF PolicyRefuses, TxnInv, InDelivery
  <2>2. \A t \in Txns : t # txn => plan'[t] = plan[t]
    BY <1>17, <2>1, OnePlan DEF PolicyRefuses
  <2> QED
    BY <1>17, <2>1, <2>2 DEF PolicyRefuses, RefuseMessage
<1>18. ASSUME NEW run \in PolicyRuns, UNCHANGED config, PolicyAccepts(run) PROVE MarkerIsOurs'
  <2>1. txn \in Txns /\ delivered[txn].copies = 0
    BY <1>18 DEF PolicyAccepts, TxnInv, InDelivery
  <2>2. \A t \in Txns : t # txn => plan'[t] = plan[t]
    BY <1>18, <2>1, OnePlan DEF PolicyAccepts
  <2> QED
    BY <1>18, <2>1, <2>2 DEF PolicyAccepts
<1>19. ASSUME UNCHANGED config, DeliverBadEnvelope PROVE MarkerIsOurs'
  BY <1>19 DEF DeliverBadEnvelope, Settle, Undelivered
<1>20. ASSUME UNCHANGED config, Deliver PROVE MarkerIsOurs'
  BY <1>20 DEF Deliver, Settle, Undelivered
<1>21. ASSUME UNCHANGED config, BeginUpstream PROVE MarkerIsOurs'
  BY <1>21 DEF BeginUpstream, Undelivered
<1>22. ASSUME UNCHANGED config, BeginUpstreamFailed PROVE MarkerIsOurs'
  BY <1>22 DEF BeginUpstreamFailed, Settle, Undelivered
<1>23. ASSUME NEW r \in Addr, UNCHANGED config, ForwardRcpt(r) PROVE MarkerIsOurs'
  BY <1>23 DEF ForwardRcpt, WithRcpt, Undelivered
<1>24. ASSUME NEW r \in Addr, UNCHANGED config, ForwardRcptRefused(r) PROVE MarkerIsOurs'
  BY <1>24 DEF ForwardRcptRefused, Undelivered
<1>25. ASSUME UNCHANGED config, ForwardRcptLost PROVE MarkerIsOurs'
  BY <1>25 DEF ForwardRcptLost, Settle, Undelivered
<1>26. ASSUME UNCHANGED config, ForwardRcptsDone PROVE MarkerIsOurs'
  BY <1>26 DEF ForwardRcptsDone, Settle, Undelivered
<1>27. ASSUME UNCHANGED config, ForwardData PROVE MarkerIsOurs'
  BY <1>27 DEF ForwardData, Undelivered
<1>28. ASSUME UNCHANGED config, ForwardDataFailed PROVE MarkerIsOurs'
  BY <1>28 DEF ForwardDataFailed, Settle, Undelivered
<1>29. ASSUME UNCHANGED config, ForwardDot PROVE MarkerIsOurs'
  <2>1. pc \in InDelivery /\ plan' = plan
    BY <1>29 DEF ForwardDot, InDelivery
  <2>2. MarkedAsPlanned(marks, plan[txn])
    BY <2>1 DEF PlanInv
  <2>3. /\ delivered'[txn].marks = marks
        /\ \A t \in Txns : t # txn => delivered'[t] = delivered[t]
    BY <1>29, Transferred
  <2> QED
    BY <2>1, <2>2, <2>3
<1>30. ASSUME UNCHANGED config, DeliverToHost PROVE MarkerIsOurs'
  BY <1>30 DEF DeliverToHost, Settle, Undelivered
<1>31. ASSUME UNCHANGED config, HostTakes PROVE MarkerIsOurs'
  <2>1. pc \in InDelivery /\ plan' = plan
    BY <1>31 DEF HostTakes, InDelivery
  <2>2. MarkedAsPlanned(marks, plan[txn])
    BY <2>1 DEF PlanInv
  <2>3. /\ delivered'[txn].marks = marks
        /\ \A t \in Txns : t # txn => delivered'[t] = delivered[t]
    BY <1>31, Transferred
  <2> QED
    BY <2>1, <2>2, <2>3
<1>32. ASSUME UNCHANGED config, HostRefuses PROVE MarkerIsOurs'
  BY <1>32 DEF HostRefuses, Settle, Undelivered
<1>33. ASSUME UNCHANGED config, Reply PROVE MarkerIsOurs'
  BY <1>33 DEF Reply, resetTransaction, ReplyToData
<1>34. ASSUME UNCHANGED config, ConnLost PROVE MarkerIsOurs'
  BY <1>34 DEF ConnLost
<1>35. ASSUME UNCHANGED config, EndSession PROVE MarkerIsOurs'
  BY <1>35 DEF EndSession, resetTransaction
<1>36. ASSUME UNCHANGED config, NewSession PROVE MarkerIsOurs'
  BY <1>36 DEF NewSession
<1>37. CASE UNCHANGED vars
  BY <1>37 DEF vars
<1> QED
  BY <1>1, <1>2, <1>3, <1>4, <1>5, <1>6, <1>7, <1>8, <1>9, <1>10, <1>11,
     <1>12, <1>13, <1>14, <1>15, <1>16, <1>17, <1>18, <1>19, <1>20, <1>21,
     <1>22, <1>23, <1>24, <1>25, <1>26, <1>27, <1>28, <1>29, <1>30, <1>31,
     <1>32, <1>33, <1>34, <1>35, <1>36, <1>37
     DEF Next, Client, Handler, Connection

\* No answer comes to misstate what the relay knows.
LEMMA HonestStep == TypeOK /\ TxnInv /\ OutcomeInv /\ HonestAnswers /\ [Next]_vars => HonestAnswers'
<1> SUFFICES ASSUME TypeOK, TxnInv, OutcomeInv, HonestAnswers, [Next]_vars PROVE HonestAnswers'
  OBVIOUS
<1> USE DEF HonestAnswers, Contract!Honest, Contract!Msgs, Txns, Contract!Truthful, Custody, sessionVars, envelopeVars, forwardVars, statsVars, historyVars
<1>1. ASSUME UNCHANGED config, Hello PROVE HonestAnswers'
  BY <1>1 DEF Hello, resetTransaction
<1>2. ASSUME UNCHANGED config, Rset PROVE HonestAnswers'
  BY <1>2 DEF Rset, resetTransaction
<1>3. ASSUME UNCHANGED config, StartTLS PROVE HonestAnswers'
  BY <1>3 DEF StartTLS, resetTransaction
<1>4. ASSUME UNCHANGED config, StartTLSFailed PROVE HonestAnswers'
  BY <1>4 DEF StartTLSFailed
<1>5. ASSUME NEW u \in User, UNCHANGED config, Auth(u) PROVE HonestAnswers'
  BY <1>5 DEF Auth
<1>6. ASSUME UNCHANGED config, Mail PROVE HonestAnswers'
  BY <1>6 DEF Mail, MailAllowed
<1>7. ASSUME UNCHANGED config, MailFailed PROVE HonestAnswers'
  BY <1>7 DEF MailFailed, MailAllowed, resetTransaction, upstreamFailure
<1>8. ASSUME NEW r \in Addr, UNCHANGED config, Rcpt(r) PROVE HonestAnswers'
  BY <1>8 DEF Rcpt, RcptAllowed, WithRcpt
<1>9. ASSUME UNCHANGED config, RcptRefused PROVE HonestAnswers'
  BY <1>9 DEF RcptRefused, RcptAllowed, upstreamFailure
<1>10. ASSUME UNCHANGED config, RcptLost PROVE HonestAnswers'
  BY <1>10 DEF RcptLost, RcptAllowed, resetTransaction
<1>11. ASSUME UNCHANGED config, Data PROVE HonestAnswers'
  BY <1>11 DEF Data
<1>12. ASSUME UNCHANGED config, AuthAccepted PROVE HonestAnswers'
  BY <1>12 DEF AuthAccepted
<1>13. ASSUME UNCHANGED config, AuthRefused PROVE HonestAnswers'
  BY <1>13 DEF AuthRefused
<1>14. ASSUME UNCHANGED config, ReadMessage PROVE HonestAnswers'
  BY <1>14 DEF ReadMessage
<1>15. ASSUME UNCHANGED config, ReadFailed PROVE HonestAnswers'
  <2>1. txn \in Txns /\ delivered[txn].copies = 0
    BY <1>15 DEF ReadFailed, TxnInv, InDelivery
  <2>2. answer'[txn] # "250" /\ \A t \in Txns : t # txn => answer'[t] = answer[t]
    BY <1>15, <2>1, OneAnswer DEF ReadFailed, TxnInv, InDelivery
  <2> QED
    BY <1>15, <2>1, <2>2 DEF ReadFailed
<1>16. ASSUME UNCHANGED config, EvaluationFailed PROVE HonestAnswers'
  <2>1. txn \in Txns /\ delivered[txn].copies = 0
    BY <1>16 DEF EvaluationFailed, TxnInv, InDelivery
  <2>2. answer'[txn] # "250" /\ \A t \in Txns : t # txn => answer'[t] = answer[t]
    BY <1>16, <2>1, OneAnswer DEF EvaluationFailed, RefuseMessage, TxnInv
  <2> QED
    BY <1>16, <2>1, <2>2 DEF EvaluationFailed, RefuseMessage
<1>17. ASSUME NEW run \in PolicyRuns, UNCHANGED config, PolicyRefuses(run) PROVE HonestAnswers'
  <2>1. txn \in Txns /\ delivered[txn].copies = 0
    BY <1>17 DEF PolicyRefuses, TxnInv, InDelivery
  <2>0. ClassOf(PlanOf(run).code) # "250"
    BY <1>17 DEF PolicyRefuses, ClassOf
  <2>2. answer'[txn] # "250" /\ \A t \in Txns : t # txn => answer'[t] = answer[t]
    BY <1>17, <2>0, <2>1, OneAnswer DEF PolicyRefuses, RefuseMessage, TxnInv
  <2> QED
    BY <1>17, <2>1, <2>2 DEF PolicyRefuses, RefuseMessage
<1>18. ASSUME NEW run \in PolicyRuns, UNCHANGED config, PolicyAccepts(run) PROVE HonestAnswers'
  BY <1>18 DEF PolicyAccepts
<1>19. ASSUME UNCHANGED config, DeliverBadEnvelope PROVE HonestAnswers'
  BY <1>19 DEF DeliverBadEnvelope, Settle, Undelivered
<1>20. ASSUME UNCHANGED config, Deliver PROVE HonestAnswers'
  BY <1>20 DEF Deliver, Settle, Undelivered
<1>21. ASSUME UNCHANGED config, BeginUpstream PROVE HonestAnswers'
  BY <1>21 DEF BeginUpstream, Undelivered
<1>22. ASSUME UNCHANGED config, BeginUpstreamFailed PROVE HonestAnswers'
  BY <1>22 DEF BeginUpstreamFailed, Settle, Undelivered
<1>23. ASSUME NEW r \in Addr, UNCHANGED config, ForwardRcpt(r) PROVE HonestAnswers'
  BY <1>23 DEF ForwardRcpt, WithRcpt, Undelivered
<1>24. ASSUME NEW r \in Addr, UNCHANGED config, ForwardRcptRefused(r) PROVE HonestAnswers'
  BY <1>24 DEF ForwardRcptRefused, Undelivered
<1>25. ASSUME UNCHANGED config, ForwardRcptLost PROVE HonestAnswers'
  BY <1>25 DEF ForwardRcptLost, Settle, Undelivered
<1>26. ASSUME UNCHANGED config, ForwardRcptsDone PROVE HonestAnswers'
  BY <1>26 DEF ForwardRcptsDone, Settle, Undelivered
<1>27. ASSUME UNCHANGED config, ForwardData PROVE HonestAnswers'
  BY <1>27 DEF ForwardData, Undelivered
<1>28. ASSUME UNCHANGED config, ForwardDataFailed PROVE HonestAnswers'
  BY <1>28 DEF ForwardDataFailed, Settle, Undelivered
<1>29. ASSUME UNCHANGED config, ForwardDot PROVE HonestAnswers'
  <2>1. txn \in Txns /\ answer[txn] = "none"
    BY <1>29 DEF ForwardDot, TxnInv, InDelivery
  <2>2. \A t \in Txns : t # txn => delivered'[t] = delivered[t]
    BY <1>29, Transferred
  <2> QED
    BY <1>29, <2>1, <2>2 DEF ForwardDot
<1>30. ASSUME UNCHANGED config, DeliverToHost PROVE HonestAnswers'
  BY <1>30 DEF DeliverToHost, Settle, Undelivered
<1>31. ASSUME UNCHANGED config, HostTakes PROVE HonestAnswers'
  <2>1. txn \in Txns /\ answer[txn] = "none"
    BY <1>31 DEF HostTakes, TxnInv, InDelivery
  <2>2. \A t \in Txns : t # txn => delivered'[t] = delivered[t]
    BY <1>31, Transferred
  <2> QED
    BY <1>31, <2>1, <2>2 DEF HostTakes
<1>32. ASSUME UNCHANGED config, HostRefuses PROVE HonestAnswers'
  BY <1>32 DEF HostRefuses, Settle, Undelivered
<1>33. ASSUME UNCHANGED config, Reply PROVE HonestAnswers'
  <2>1. txn \in Txns
    BY <1>33 DEF Reply, TxnInv, InDelivery
  <2>2. /\ answer'[txn] \in {outcome, "unseen"}
        /\ \A t \in Txns : t # txn => answer'[t] = answer[t]
    BY <1>33, <2>1, OneAnswer DEF Reply
  <2> QED
    BY <1>33, <2>1, <2>2 DEF Reply, OutcomeInv
<1>34. ASSUME UNCHANGED config, ConnLost PROVE HonestAnswers'
  BY <1>34 DEF ConnLost
<1>35. ASSUME UNCHANGED config, EndSession PROVE HonestAnswers'
  BY <1>35 DEF EndSession, resetTransaction
<1>36. ASSUME UNCHANGED config, NewSession PROVE HonestAnswers'
  BY <1>36 DEF NewSession
<1>37. CASE UNCHANGED vars
  BY <1>37 DEF vars
<1> QED
  BY <1>1, <1>2, <1>3, <1>4, <1>5, <1>6, <1>7, <1>8, <1>9, <1>10, <1>11,
     <1>12, <1>13, <1>14, <1>15, <1>16, <1>17, <1>18, <1>19, <1>20, <1>21,
     <1>22, <1>23, <1>24, <1>25, <1>26, <1>27, <1>28, <1>29, <1>30, <1>31,
     <1>32, <1>33, <1>34, <1>35, <1>36, <1>37
     DEF Next, Client, Handler, Connection
-----------------------------------------------------------------------------
(***************************************************************************)
(* The counters.  A step is one of five kinds as far as they are concerned.   *)
(***************************************************************************)
Pending == pc = "reply" /\ outcome = "250"
Taken == {t \in Txns : delivered[t].copies > 0 /\ ~delivered[t].lost}

\* Nothing is counted; a message is refused before delivery; it is let through to
\* delivery; the next hop takes it; delivery has returned.
Uncounted ==
  /\ UNCHANGED <<processed, accepted, rejected, delivered>>
  /\ pc' \in InDelivery <=> pc \in InDelivery
  /\ Pending' <=> Pending
Refused ==
  /\ processed' = processed + 1 /\ rejected' = rejected + 1
  /\ UNCHANGED <<accepted, delivered>>
  /\ pc \notin InDelivery /\ pc' \notin InDelivery
Admitted ==
  /\ processed' = processed + 1 /\ UNCHANGED <<accepted, rejected, delivered>>
  /\ pc \notin InDelivery /\ pc' \in InDelivery /\ ~Pending'
Passed ==
  /\ ForwardDot \/ HostTakes
  /\ UNCHANGED <<processed, accepted, rejected>>
Returned ==
  /\ pc = "reply" /\ pc' = "command" /\ UNCHANGED <<processed, delivered>>
  /\ \/ Pending /\ accepted' = accepted + 1 /\ UNCHANGED rejected
     \/ ~Pending /\ rejected' = rejected + 1 /\ UNCHANGED accepted
Counted == Uncounted \/ Refused \/ Admitted \/ Passed \/ Returned

\* Every step is of one of these kinds.
LEMMA CountedStep == TypeOK /\ TxnInv /\ [Next]_vars => Counted
<1> SUFFICES ASSUME TypeOK, TxnInv, [Next]_vars PROVE Counted
  OBVIOUS
<1> USE DEF Uncounted, Pending, InDelivery, sessionVars, envelopeVars, forwardVars,
            statsVars, historyVars
<1>1. ASSUME UNCHANGED config, Hello PROVE Uncounted
  BY <1>1 DEF Hello, resetTransaction
<1>2. ASSUME UNCHANGED config, Rset PROVE Uncounted
  BY <1>2 DEF Rset, resetTransaction
<1>3. ASSUME UNCHANGED config, StartTLS PROVE Uncounted
  BY <1>3 DEF StartTLS, resetTransaction
<1>4. ASSUME UNCHANGED config, StartTLSFailed PROVE Uncounted
  BY <1>4 DEF StartTLSFailed
<1>5. ASSUME NEW u \in User, UNCHANGED config, Auth(u) PROVE Uncounted
  BY <1>5 DEF Auth
<1>6. ASSUME UNCHANGED config, Mail PROVE Uncounted
  BY <1>6 DEF Mail, MailAllowed
<1>7. ASSUME UNCHANGED config, MailFailed PROVE Uncounted
  BY <1>7 DEF MailFailed, MailAllowed, resetTransaction, upstreamFailure
<1>8. ASSUME NEW r \in Addr, UNCHANGED config, Rcpt(r) PROVE Uncounted
  BY <1>8 DEF Rcpt, RcptAllowed, WithRcpt
<1>9. ASSUME UNCHANGED config, RcptRefused PROVE Uncounted
  BY <1>9 DEF RcptRefused, RcptAllowed, upstreamFailure
<1>10. ASSUME UNCHANGED config, RcptLost PROVE Uncounted
  BY <1>10 DEF RcptLost, RcptAllowed, resetTransaction
<1>11. ASSUME UNCHANGED config, Data PROVE Uncounted
  BY <1>11 DEF Data
<1>12. ASSUME UNCHANGED config, AuthAccepted PROVE Uncounted
  BY <1>12 DEF AuthAccepted
<1>13. ASSUME UNCHANGED config, AuthRefused PROVE Uncounted
  BY <1>13 DEF AuthRefused
<1>14. ASSUME UNCHANGED config, ReadMessage PROVE Uncounted
  BY <1>14 DEF ReadMessage
<1>15. ASSUME UNCHANGED config, ReadFailed PROVE Uncounted
  BY <1>15 DEF ReadFailed, resetTransaction, ReplyToData
<1>16. ASSUME UNCHANGED config, EvaluationFailed PROVE Refused
  BY <1>16 DEF EvaluationFailed, RefuseMessage, resetTransaction, ReplyToData, Refused
<1>17. ASSUME NEW run \in PolicyRuns, UNCHANGED config, PolicyRefuses(run) PROVE Refused
  BY <1>17 DEF PolicyRefuses, RefuseMessage, resetTransaction, ReplyToData, Refused
<1>18. ASSUME NEW run \in PolicyRuns, UNCHANGED config, PolicyAccepts(run) PROVE Admitted
  BY <1>18 DEF PolicyAccepts, Admitted
<1>19. ASSUME UNCHANGED config, DeliverBadEnvelope PROVE Uncounted
  BY <1>19 DEF DeliverBadEnvelope, Settle, Undelivered
<1>20. ASSUME UNCHANGED config, Deliver PROVE Uncounted
  BY <1>20 DEF Deliver, Settle, Undelivered
<1>21. ASSUME UNCHANGED config, BeginUpstream PROVE Uncounted
  BY <1>21 DEF BeginUpstream, Undelivered
<1>22. ASSUME UNCHANGED config, BeginUpstreamFailed PROVE Uncounted
  BY <1>22 DEF BeginUpstreamFailed, Settle, Undelivered
<1>23. ASSUME NEW r \in Addr, UNCHANGED config, ForwardRcpt(r) PROVE Uncounted
  BY <1>23 DEF ForwardRcpt, WithRcpt, Undelivered
<1>24. ASSUME NEW r \in Addr, UNCHANGED config, ForwardRcptRefused(r) PROVE Uncounted
  BY <1>24 DEF ForwardRcptRefused, Undelivered
<1>25. ASSUME UNCHANGED config, ForwardRcptLost PROVE Uncounted
  BY <1>25 DEF ForwardRcptLost, Settle, Undelivered
<1>26. ASSUME UNCHANGED config, ForwardRcptsDone PROVE Uncounted
  BY <1>26 DEF ForwardRcptsDone, Settle, Undelivered, TypeOK, ForwardType
<1>27. ASSUME UNCHANGED config, ForwardData PROVE Uncounted
  BY <1>27 DEF ForwardData, Undelivered
<1>28. ASSUME UNCHANGED config, ForwardDataFailed PROVE Uncounted
  BY <1>28 DEF ForwardDataFailed, Settle, Undelivered
<1>29. ASSUME UNCHANGED config, ForwardDot PROVE Passed
  BY <1>29 DEF ForwardDot, Passed
<1>30. ASSUME UNCHANGED config, DeliverToHost PROVE Uncounted
  BY <1>30 DEF DeliverToHost, Settle, Undelivered
<1>31. ASSUME UNCHANGED config, HostTakes PROVE Passed
  BY <1>31 DEF HostTakes, Passed
<1>32. ASSUME UNCHANGED config, HostRefuses PROVE Uncounted
  BY <1>32 DEF HostRefuses, Settle, Undelivered
<1>33. ASSUME UNCHANGED config, Reply PROVE Returned
  BY <1>33 DEF Reply, Returned
<1>34. ASSUME UNCHANGED config, ConnLost PROVE Uncounted
  BY <1>34 DEF ConnLost
<1>35. ASSUME UNCHANGED config, EndSession PROVE Uncounted
  BY <1>35 DEF EndSession, resetTransaction
<1>36. ASSUME UNCHANGED config, NewSession PROVE Uncounted
  BY <1>36 DEF NewSession
<1>37. ASSUME UNCHANGED vars PROVE Uncounted
  BY <1>37 DEF vars
<1> QED
  BY <1>1, <1>2, <1>3, <1>4, <1>5, <1>6, <1>7, <1>8, <1>9, <1>10, <1>11,
     <1>12, <1>13, <1>14, <1>15, <1>16, <1>17, <1>18, <1>19, <1>20, <1>21,
     <1>22, <1>23, <1>24, <1>25, <1>26, <1>27, <1>28, <1>29, <1>30, <1>31,
     <1>32, <1>33, <1>34, <1>35, <1>36, <1>37
     DEF Counted, Next, Client, Handler, Connection

LEMMA TakenCount ==
  ASSUME TypeOK
  PROVE  IsFiniteSet(Taken) /\ Cardinality(Taken) \in Nat
<1>1. IsFiniteSet(Txns)
  BY DataAssumption, FS_Interval DEF Txns
<1>2. Taken \subseteq Txns
  BY DEF Taken
<1>3. IsFiniteSet(Taken)
  BY <1>1, <1>2, FS_Subset
<1> QED
  BY <1>3, FS_CardinalityType

\* Taken grows exactly when the next hop acknowledges.
LEMMA TakenStep ==
  ASSUME TypeOK, TxnInv, Passed
  PROVE  \/ Pending' /\ Cardinality(Taken') = Cardinality(Taken) + 1
         \/ ~Pending' /\ Taken' = Taken
<1>1. /\ txn \in Txns /\ delivered'[txn].copies = 1 /\ (outcome' = "250" <=> ~delivered'[txn].lost)
      /\ \A t \in Txns : t # txn => delivered'[t] = delivered[t]
  BY Transferred DEF Passed
<1>2. pc' = "reply"
  BY DEF Passed, ForwardDot, HostTakes, Settle
<1>3. txn \notin Taken
  <2>1. delivered[txn].copies = 0
    BY DEF TxnInv, InDelivery, Passed, ForwardDot, HostTakes
  <2> QED
    BY <2>1 DEF Taken
<1>4. CASE outcome' = "250"
  <2>1. Taken' = Taken \union {txn}
    BY <1>1, <1>4 DEF Taken
  <2>2. Cardinality(Taken \union {txn}) = Cardinality(Taken) + 1
    BY <1>3, TakenCount, FS_AddElement
  <2> QED
    BY <1>2, <1>4, <2>1, <2>2 DEF Pending
<1>5. CASE outcome' # "250"
  <2>1. Taken' = Taken
    BY <1>1, <1>3, <1>5 DEF Taken
  <2> QED
    BY <1>5, <2>1 DEF Pending
<1> QED
  BY <1>4, <1>5

\* The counters as a relation between numbers: those of messages processed,
\* accepted, rejected and taken, one in delivery or not, one just taken or not.
Balance(p, a, r, taken, busy, due) ==
  p = a + r + (IF busy THEN 1 ELSE 0) /\ a + (IF due THEN 1 ELSE 0) = taken

LEMMA StatsBalance ==
  /\ StatsTruthful <=>
       Balance(processed, accepted, rejected, Cardinality(Taken), pc \in InDelivery, Pending)
  /\ StatsTruthful' <=>
       Balance(processed', accepted', rejected', Cardinality(Taken'), pc' \in InDelivery, Pending')
  BY DEF StatsTruthful, Balance, Taken, Pending

LEMMA BalanceSteps ==
  ASSUME NEW p \in Nat, NEW a \in Nat, NEW r \in Nat, NEW taken \in Nat
  PROVE  /\ Balance(p, a, r, taken, FALSE, FALSE) => /\ Balance(p + 1, a, r + 1, taken, FALSE, FALSE)
                                                  /\ Balance(p + 1, a, r, taken, TRUE, FALSE)
         /\ Balance(p, a, r, taken, TRUE, FALSE) => /\ Balance(p, a, r, taken + 1, TRUE, TRUE)
                                                 /\ Balance(p, a, r + 1, taken, FALSE, FALSE)
         /\ Balance(p, a, r, taken, TRUE, TRUE) => Balance(p, a + 1, r, taken, FALSE, FALSE)
  BY DEF Balance

LEMMA StatsStep == TypeOK /\ TxnInv /\ StatsTruthful /\ [Next]_vars => StatsTruthful'
<1> SUFFICES ASSUME TypeOK, TxnInv, StatsTruthful, [Next]_vars PROVE StatsTruthful'
  OBVIOUS
<1> DEFINE n == Cardinality(Taken)
<1>1. processed \in Nat /\ accepted \in Nat /\ rejected \in Nat /\ n \in Nat
  BY TakenCount DEF TypeOK, StatsType
<1> HIDE DEF n
<1>2. Balance(processed, accepted, rejected, n, pc \in InDelivery, Pending)
  BY StatsBalance DEF n
<1>3. delivered' = delivered => Cardinality(Taken') = n
  BY DEF Taken, n
<1>4. ~(pc \in InDelivery) => ~Pending
  BY DEF InDelivery, Pending
<1>5. SUFFICES Balance(processed', accepted', rejected', Cardinality(Taken'), pc' \in InDelivery, Pending')
  BY StatsBalance
<1>6. CASE Uncounted
  <2>1. /\ processed' = processed /\ accepted' = accepted /\ rejected' = rejected
        /\ (pc' \in InDelivery) = (pc \in InDelivery) /\ Pending' = Pending /\ Cardinality(Taken') = n
    BY <1>3, <1>6 DEF Uncounted, Pending
  <2> QED
    BY <1>2, <2>1
<1>7. CASE Refused
  <2>1. /\ processed' = processed + 1 /\ accepted' = accepted /\ rejected' = rejected + 1
        /\ (pc' \in InDelivery) = FALSE /\ Pending' = FALSE /\ Cardinality(Taken') = n
        /\ (pc \in InDelivery) = FALSE /\ Pending = FALSE
    BY <1>3, <1>7 DEF Refused, Pending, InDelivery
  <2>2. Balance(processed + 1, accepted, rejected + 1, n, FALSE, FALSE)
    BY <1>1, <1>2, <2>1, BalanceSteps
  <2> QED
    BY <2>1, <2>2
<1>8. CASE Admitted
  <2>1. /\ processed' = processed + 1 /\ accepted' = accepted /\ rejected' = rejected
        /\ (pc' \in InDelivery) = TRUE /\ Pending' = FALSE /\ Cardinality(Taken') = n
        /\ (pc \in InDelivery) = FALSE /\ Pending = FALSE
    BY <1>3, <1>8 DEF Admitted, Pending, InDelivery
  <2>2. Balance(processed + 1, accepted, rejected, n, TRUE, FALSE)
    BY <1>1, <1>2, <2>1, BalanceSteps
  <2> QED
    BY <2>1, <2>2
<1>9. CASE Passed
  <2>1. /\ processed' = processed /\ accepted' = accepted /\ rejected' = rejected
        /\ (pc' \in InDelivery) = TRUE /\ (pc \in InDelivery) = TRUE /\ Pending = FALSE
    BY <1>9 DEF Passed, ForwardDot, HostTakes, Settle, Pending, InDelivery
  <2>2. CASE Pending' /\ Cardinality(Taken') = n + 1
    <3>1. Balance(processed, accepted, rejected, n + 1, TRUE, TRUE)
      BY <1>1, <1>2, <2>1, BalanceSteps
    <3>2. Pending' = TRUE
      BY <2>2 DEF Pending
    <3> QED
      BY <2>1, <2>2, <3>1, <3>2
  <2>3. CASE ~Pending' /\ Taken' = Taken
    <3>1. Pending' = FALSE /\ Cardinality(Taken') = n
      BY <2>3 DEF Pending, n
    <3> QED
      BY <1>2, <2>1, <3>1
  <2> QED
    BY <1>9, <2>2, <2>3, TakenStep DEF n
<1>10. CASE Returned
  <2>1. /\ processed' = processed /\ (pc' \in InDelivery) = FALSE /\ (pc \in InDelivery) = TRUE
        /\ Pending' = FALSE /\ Cardinality(Taken') = n
    BY <1>3, <1>10 DEF Returned, Pending, InDelivery
  <2>2. CASE Pending /\ accepted' = accepted + 1 /\ UNCHANGED rejected
    <3>1. Pending = TRUE
      BY <2>2 DEF Pending
    <3>2. Balance(processed, accepted + 1, rejected, n, FALSE, FALSE)
      BY <1>1, <1>2, <2>1, <3>1, BalanceSteps
    <3> QED
      BY <2>1, <2>2, <3>2
  <2>3. CASE ~Pending /\ rejected' = rejected + 1 /\ UNCHANGED accepted
    <3>1. Pending = FALSE
      BY <2>3 DEF Pending
    <3>2. Balance(processed, accepted, rejected + 1, n, FALSE, FALSE)
      BY <1>1, <1>2, <2>1, <3>1, BalanceSteps
    <3> QED
      BY <2>1, <2>3, <3>2
  <2> QED
    BY <1>10, <2>2, <2>3 DEF Returned
<1> QED
  BY <1>6, <1>7, <1>8, <1>9, <1>10, CountedStep DEF Counted
-----------------------------------------------------------------------------
(***************************************************************************)
(* The theorems.                                                            *)
(***************************************************************************)
LEMMA InitInv == Init => IInv
<1> SUFFICES ASSUME Init PROVE IInv
  OBVIOUS
<1>1. TypeOK
  BY InitType
<1>2. TxnInv
  BY DEF Init, TxnInv, InDelivery, NoDelivery
<1>3. PlanInv /\ OutcomeInv
  BY DEF Init, PlanInv, OutcomeInv, InDelivery
<1>4. ForwardInv
  BY DEF Init, ForwardInv, EnvelopeInSync, NoUpstream
<1>5. AuthInv
  BY DEF Init, AuthInv, NoUpstream
<1>6. SenderInv /\ DeliveredAsPlanned /\ MarkerIsOurs
  BY DEF Init, SenderInv, DeliveredAsPlanned, MarkerIsOurs, NoDelivery
<1>7. HonestAnswers
  BY DEF Init, HonestAnswers, Contract!Honest, Contract!Msgs, Contract!Truthful, Txns
<1> QED
  BY <1>1, <1>2, <1>3, <1>4, <1>5, <1>6, <1>7 DEF IInv

LEMMA InvStep == IInv /\ [Next]_vars => IInv'
  BY TypeStep, TxnStep, PlanStep, ForwardStep, OutcomeStep, AuthStep, SenderStep,
     DeliveredStep, MarkStep, HonestStep DEF IInv, ForwardInv

\* The invariant behind the safety properties holds for any clients, policies,
\* upstream servers and delivery hosts.
THEOREM Invariance == Spec => []IInv
  BY InitInv, InvStep, PTL DEF Spec

\* The envelope acknowledged to the client is the one the upstream accepted.
THEOREM EnvelopeStaysInSync == Spec => []EnvelopeInSync
<1>1. IInv => EnvelopeInSync
  BY DEF IInv, ForwardInv
<1> QED
  BY <1>1, Invariance, PTL

\* The next hop gets one copy, for all recipients of the plan, or nothing.
THEOREM DeliveryFollowsPlan == Spec => []DeliveredAsPlanned
<1>1. IInv => DeliveredAsPlanned
  BY DEF IInv
<1> QED
  BY <1>1, Invariance, PTL

\* No client's copy of the quarantine marker reaches the next hop, whatever header
\* edits the policy leaves; the proxy's own does exactly when it quarantined the
\* message, and a copy of the policy's only with the message it wrote it on.
THEOREM MarkerStaysOurs == Spec => []MarkerIsOurs
<1>1. IInv => MarkerIsOurs
  BY DEF IInv
<1> QED
  BY <1>1, Invariance, PTL

\* The counters GetStats reports agree with what happened to every message, however
\* many sessions and transactions there were: one processed is accepted, rejected or
\* in delivery, and the accepted ones are those the next hop acknowledged (the three
\* critical sections of handleDATA).
THEOREM StatsStayTruthful == Spec => []StatsTruthful
<1>1. Init => StatsTruthful
  <2> SUFFICES ASSUME Init PROVE StatsTruthful
    OBVIOUS
  <2>1. Taken = {}
    BY DEF Init, Taken, NoDelivery
  <2>2. Cardinality(Taken) = 0
    BY <2>1, FS_EmptySet
  <2>3. /\ processed = 0 /\ accepted = 0 /\ rejected = 0
        /\ (pc \in InDelivery) = FALSE /\ Pending = FALSE
    BY DEF Init, InDelivery, Pending
  <2>4. Balance(0, 0, 0, 0, FALSE, FALSE)
    BY DEF Balance
  <2> QED
    BY <2>2, <2>3, <2>4, StatsBalance
<1>2. IInv /\ StatsTruthful /\ [Next]_vars => StatsTruthful'
  BY StatsStep DEF IInv
<1> QED
  BY <1>1, <1>2, Invariance, PTL DEF Spec

\* A submission is sent under the identity its client has proved.
THEOREM SubmissionIsAuthenticated == Spec => []SubmissionIdentity
<1>1. IInv => SubmissionIdentity
  BY SubmissionFollows DEF IInv
<1> QED
  BY <1>1, Invariance, PTL

\* An answer that is no 250 to a message the next hop does not hold, and the
\* answer that deliver()'s outcome stands for, are answers of the contract.
LEMMA AnswerStep ==
  ASSUME TypeOK, txn \in Txns, answer[txn] = "none", UNCHANGED <<txn, delivered>>,
         NEW status \in Statuses, ReplyToData(status),
         Contract!Truthful(status, Custody[txn])
  PROVE  Contract!Next
<1> DEFINE said == IF conn = "open" THEN status ELSE "unseen"
<1>1. said \in {"250", "4xx", "5xx", "unseen"} /\ Contract!Truthful(said, Custody[txn])
  BY DEF Statuses, Contract!Truthful
<1>2. answer' = [answer EXCEPT ![txn] = said]
  BY DEF ReplyToData
<1>3. Custody' = Custody
  BY DEF Custody
<1>4. Contract!Answer(txn)
  BY <1>1, <1>2, <1>3 DEF Contract!Answer
<1> QED
  BY <1>4 DEF Contract!Next, Contract!Msgs, Txns

\* A transfer is the contract's Take.
LEMMA TakeStep ==
  ASSUME TypeOK, TxnInv, ForwardDot \/ HostTakes
  PROVE  Contract!Next
<1> DEFINE know == IF delivered'[txn].lost THEN "unsure" ELSE "yes"
<1>1. /\ txn \in Txns /\ answer[txn] = "none" /\ delivered[txn].copies = 0
      /\ txn' = txn /\ answer' = answer
  BY DEF TxnInv, InDelivery, ForwardDot, HostTakes
<1>2. /\ delivered'[txn].copies = 1
      /\ \A t \in Txns : t # txn => delivered'[t] = delivered[t]
  BY Transferred
<1>3. Custody[txn] = "no" /\ know \in {"yes", "unsure"}
  BY <1>1 DEF Custody
<1>4. Custody' = [Custody EXCEPT ![txn] = know]
  <2>1. Custody'[txn] = know
    BY <1>1, <1>2 DEF Custody
  <2>2. \A t \in Txns : t # txn => Custody'[t] = Custody[t]
    BY <1>2 DEF Custody
  <2>3. Custody' = [t \in Txns |-> Custody'[t]] /\ Custody = [t \in Txns |-> Custody[t]]
    BY DEF Custody
  <2> HIDE DEF know
  <2> QED
    BY <1>1, <2>1, <2>2, <2>3
<1>5. Contract!Take(txn)
  BY <1>1, <1>3, <1>4 DEF Contract!Take
<1> QED
  BY <1>1, <1>5 DEF Contract!Next, Contract!Msgs, Txns

\* Every step of a session is a step of the contract or leaves it alone.
LEMMA RefinementStep == TypeOK /\ TxnInv /\ OutcomeInv /\ [Next]_vars => [Contract!Next]_(Contract!vars)
<1> SUFFICES ASSUME TypeOK, TxnInv, OutcomeInv, [Next]_vars PROVE [Contract!Next]_(Contract!vars)
  OBVIOUS
<1> USE DEF sessionVars, envelopeVars, forwardVars, statsVars, historyVars
<1>1. ASSUME UNCHANGED config, Hello PROVE [Contract!Next]_(Contract!vars)
  BY <1>1 DEF Hello, resetTransaction, Custody, Contract!vars
<1>2. ASSUME UNCHANGED config, Rset PROVE [Contract!Next]_(Contract!vars)
  BY <1>2 DEF Rset, resetTransaction, Custody, Contract!vars
<1>3. ASSUME UNCHANGED config, StartTLS PROVE [Contract!Next]_(Contract!vars)
  BY <1>3 DEF StartTLS, resetTransaction, Custody, Contract!vars
<1>4. ASSUME UNCHANGED config, StartTLSFailed PROVE [Contract!Next]_(Contract!vars)
  BY <1>4 DEF StartTLSFailed, Custody, Contract!vars
<1>5. ASSUME NEW u \in User, UNCHANGED config, Auth(u) PROVE [Contract!Next]_(Contract!vars)
  BY <1>5 DEF Auth, Custody, Contract!vars
<1>6. ASSUME UNCHANGED config, Mail PROVE [Contract!Next]_(Contract!vars)
  <2>1. Custody' = Custody
    BY <1>6 DEF Mail, Custody
  <2> QED
    BY <1>6, <2>1 DEF Mail, Contract!Next, Contract!Begin
<1>7. ASSUME UNCHANGED config, MailFailed PROVE [Contract!Next]_(Contract!vars)
  BY <1>7 DEF MailFailed, MailAllowed, resetTransaction, upstreamFailure, Custody, Contract!vars
<1>8. ASSUME NEW r \in Addr, UNCHANGED config, Rcpt(r) PROVE [Contract!Next]_(Contract!vars)
  BY <1>8 DEF Rcpt, RcptAllowed, WithRcpt, Custody, Contract!vars
<1>9. ASSUME UNCHANGED config, RcptRefused PROVE [Contract!Next]_(Contract!vars)
  BY <1>9 DEF RcptRefused, RcptAllowed, upstreamFailure, Custody, Contract!vars
<1>10. ASSUME UNCHANGED config, RcptLost PROVE [Contract!Next]_(Contract!vars)
  BY <1>10 DEF RcptLost, RcptAllowed, resetTransaction, Custody, Contract!vars
<1>11. ASSUME UNCHANGED config, Data PROVE [Contract!Next]_(Contract!vars)
  BY <1>11 DEF Data, Custody, Contract!vars
<1>12. ASSUME UNCHANGED config, AuthAccepted PROVE [Contract!Next]_(Contract!vars)
  BY <1>12 DEF AuthAccepted, Custody, Contract!vars
<1>13. ASSUME UNCHANGED config, AuthRefused PROVE [Contract!Next]_(Contract!vars)
  BY <1>13 DEF AuthRefused, Custody, Contract!vars
<1>14. ASSUME UNCHANGED config, ReadMessage PROVE [Contract!Next]_(Contract!vars)
  BY <1>14 DEF ReadMessage, Custody, Contract!vars
<1>15. ASSUME UNCHANGED config, ReadFailed PROVE [Contract!Next]_(Contract!vars)
  <2>1. CASE UNCHANGED answer
    BY <1>15, <2>1 DEF ReadFailed, Custody, Contract!vars
  <2>2. CASE ReplyToData("5xx")
    <3>1. /\ txn \in Txns /\ answer[txn] = "none" /\ Custody[txn] = "no"
          /\ UNCHANGED <<txn, delivered>>
      BY <1>15 DEF ReadFailed, TxnInv, InDelivery, Custody
    <3>2. "5xx" \in Statuses /\ Contract!Truthful("5xx", Custody[txn])
      BY <3>1 DEF Statuses, Contract!Truthful
    <3> QED
      BY <2>2, <3>1, <3>2, AnswerStep
  <2> QED
    BY <1>15, <2>1, <2>2 DEF ReadFailed
<1>16. ASSUME UNCHANGED config, EvaluationFailed PROVE [Contract!Next]_(Contract!vars)
  <2>1. /\ txn \in Txns /\ answer[txn] = "none" /\ Custody[txn] = "no"
        /\ UNCHANGED <<txn, delivered>>
    BY <1>16 DEF EvaluationFailed, RefuseMessage, TxnInv, InDelivery, Custody
  <2>3. PICK status \in {"4xx", "5xx"} : ReplyToData(status)
    BY <1>16 DEF EvaluationFailed, RefuseMessage
  <2>4. status \in Statuses /\ Contract!Truthful(status, Custody[txn])
    BY <2>1 DEF Statuses, Contract!Truthful
  <2> QED
    BY <2>1, <2>3, <2>4, AnswerStep
<1>17. ASSUME NEW run \in PolicyRuns, UNCHANGED config, PolicyRefuses(run) PROVE [Contract!Next]_(Contract!vars)
  <2>1. /\ txn \in Txns /\ answer[txn] = "none" /\ Custody[txn] = "no"
        /\ UNCHANGED <<txn, delivered>>
    BY <1>17 DEF PolicyRefuses, RefuseMessage, TxnInv, InDelivery, Custody
  <2>2. ClassOf(PlanOf(run).code) \in {"4xx", "5xx"}
    BY <1>17 DEF PolicyRefuses, ClassOf
  <2>3. PICK status \in {"4xx", "5xx"} : ReplyToData(status)
    BY <1>17, <2>2 DEF PolicyRefuses, RefuseMessage
  <2>4. status \in Statuses /\ Contract!Truthful(status, Custody[txn])
    BY <2>1 DEF Statuses, Contract!Truthful
  <2> QED
    BY <2>1, <2>3, <2>4, AnswerStep
<1>18. ASSUME NEW run \in PolicyRuns, UNCHANGED config, PolicyAccepts(run) PROVE [Contract!Next]_(Contract!vars)
  BY <1>18 DEF PolicyAccepts, Custody, Contract!vars
<1>19. ASSUME UNCHANGED config, DeliverBadEnvelope PROVE [Contract!Next]_(Contract!vars)
  BY <1>19 DEF DeliverBadEnvelope, Settle, Undelivered, Custody, Contract!vars
<1>20. ASSUME UNCHANGED config, Deliver PROVE [Contract!Next]_(Contract!vars)
  BY <1>20 DEF Deliver, Settle, Undelivered, Custody, Contract!vars
<1>21. ASSUME UNCHANGED config, BeginUpstream PROVE [Contract!Next]_(Contract!vars)
  BY <1>21 DEF BeginUpstream, Undelivered, Custody, Contract!vars
<1>22. ASSUME UNCHANGED config, BeginUpstreamFailed PROVE [Contract!Next]_(Contract!vars)
  BY <1>22 DEF BeginUpstreamFailed, Settle, Undelivered, Custody, Contract!vars
<1>23. ASSUME NEW r \in Addr, UNCHANGED config, ForwardRcpt(r) PROVE [Contract!Next]_(Contract!vars)
  BY <1>23 DEF ForwardRcpt, WithRcpt, Undelivered, Custody, Contract!vars
<1>24. ASSUME NEW r \in Addr, UNCHANGED config, ForwardRcptRefused(r) PROVE [Contract!Next]_(Contract!vars)
  BY <1>24 DEF ForwardRcptRefused, Undelivered, Custody, Contract!vars
<1>25. ASSUME UNCHANGED config, ForwardRcptLost PROVE [Contract!Next]_(Contract!vars)
  BY <1>25 DEF ForwardRcptLost, Settle, Undelivered, Custody, Contract!vars
<1>26. ASSUME UNCHANGED config, ForwardRcptsDone PROVE [Contract!Next]_(Contract!vars)
  BY <1>26 DEF ForwardRcptsDone, Settle, Undelivered, Custody, Contract!vars
<1>27. ASSUME UNCHANGED config, ForwardData PROVE [Contract!Next]_(Contract!vars)
  BY <1>27 DEF ForwardData, Undelivered, Custody, Contract!vars
<1>28. ASSUME UNCHANGED config, ForwardDataFailed PROVE [Contract!Next]_(Contract!vars)
  BY <1>28 DEF ForwardDataFailed, Settle, Undelivered, Custody, Contract!vars
<1>29. ASSUME UNCHANGED config, ForwardDot PROVE [Contract!Next]_(Contract!vars)
  BY <1>29, TakeStep
<1>30. ASSUME UNCHANGED config, DeliverToHost PROVE [Contract!Next]_(Contract!vars)
  BY <1>30 DEF DeliverToHost, Settle, Undelivered, Custody, Contract!vars
<1>31. ASSUME UNCHANGED config, HostTakes PROVE [Contract!Next]_(Contract!vars)
  BY <1>31, TakeStep
<1>32. ASSUME UNCHANGED config, HostRefuses PROVE [Contract!Next]_(Contract!vars)
  BY <1>32 DEF HostRefuses, Settle, Undelivered, Custody, Contract!vars
<1>33. ASSUME UNCHANGED config, Reply PROVE [Contract!Next]_(Contract!vars)
  <2>1. /\ txn \in Txns /\ answer[txn] = "none" /\ UNCHANGED <<txn, delivered>>
        /\ outcome \in Statuses /\ ReplyToData(outcome)
    BY <1>33 DEF Reply, TxnInv, InDelivery, OutcomeInv
  <2>2. Contract!Truthful(outcome, Custody[txn])
    BY <1>33, <2>1 DEF Reply, OutcomeInv, Contract!Truthful, Custody
  <2> QED
    BY <2>1, <2>2, AnswerStep
<1>34. ASSUME UNCHANGED config, ConnLost PROVE [Contract!Next]_(Contract!vars)
  BY <1>34 DEF ConnLost, Custody, Contract!vars
<1>35. ASSUME UNCHANGED config, EndSession PROVE [Contract!Next]_(Contract!vars)
  BY <1>35 DEF EndSession, resetTransaction, Custody, Contract!vars
<1>36. ASSUME UNCHANGED config, NewSession PROVE [Contract!Next]_(Contract!vars)
  BY <1>36 DEF NewSession, Custody, Contract!vars
<1>37. CASE UNCHANGED vars
  BY <1>37 DEF vars, Custody, Contract!vars
<1> QED
  BY <1>1, <1>2, <1>3, <1>4, <1>5, <1>6, <1>7, <1>8, <1>9, <1>10, <1>11,
     <1>12, <1>13, <1>14, <1>15, <1>16, <1>17, <1>18, <1>19, <1>20, <1>21,
     <1>22, <1>23, <1>24, <1>25, <1>26, <1>27, <1>28, <1>29, <1>30, <1>31,
     <1>32, <1>33, <1>34, <1>35, <1>36, <1>37
     DEF Next, Client, Handler, Connection

LEMMA InitContract == Init => Contract!Init
<1> SUFFICES ASSUME Init PROVE Contract!Init
  OBVIOUS
<1>1. txn = 0 /\ answer = [t \in Contract!Msgs |-> "none"]
  BY DEF Init, Contract!Msgs, Txns
<1>2. Custody = [t \in Contract!Msgs |-> "no"]
  BY DEF Init, Custody, NoDelivery, Contract!Msgs, Txns
<1> QED
  BY <1>1, <1>2 DEF Contract!Init

\* The proxy keeps the contract of a relay: it says 250 only of what the next
\* hop has taken, 5xx only of what it has not, and once.
THEOREM KeepsContract == Spec => ImplementsContract
<1>1. IInv /\ [Next]_vars => [Contract!Next]_(Contract!vars)
  BY RefinementStep DEF IInv
<1> QED
  BY <1>1, InitContract, Invariance, PTL DEF Spec, ImplementsContract, Contract!Spec
=============================================================================
