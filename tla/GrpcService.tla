---------------------------- MODULE GrpcService ----------------------------
(***************************************************************************)
(* The gRPC service (cmd/mailscript/grpc_server.go): callers hand messages   *)
(* in, alone or one after the other on a stream; each is evaluated with the   *)
(* policy in force when its evaluation begins, and passed on when the caller  *)
(* asks for it and the policy does not object.  The policy is reloaded        *)
(* meanwhile (PolicyReload), and what its actions mean is PolicyDisposition.  *)
(* The delivery itself is SmtpSession's; here it only succeeds or fails.     *)
(***************************************************************************)
EXTENDS PolicyReload, PolicyDisposition

CONSTANTS
  Caller,
  Requests,     \* [valid, forward, envelopeOk]
  Deliveries,   \* how deliver may end: [taken, code], 0 for an error of its own
  hasToken, loopback,                 \* the listener's configuration
  upstreamServer, hostAdapter, forwardQuarantine,
  MaxMessages   \* bound of the model

ASSUME GrpcAssumption ==
  /\ \A c \in {hasToken, loopback, upstreamServer, hostAdapter, forwardQuarantine} :
       c \in BOOLEAN
  /\ \A s \in Sources : s.actions \in Seq(Actions)
  /\ \A d \in Deliveries : /\ d.taken \in BOOLEAN /\ d.code \in Nat
                           /\ d.code # 0 => (d.taken <=> d.code = 250)
  /\ MaxMessages \in Nat

VARIABLES
  call,      \* what each caller's current message has come to
  received,  \* messages handed in
  stats      \* MessagesProcessed, MessagesAccepted, MessagesRejected

vars == <<reloadVars, call, received, stats>>

NoCall == [phase |-> "closed", token |-> "none", req |-> [valid |-> FALSE],
           snapshot |-> NoPolicy, walk |-> NoWalk, actions |-> <<>>,
           taken |-> FALSE, forwarded |-> FALSE, accepted |-> FALSE, code |-> 0]

Init ==
  /\ InitReload
  /\ call = [c \in Caller |-> NoCall] /\ received = 0
  /\ stats = [processed |-> 0, accepted |-> 0, rejected |-> 0]

Become(c, new) == call' = [call EXCEPT ![c] = new]
Respond(c, code) == [call[c] EXCEPT !.phase = "answered", !.code = code]

\* newGRPCServer: without a token it listens on loopback only; it serves once
\* the first policy is loaded.
Serving == policy # NoPolicy /\ (hasToken \/ loopback)

\* authorize: the interceptors run it once, when the call or stream opens.
authorize(token) == hasToken => token = "right"

Open(c, token) ==
  /\ call[c].phase = "closed" /\ Serving
  /\ authorize(token)
  /\ Become(c, [NoCall EXCEPT !.phase = "ready", !.token = token])
  /\ UNCHANGED <<reloadVars, received, stats>>

\* A unary call ends with its answer, a stream when the caller has no more.
Close(c) ==
  /\ call[c].phase \in {"ready", "answered"}
  /\ Become(c, NoCall)
  /\ UNCHANGED <<reloadVars, received, stats>>

\* executePolicy: the snapshot is the one in force now.  A message that does
\* not parse is refused before that.
ProcessMessage(c, req) ==
  /\ call[c].phase \in {"ready", "answered"}
  /\ received < MaxMessages /\ received' = received + 1
  /\ IF req.valid
     THEN Become(c, [NoCall EXCEPT !.phase = "evaluating", !.token = call[c].token, !.req = req,
                       !.snapshot = policy,
                       !.walk = Enter([NoWalk EXCEPT !.status = "reading"], root, policy[root])])
     ELSE Become(c, [NoCall EXCEPT !.phase = "answered", !.token = call[c].token,
                       !.req = req, !.code = 550])
  /\ UNCHANGED <<reloadVars, stats>>

Walking(c) == call[c].phase = "evaluating" /\ call[c].walk.status = "reading"

\* The load statement is done; one that fails ends the evaluation.
Loaded(c, walk) ==
  Become(c, [IF walk.status = "failed" THEN Respond(c, 451) ELSE call[c]
             EXCEPT !.walk = walk])

\* Slip: a module is looked up in the policy now in force.
EvaluateLoadLatest(c) ==
  /\ Walking(c) /\ Head(call[c].walk.stack).todo # <<>>
  /\ Loaded(c, Follow(call[c].walk, policy))
  /\ UNCHANGED <<reloadVars, received, stats>>

\* thread.Load: modules come from the snapshot the evaluation began with.
EvaluateLoad(c) ==
  /\ Walking(c) /\ Head(call[c].walk.stack).todo # <<>>
  /\ Loaded(c, Follow(call[c].walk, call[c].snapshot))
  /\ UNCHANGED <<reloadVars, received, stats>>

\* The file's own code runs and leaves its actions, or fails: 451, not counted.
EvaluateFile(c) ==
  /\ Walking(c) /\ Head(call[c].walk.stack).todo = <<>>
  /\ LET source == Head(call[c].walk.stack).source
         walk == Leave(call[c].walk)
     IN  IF source.fails THEN Become(c, Respond(c, 451))
         ELSE Become(c, [call[c] EXCEPT
                           !.walk = walk,
                           !.actions = @ \o source.actions,
                           !.phase = IF walk.status = "complete" THEN "decide" ELSE @])
  /\ UNCHANGED <<reloadVars, received, stats>>

Disposition(c) == policyDisposition(call[c].actions, forwardQuarantine \/ hostAdapter)

Refused(c, code) == [call[c] EXCEPT !.phase = "count", !.code = code]

\* Slip: what the caller wants delivered is delivered unless it is rejected.
DecideLeniently(c) ==
  /\ call[c].phase = "decide"
  /\ LET d == Disposition(c)
     IN  IF call[c].req.forward /\ d.code # 550 /\ call[c].req.envelopeOk
         THEN Become(c, [call[c] EXCEPT !.phase = "deliver", !.code = d.code])
         ELSE Become(c, [call[c] EXCEPT !.phase = "count", !.code = d.code,
                                        !.accepted = (d.code = 250)])
  /\ UNCHANGED <<reloadVars, received, stats>>

\* From the disposition to the point where deliver is called.
Decide(c) ==
  /\ call[c].phase = "decide"
  /\ LET d == Disposition(c)
         req == call[c].req
         refuse == \/ HasUnsupportedAction(call[c].actions) /\ ~hostAdapter
                   \/ ~upstreamServer \/ ~req.envelopeOk
     IN  \/ /\ d.code # 250
            /\ Become(c, Refused(c, d.code))
         \/ /\ d.code = 250 /\ req.forward /\ refuse
            /\ Become(c, Refused(c, 451))
         \/ /\ d.code = 250 /\ req.forward /\ ~refuse
            /\ Become(c, [call[c] EXCEPT !.phase = "deliver", !.code = 250])
         \/ /\ d.code = 250 /\ ~req.forward
            /\ Become(c, [call[c] EXCEPT !.phase = "count", !.accepted = TRUE, !.code = 250])
  /\ UNCHANGED <<reloadVars, received, stats>>

Deliver(c) ==
  /\ call[c].phase = "deliver"
  /\ \E d \in Deliveries :
       Become(c, [call[c] EXCEPT !.phase = "count", !.taken = d.taken,
                    !.forwarded = (d.code = 250), !.accepted = (d.code = 250),
                    !.code = IF d.code = 0 THEN 451 ELSE d.code])
  /\ UNCHANGED <<reloadVars, received, stats>>

\* The counters, under their lock; then the answer.
Count(c) ==
  /\ call[c].phase = "count"
  /\ stats' = [stats EXCEPT !.processed = @ + 1,
                            !.accepted = IF call[c].accepted THEN @ + 1 ELSE @,
                            !.rejected = IF call[c].accepted THEN @ ELSE @ + 1]
  /\ Become(c, Respond(c, call[c].code))
  /\ UNCHANGED <<reloadVars, received>>

Handle(c) ==
  \/ EvaluateLoad(c) \/ EvaluateFile(c)
  \/ Decide(c) \/ Deliver(c) \/ Count(c)

Next ==
  \/ NextReload /\ UNCHANGED <<call, received, stats>>
  \/ \E c \in Caller :
       \/ \E token \in {"right", "wrong"} : Open(c, token)
       \/ \E req \in Requests : ProcessMessage(c, req)
       \/ Handle(c) \/ Close(c)

\* The main loop takes a signal that is waiting and finishes the load it began.
Spec == Init /\ [][Next]_vars /\ WF_vars(MainLoop /\ UNCHANGED <<call, received, stats>>)
-----------------------------------------------------------------------------
(***************************************************************************)
(* Properties                                                               *)
(***************************************************************************)
\* Every evaluation sees one published policy, its root and modules from the
\* same snapshot, however reloads fall among its steps (lifecycle.go:
\* executePolicy; engine.go: thread.Load).
OnePolicyPerMessage ==
  \A c \in Caller : \E p \in installed \union {NoPolicy} :
    /\ \A f \in DOMAIN call[c].walk.done :
         f \in DOMAIN p /\ call[c].walk.done[f] = p[f]
    /\ \A i \in DOMAIN call[c].walk.stack :
         LET frame == call[c].walk.stack[i]
         IN  frame.file \in DOMAIN p /\ frame.source = p[frame.file]

\* Whatever is edited while a policy is read, a published one has every module
\* its files load and no cycle: no evaluation fails for its structure
\* (policy.go: LoadPolicy; engine.go: "absent from policy snapshot").
PublishedPolicyRuns ==
  \A c \in Caller : call[c].walk.status # "failed"

\* A message is handed on only when an authorised caller asked for it, for a
\* valid envelope, and nothing in the actions of its policy blocks it or needs a
\* host that is not there; the answer says 250 for what was taken or only asked
\* about, and never that a message was refused by policy when it was taken
\* (grpc_server.go: ProcessMessage).
AnswersAreHonest ==
  \A c \in Caller :
    /\ call[c].taken =>
         /\ hasToken => call[c].token = "right"
         /\ call[c].req.forward /\ call[c].req.envelopeOk
         /\ \A i \in DOMAIN call[c].actions :
              ~Blocks(call[c].actions[i], forwardQuarantine \/ hostAdapter)
         /\ HasUnsupportedAction(call[c].actions) => hostAdapter
    /\ call[c].phase = "answered" =>
         /\ call[c].accepted <=> call[c].code = 250
         /\ call[c].accepted /\ call[c].req.forward <=> call[c].forwarded
         /\ call[c].forwarded => call[c].taken
         /\ call[c].code \in 500..599 => ~call[c].taken

\* Every file can be parsed and none loads itself, however indirectly.
LoadsInOrder ==
  /\ \A f \in File : files[f].ok
  /\ \E depth \in [File -> 1..Cardinality(File)] : \A f \in File :
       \A i \in DOMAIN files[f].loads : depth[files[f].loads[i]] > depth[f]

\* When the administrator has left the files alone since the last signal and
\* they are in order, what they say is in the end in force: a signal that comes
\* while a reload is under way is not lost (proxy.go: the reload channel).
EditsTakeEffect ==
  []<>(signalled /\ LoadsInOrder /\ reader.status # "stopped" =>
         policy # NoPolicy /\ \A f \in DOMAIN policy : policy[f] = files[f])
=============================================================================
