--------------------------- MODULE ProxyLifecycle ---------------------------
(***************************************************************************)
(* The proxy process: its accept loops, the connection limit, the sessions    *)
(* it starts, and the bounded drain that ends it (cmd/mailscript: runProxy    *)
(* and serveSMTP in proxy.go, drain in lifecycle.go).                        *)
(*                                                                         *)
(* One goroutine per listener accepts, one per connection serves it, and the  *)
(* main goroutine waits for a signal or a failed server and then drains.      *)
(* They share the counters (stats mutex), and draining, active and the        *)
(* WaitGroup sessions (connMutex): an action is one critical section.         *)
(*                                                                         *)
(* What a session says is SmtpSession's; here it runs until it ends by        *)
(* itself or its connection is closed.  An RPC is a number in flight.         *)
(***************************************************************************)
EXTENDS Naturals, FiniteSets

CONSTANTS
  Conns,           \* connections clients make, each once
  Listeners,       \* one per --port
  NoConn,
  MaxConnections,  \* --max-connections
  MaxRpcs          \* bound of the model: RPCs in flight at a time

ASSUME LifecycleAssumption ==
  /\ NoConn \notin Conns
  /\ IsFiniteSet(Listeners)            \* as many as --port names
  /\ MaxConnections \in Nat \ {0}      \* runProxy
  /\ MaxRpcs \in Nat

VARIABLES
  main,                \* the main goroutine: "serving", "closing", "waiting", "exited"
  draining,
  listening,           \* [Listeners -> BOOLEAN]
  loop,                \* each accept loop: what it does next
  holding,             \* the connection it is doing it with
  failures,            \* servers that have returned, on the failures channel
  socket,              \* each connection: "new", "open", "closed"
  session,             \* each connection's goroutine
  TotalConnections, ActiveConnections,
  active,              \* connections drain may close
  sessions,            \* the WaitGroup's counter
  rpc,                 \* the gRPC server: "serving", "stopping", "stopped"
  rpcs,                \* RPCs in flight
  sessionsDone, rpcDone, \* what drain has been told
  timedOut             \* drain gave up waiting

loopVars == <<listening, loop, holding, failures>>
connVars == <<socket, session>>
countVars == <<TotalConnections, ActiveConnections>>
lockVars == <<draining, active, sessions>>
rpcVars == <<rpc, rpcs>>
drainVars == <<sessionsDone, rpcDone, timedOut>>
vars == <<main, loopVars, connVars, countVars, lockVars, rpcVars, drainVars>>

Init ==
  /\ main = "serving" /\ draining = FALSE
  /\ listening = [l \in Listeners |-> TRUE]
  /\ loop = [l \in Listeners |-> "accept"]
  /\ holding = [l \in Listeners |-> NoConn]
  /\ failures = 0
  /\ socket = [c \in Conns |-> "new"]
  /\ session = [c \in Conns |-> "none"]
  /\ TotalConnections = 0 /\ ActiveConnections = 0
  /\ active = {} /\ sessions = 0
  /\ rpc = "serving" /\ rpcs = 0
  /\ sessionsDone = FALSE /\ rpcDone = FALSE /\ timedOut = FALSE

\* The process is there until runProxy returns.
Alive == main # "exited"

(***************************************************************************)
(* serveSMTP: the accept loop of a listener.                                *)
(***************************************************************************)
Accept(l, c) ==
  /\ Alive /\ loop[l] = "accept" /\ listening[l]
  /\ socket[c] = "new"
  /\ socket' = [socket EXCEPT ![c] = "open"]
  /\ holding' = [holding EXCEPT ![l] = c]
  /\ loop' = [loop EXCEPT ![l] = "admit"]
  /\ UNCHANGED <<main, listening, failures, session, countVars, lockVars,
                 rpcVars, drainVars>>

\* Slip: the loop goes on after a failed Accept.
AcceptFailsAndGoesOn(l) ==
  /\ Alive /\ loop[l] = "accept"
  /\ failures' = failures + 1
  /\ UNCHANGED <<main, listening, loop, holding, connVars, countVars, lockVars,
                 rpcVars, drainVars>>

\* Accept fails: the listener is closed, or out of descriptors.  Either way the
\* loop returns and the main goroutine hears of it.
AcceptFails(l) ==
  /\ Alive /\ loop[l] = "accept"
  /\ loop' = [loop EXCEPT ![l] = "returned"]
  /\ failures' = failures + 1
  /\ UNCHANGED <<main, listening, holding, connVars, countVars, lockVars,
                 rpcVars, drainVars>>

\* Slip: the limit is looked at in one critical section and counted in another.
AdmitLate(l) ==
  /\ Alive /\ loop[l] = "admit"
  /\ TotalConnections' = TotalConnections + 1
  /\ Cardinality({c \in Conns : session[c] = "running"}) < MaxConnections
  /\ ActiveConnections' = ActiveConnections + 1
  /\ loop' = [loop EXCEPT ![l] = "register"]
  /\ UNCHANGED <<main, listening, holding, failures, connVars, lockVars, rpcVars,
                 drainVars>>

\* The limit is checked and the slot taken under the stats mutex.
Admit(l) ==
  /\ Alive /\ loop[l] = "admit"
  /\ TotalConnections' = TotalConnections + 1
  /\ ActiveConnections < MaxConnections
  /\ ActiveConnections' = ActiveConnections + 1
  /\ loop' = [loop EXCEPT ![l] = "register"]
  /\ UNCHANGED <<main, listening, holding, failures, connVars, lockVars, rpcVars,
                 drainVars>>

\* 421 Too many connections.
TurnAway(l) ==
  /\ Alive /\ loop[l] = "admit"
  /\ TotalConnections' = TotalConnections + 1
  /\ ActiveConnections >= MaxConnections
  /\ socket' = [socket EXCEPT ![holding[l]] = "closed"]
  /\ holding' = [holding EXCEPT ![l] = NoConn]
  /\ loop' = [loop EXCEPT ![l] = "accept"]
  /\ UNCHANGED <<main, listening, failures, session, ActiveConnections, lockVars,
                 rpcVars, drainVars>>

StartSession(l) ==
  /\ active' = active \union {holding[l]}
  /\ sessions' = sessions + 1
  /\ session' = [session EXCEPT ![holding[l]] = "running"]
  /\ holding' = [holding EXCEPT ![l] = NoConn]
  /\ loop' = [loop EXCEPT ![l] = "accept"]

\* Slip: a drain that has begun is not looked for.
RegisterAnyway(l) ==
  /\ Alive /\ loop[l] = "register"
  /\ StartSession(l)
  /\ UNCHANGED <<main, draining, listening, failures, socket, countVars, rpcVars,
                 drainVars>>

\* Slip: the session's connection is not among those a drain can close.
RegisterUntracked(l) ==
  /\ Alive /\ loop[l] = "register" /\ ~draining
  /\ sessions' = sessions + 1
  /\ session' = [session EXCEPT ![holding[l]] = "running"]
  /\ holding' = [holding EXCEPT ![l] = NoConn]
  /\ loop' = [loop EXCEPT ![l] = "accept"]
  /\ UNCHANGED <<main, draining, active, listening, failures, socket, countVars,
                 rpcVars, drainVars>>

Register(l) ==
  /\ Alive /\ loop[l] = "register" /\ ~draining
  /\ StartSession(l)
  /\ UNCHANGED <<main, draining, listening, failures, socket, countVars, rpcVars,
                 drainVars>>

\* The connection came in as the drain began.
RegisterRefused(l) ==
  /\ Alive /\ loop[l] = "register" /\ draining
  /\ socket' = [socket EXCEPT ![holding[l]] = "closed"]
  /\ loop' = [loop EXCEPT ![l] = "withdraw"]
  /\ UNCHANGED <<main, listening, holding, failures, session, countVars, lockVars,
                 rpcVars, drainVars>>

Withdraw(l) ==
  /\ Alive /\ loop[l] = "withdraw"
  /\ ActiveConnections' = ActiveConnections - 1
  /\ holding' = [holding EXCEPT ![l] = NoConn]
  /\ loop' = [loop EXCEPT ![l] = "returned"]
  /\ failures' = failures + 1
  /\ UNCHANGED <<main, listening, connVars, TotalConnections, lockVars, rpcVars,
                 drainVars>>

(***************************************************************************)
(* A session.  When it ends its deferred calls run one after the other.      *)
(***************************************************************************)
ClientCloses(c) ==
  /\ Alive /\ socket[c] = "open" /\ session[c] = "running"
  /\ socket' = [socket EXCEPT ![c] = "closed"]
  /\ UNCHANGED <<main, loopVars, session, countVars, lockVars, rpcVars, drainVars>>

\* QUIT, end of input, the deadline, or a closed connection.
SessionEnds(c) ==
  /\ Alive /\ session[c] = "running"
  /\ socket' = [socket EXCEPT ![c] = "closed"]
  /\ ActiveConnections' = ActiveConnections - 1
  /\ session' = [session EXCEPT ![c] = "closed"]
  /\ UNCHANGED <<main, loopVars, TotalConnections, lockVars, rpcVars, drainVars>>

SessionForgotten(c) ==
  /\ Alive /\ session[c] = "closed"
  /\ active' = active \ {c}
  /\ session' = [session EXCEPT ![c] = "forgotten"]
  /\ UNCHANGED <<main, loopVars, socket, countVars, draining, sessions, rpcVars,
                 drainVars>>

SessionDone(c) ==
  /\ Alive /\ session[c] = "forgotten"
  /\ sessions' = sessions - 1
  /\ session' = [session EXCEPT ![c] = "done"]
  /\ UNCHANGED <<main, loopVars, socket, countVars, draining, active, rpcVars,
                 drainVars>>

(***************************************************************************)
(* The gRPC server, as drain uses it (external: google.golang.org/grpc).     *)
(***************************************************************************)
RpcBegins ==
  /\ Alive /\ rpc = "serving" /\ rpcs < MaxRpcs
  /\ rpcs' = rpcs + 1
  /\ UNCHANGED <<main, loopVars, connVars, countVars, lockVars, rpc, drainVars>>

RpcEnds ==
  /\ Alive /\ rpcs > 0
  /\ rpcs' = rpcs - 1
  /\ UNCHANGED <<main, loopVars, connVars, countVars, lockVars, rpc, drainVars>>

\* server.Serve returns, during service or because of the drain.
RpcServerReturns ==
  /\ Alive /\ rpc # "stopped"
  /\ rpc' = "stopped"
  /\ failures' = failures + 1
  /\ UNCHANGED <<main, listening, loop, holding, connVars, countVars, lockVars,
                 rpcs, drainVars>>

(***************************************************************************)
(* The main goroutine: a signal or a failure begins the drain.              *)
(***************************************************************************)
BeginDrain ==
  /\ main = "serving"
  /\ draining' = TRUE
  /\ main' = "closing"
  /\ UNCHANGED <<loopVars, connVars, countVars, active, sessions, rpcVars, drainVars>>

CloseListener(l) ==
  /\ main = "closing" /\ listening[l]
  /\ listening' = [listening EXCEPT ![l] = FALSE]
  /\ UNCHANGED <<main, loop, holding, failures, connVars, countVars, lockVars,
                 rpcVars, drainVars>>

\* The two goroutines that wait, and the timer, are started.
StartWaiting ==
  /\ main = "closing" /\ \A l \in Listeners : ~listening[l]
  /\ main' = "waiting"
  /\ rpc' = IF rpc = "serving" THEN "stopping" ELSE rpc     \* GracefulStop
  /\ UNCHANGED <<loopVars, connVars, countVars, lockVars, rpcs, drainVars>>

SessionsDrained ==
  /\ main = "waiting" /\ ~sessionsDone
  /\ sessions = 0
  /\ sessionsDone' = TRUE
  /\ UNCHANGED <<main, loopVars, connVars, countVars, lockVars, rpcVars, rpcDone,
                 timedOut>>

RpcDrained ==
  /\ main = "waiting" /\ ~rpcDone
  /\ rpcs = 0
  /\ rpcDone' = TRUE
  /\ UNCHANGED <<main, loopVars, connVars, countVars, lockVars, rpcVars,
                 sessionsDone, timedOut>>

Drained ==
  /\ main = "waiting" /\ sessionsDone /\ rpcDone
  /\ main' = "exited"
  /\ UNCHANGED <<loopVars, connVars, countVars, lockVars, rpcVars, drainVars>>

\* Slip: the timer is not among the things drain selects on.
DrainNeverTimesOut ==
  FALSE /\ UNCHANGED vars

DrainTimesOut ==
  /\ main = "waiting" /\ ~(sessionsDone /\ rpcDone)
  /\ timedOut' = TRUE
  /\ rpc' = "stopped"
  /\ socket' = [c \in Conns |-> IF c \in active THEN "closed" ELSE socket[c]]
  /\ main' = "exited"
  /\ UNCHANGED <<loopVars, session, countVars, lockVars, rpcs, sessionsDone,
                 rpcDone>>

AcceptLoop(l) ==
  \/ \E c \in Conns : Accept(l, c)
  \/ AcceptFails(l) \/ Admit(l) \/ TurnAway(l)
  \/ Register(l) \/ RegisterRefused(l) \/ Withdraw(l)

SessionLeaves(c) == SessionForgotten(c) \/ SessionDone(c)

Drain ==
  \/ \E l \in Listeners : CloseListener(l)
  \/ StartWaiting \/ SessionsDrained \/ RpcDrained \/ Drained \/ DrainTimesOut

\* The process has ended.
Exited == main = "exited" /\ UNCHANGED vars

Next ==
  \/ \E l \in Listeners : AcceptLoop(l)
  \/ \E c \in Conns : ClientCloses(c) \/ SessionEnds(c) \/ SessionLeaves(c)
  \/ RpcBegins \/ RpcEnds \/ RpcServerReturns
  \/ BeginDrain \/ Drain \/ Exited

Spec == Init /\ [][Next]_vars

\* Goroutines that can run do run: the main goroutine once it drains (its
\* timer included), and the steps of a loop and a session that wait for nothing.
Fairness ==
  /\ WF_vars(Drain)
  /\ \A l \in Listeners :
       WF_vars(Admit(l) \/ TurnAway(l) \/ Register(l) \/ RegisterRefused(l)
                 \/ Withdraw(l))
  /\ \A c \in Conns :
       /\ WF_vars(SessionLeaves(c))
       /\ WF_vars(socket[c] = "closed" /\ SessionEnds(c))

FairSpec == Spec /\ Fairness
-----------------------------------------------------------------------------
(***************************************************************************)
(* Properties                                                               *)
(***************************************************************************)
LoopStates == {"accept", "admit", "register", "withdraw", "returned"}
SessionStates == {"none", "running", "closed", "forgotten", "done"}

\* The type invariant.  The failures channel has room for every server
\* (runProxy: one more than the listeners), so no send of it blocks.
TypeOK ==
  /\ main \in {"serving", "closing", "waiting", "exited"}
  /\ draining \in BOOLEAN
  /\ listening \in [Listeners -> BOOLEAN]
  /\ loop \in [Listeners -> LoopStates]
  /\ holding \in [Listeners -> Conns \union {NoConn}]
  /\ failures \in 0..(Cardinality(Listeners) + 1)
  /\ socket \in [Conns -> {"new", "open", "closed"}]
  /\ session \in [Conns -> SessionStates]
  /\ TotalConnections \in Nat /\ ActiveConnections \in Nat
  /\ active \subseteq Conns /\ sessions \in Nat
  /\ rpc \in {"serving", "stopping", "stopped"} /\ rpcs \in 0..MaxRpcs
  /\ sessionsDone \in BOOLEAN /\ rpcDone \in BOOLEAN /\ timedOut \in BOOLEAN

Running == {c \in Conns : session[c] = "running"}

\* However the loops and the sessions interleave, no more sessions run than
\* --max-connections allows, and a slot is held by exactly the connections that
\* are served or about to be: none is lost, which would shut out clients for
\* good, and none is counted twice (serveSMTP, handleSMTPConnection's defer).
SlotsBalanced ==
  /\ Cardinality(Running) <= MaxConnections
  /\ ActiveConnections =
       Cardinality(Running)
         + Cardinality({l \in Listeners : loop[l] \in {"register", "withdraw"}})

\* Once drain is waiting, the WaitGroup it waits on only falls: a session that
\* starts late would be missed, and Add during Wait is a misuse of WaitGroup
\* (the draining flag, serveSMTP).
NoLateSession == [][draining => sessions' <= sessions]_vars

\* A process that ends before the deadline has served out every session it
\* began and every RPC; one that ends at the deadline leaves no client's
\* connection open (INTEGRATION.md: "At the deadline, remaining connections
\* are closed").
DrainIsClean ==
  main = "exited" =>
    /\ ~timedOut => Running = {} /\ rpcs = 0
    /\ \A c \in Running : socket[c] = "closed"

\* A drain that has begun ends the process, whatever clients do.
DrainEnds == draining ~> main = "exited"

=============================================================================
