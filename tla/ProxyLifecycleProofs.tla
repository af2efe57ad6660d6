------------------------ MODULE ProxyLifecycleProofs ------------------------
(***************************************************************************)
(* The safety of ProxyLifecycle, for any number of connections, any ports     *)
(* and any limit.                                                           *)
(*                                                                         *)
(* IInv says who has each connection in hand (HandInv), what the counters     *)
(* count (SlotInv, SessionInv, FailureInv) and what drain knows when it       *)
(* knows it (DrainInv).  The connections may be infinitely many: those being  *)
(* served are finitely many, which is part of the invariant.                 *)
(***************************************************************************)
EXTENDS ProxyLifecycle, FiniteSetTheorems, TLAPS

InHand == {"admit", "register", "withdraw"}
Slots == {l \in Listeners : loop[l] \in {"register", "withdraw"}}
Begun == {c \in Conns : session[c] \in {"running", "closed", "forgotten"}}
Returned == {l \in Listeners : loop[l] = "returned"}

\* TypeOK without the bound on the failures, which FailureInv gives.
TypeInv ==
  /\ main \in {"serving", "closing", "waiting", "exited"}
  /\ draining \in BOOLEAN
  /\ listening \in [Listeners -> BOOLEAN]
  /\ loop \in [Listeners -> LoopStates]
  /\ holding \in [Listeners -> Conns \union {NoConn}]
  /\ failures \in Nat
  /\ socket \in [Conns -> {"new", "open", "closed"}]
  /\ session \in [Conns -> SessionStates]
  /\ TotalConnections \in Nat /\ ActiveConnections \in Nat
  /\ active \subseteq Conns /\ sessions \in Nat
  /\ rpc \in {"serving", "stopping", "stopped"} /\ rpcs \in 0..MaxRpcs
  /\ sessionsDone \in BOOLEAN /\ rpcDone \in BOOLEAN /\ timedOut \in BOOLEAN

\* A connection is new, in the hands of one accept loop, or a session's.
HandInv ==
  /\ \A l \in Listeners : loop[l] \in InHand =>
       /\ holding[l] \in Conns
       /\ socket[holding[l]] # "new" /\ session[holding[l]] = "none"
  /\ \A l, k \in Listeners :
       l # k /\ loop[l] \in InHand /\ loop[k] \in InHand => holding[l] # holding[k]
  /\ \A c \in Conns : socket[c] = "new" => session[c] = "none"

\* A slot is a session's until it ends, before that an accept loop's.
SlotInv ==
  /\ IsFiniteSet(Running)
  /\ ActiveConnections = Cardinality(Running) + Cardinality(Slots)
  /\ ActiveConnections <= MaxConnections

\* The WaitGroup counts the sessions begun; drain may close the connections of
\* those that have not been forgotten.
SessionInv ==
  /\ IsFiniteSet(Begun) /\ sessions = Cardinality(Begun)
  /\ active = {c \in Conns : session[c] \in {"running", "closed"}}

\* An accept loop reports once, and so does the gRPC server.
FailureInv ==
  failures <= Cardinality(Returned) + (IF rpc = "stopped" THEN 1 ELSE 0)

\* What drain has been told stays so; how it ended.
DrainInv ==
  /\ draining <=> main # "serving"
  /\ main \in {"waiting", "exited"} => rpc # "serving"
  /\ sessionsDone => main \in {"waiting", "exited"} /\ sessions = 0
  /\ rpcDone => main \in {"waiting", "exited"} /\ rpcs = 0
  /\ timedOut => main = "exited"
  /\ main = "exited" /\ ~timedOut => sessionsDone /\ rpcDone
  /\ main = "exited" /\ timedOut => \A c \in active : socket[c] = "closed"

IInv == TypeInv /\ HandInv /\ SlotInv /\ SessionInv /\ FailureInv /\ DrainInv

-----------------------------------------------------------------------------
(***************************************************************************)
(* Counting.                                                                *)
(***************************************************************************)
LEMMA OneMore ==
  ASSUME NEW S, NEW T, NEW x, IsFiniteSet(S), x \notin S, T = S \union {x}
  PROVE  /\ IsFiniteSet(T) /\ Cardinality(S) \in Nat
         /\ Cardinality(T) = Cardinality(S) + 1
  BY FS_AddElement, FS_CardinalityType

LEMMA Counted ==
  ASSUME NEW S, IsFiniteSet(S)
  PROVE  Cardinality(S) \in Nat /\ \A x \in S : Cardinality(S) \in Nat \ {0}
  BY FS_CardinalityType, FS_EmptySet

LEMMA OneLess ==
  ASSUME NEW S, NEW T, NEW x, IsFiniteSet(S), x \in S, T = S \ {x}
  PROVE  /\ IsFiniteSet(T) /\ Cardinality(S) \in Nat \ {0}
         /\ Cardinality(T) = Cardinality(S) - 1
  BY FS_RemoveElement, Counted

\* The accept loops in some state are finitely many.
LEMMA LoopsCounted ==
  /\ IsFiniteSet(Slots) /\ Cardinality(Slots) \in Nat
  /\ IsFiniteSet(Returned) /\ Cardinality(Returned) \in Nat
  /\ Cardinality(Returned) <= Cardinality(Listeners) /\ Cardinality(Listeners) \in Nat
<1>1. Slots \in SUBSET Listeners /\ Returned \in SUBSET Listeners
  BY DEF Slots, Returned
<1>2. IsFiniteSet(Listeners)
  BY LifecycleAssumption
<1>3. IsFiniteSet(Slots) /\ IsFiniteSet(Returned)
      /\ Cardinality(Returned) <= Cardinality(Listeners)
  BY <1>1, <1>2, FS_Subset
<1> QED
  BY <1>2, <1>3, FS_CardinalityType

-----------------------------------------------------------------------------
(***************************************************************************)
(* The actions, for what comes after: each accept loop's and each session's  *)
(* step, by what it does to the sets that are counted.                       *)
(***************************************************************************)
LEMMA Admitted ==
  ASSUME TypeInv, NEW l \in Listeners, Admit(l)
  PROVE  Slots' = Slots \union {l} /\ l \notin Slots /\ Returned' = Returned
  BY DEF TypeInv, Admit, Slots, Returned, LoopStates

LEMMA Registered ==
  ASSUME TypeInv, HandInv, SessionInv, NEW l \in Listeners, Register(l)
  PROVE  /\ Slots' = Slots \ {l} /\ l \in Slots /\ Returned' = Returned
         /\ Running' = Running \union {holding[l]} /\ holding[l] \notin Running
         /\ Begun' = Begun \union {holding[l]} /\ holding[l] \notin Begun
<1>1. /\ loop[l] = "register" /\ loop' = [loop EXCEPT ![l] = "accept"]
      /\ session' = [session EXCEPT ![holding[l]] = "running"]
  BY DEF Register, StartSession
<1>2. holding[l] \in Conns /\ session[holding[l]] = "none"
  BY <1>1 DEF HandInv, InHand
<1>3. Slots' = Slots \ {l} /\ l \in Slots /\ Returned' = Returned
  BY <1>1 DEF TypeInv, Slots, Returned
<1>4. Running' = Running \union {holding[l]} /\ holding[l] \notin Running
  BY <1>1, <1>2 DEF TypeInv, Running
<1>5. Begun' = Begun \union {holding[l]} /\ holding[l] \notin Begun
  BY <1>1, <1>2 DEF TypeInv, Begun
<1> QED
  BY <1>3, <1>4, <1>5

LEMMA Ended ==
  ASSUME TypeInv, NEW c \in Conns, SessionEnds(c)
  PROVE  /\ Running' = Running \ {c} /\ c \in Running /\ Begun' = Begun
         /\ Slots' = Slots /\ Returned' = Returned
  BY DEF TypeInv, SessionEnds, Running, Begun, Slots, Returned, loopVars

LEMMA Forgotten ==
  ASSUME TypeInv, NEW c \in Conns, SessionForgotten(c)
  PROVE  /\ Running' = Running /\ Begun' = Begun
         /\ Slots' = Slots /\ Returned' = Returned
  BY DEF TypeInv, SessionForgotten, Running, Begun, Slots, Returned, loopVars

LEMMA Done ==
  ASSUME TypeInv, NEW c \in Conns, SessionDone(c)
  PROVE  /\ Running' = Running /\ Begun' = Begun \ {c} /\ c \in Begun
         /\ Slots' = Slots /\ Returned' = Returned
  BY DEF TypeInv, SessionDone, Running, Begun, Slots, Returned, loopVars

LEMMA Refused ==
  ASSUME TypeInv, NEW l \in Listeners, RegisterRefused(l)
  PROVE  Slots' = Slots /\ Returned' = Returned
  BY DEF TypeInv, RegisterRefused, Slots, Returned

LEMMA Withdrawn ==
  ASSUME TypeInv, NEW l \in Listeners, Withdraw(l)
  PROVE  /\ Slots' = Slots \ {l} /\ l \in Slots
         /\ Returned' = Returned \union {l} /\ l \notin Returned
  BY DEF TypeInv, Withdraw, Slots, Returned

\* A step of the process is one of these.
LEMMA Steps ==
  ASSUME Next
  PROVE  \/ \E l \in Listeners : \/ \E c \in Conns : Accept(l, c)
                                 \/ AcceptFails(l) \/ Admit(l) \/ TurnAway(l)
                                 \/ Register(l) \/ RegisterRefused(l) \/ Withdraw(l)
         \/ \E c \in Conns : ClientCloses(c) \/ SessionEnds(c)
                               \/ SessionForgotten(c) \/ SessionDone(c)
         \/ RpcBegins \/ RpcEnds \/ RpcServerReturns
         \/ BeginDrain \/ \E l \in Listeners : CloseListener(l)
         \/ StartWaiting \/ SessionsDrained \/ RpcDrained \/ Drained \/ DrainTimesOut
         \/ UNCHANGED vars
  BY DEF Next, AcceptLoop, SessionLeaves, Drain, Exited

-----------------------------------------------------------------------------
(***************************************************************************)
(* The conjuncts, one by one.                                               *)
(***************************************************************************)
LEMMA InitIInv ==
  ASSUME Init PROVE IInv
<1> USE LifecycleAssumption DEF LifecycleAssumption, Init
<1>1. TypeInv
  <2>1. /\ loop \in [Listeners -> LoopStates] /\ listening \in [Listeners -> BOOLEAN]
        /\ holding \in [Listeners -> Conns \union {NoConn}]
    BY DEF LoopStates
  <2>2. /\ socket \in [Conns -> {"new", "open", "closed"}]
        /\ session \in [Conns -> SessionStates]
    BY DEF SessionStates
  <2>3. /\ TotalConnections \in Nat /\ ActiveConnections \in Nat /\ failures \in Nat
        /\ active \subseteq Conns /\ sessions \in Nat /\ rpcs \in 0..MaxRpcs
    OBVIOUS
  <2> QED
    BY <2>1, <2>2, <2>3 DEF TypeInv
<1>2. HandInv
  BY DEF HandInv, InHand
<1>3. Running = {} /\ Slots = {} /\ Begun = {}
  BY DEF Running, Slots, Begun
<1>4. SlotInv
  BY <1>3, FS_EmptySet DEF SlotInv
<1>5. SessionInv
  BY <1>3, FS_EmptySet DEF SessionInv
<1>6. FailureInv
  BY LoopsCounted DEF FailureInv
<1>7. DrainInv
  BY DEF DrainInv
<1> QED
  BY <1>1, <1>2, <1>4, <1>5, <1>6, <1>7 DEF IInv

LEMMA TypeStep ==
  ASSUME IInv, Next PROVE TypeInv'
<1> USE LifecycleAssumption DEF LifecycleAssumption, IInv
<1>1. ASSUME NEW l \in Listeners, NEW c \in Conns, Accept(l, c) PROVE TypeInv'
  BY <1>1 DEF TypeInv, LoopStates, SessionStates, loopVars, connVars, countVars, lockVars, rpcVars, drainVars, Accept
<1>2. ASSUME NEW l \in Listeners, AcceptFails(l) PROVE TypeInv'
  BY <1>2 DEF TypeInv, LoopStates, SessionStates, loopVars, connVars, countVars, lockVars, rpcVars, drainVars, AcceptFails
<1>3. ASSUME NEW l \in Listeners, Admit(l) PROVE TypeInv'
  BY <1>3 DEF TypeInv, LoopStates, SessionStates, loopVars, connVars, countVars, lockVars, rpcVars, drainVars, Admit
<1>4. ASSUME NEW l \in Listeners, TurnAway(l) PROVE TypeInv'
  <2>1. holding[l] \in Conns /\ socket' = [socket EXCEPT ![holding[l]] = "closed"]
    BY <1>4 DEF HandInv, InHand, TurnAway
  <2>2. socket' \in [Conns -> {"new", "open", "closed"}]
    BY <2>1 DEF TypeInv
  <2> QED
    BY <1>4, <2>2 DEF TypeInv, LoopStates, TurnAway, loopVars, connVars, countVars, lockVars, rpcVars, drainVars
<1>5. ASSUME NEW l \in Listeners, Register(l) PROVE TypeInv'
  BY <1>5 DEF TypeInv, LoopStates, SessionStates, loopVars, connVars, countVars, lockVars, rpcVars, drainVars, Register, StartSession, HandInv, InHand
<1>6. ASSUME NEW l \in Listeners, RegisterRefused(l) PROVE TypeInv'
  BY <1>6 DEF TypeInv, LoopStates, SessionStates, loopVars, connVars, countVars, lockVars, rpcVars, drainVars, RegisterRefused
<1>7. ASSUME NEW l \in Listeners, Withdraw(l) PROVE TypeInv'
  <2>1. Cardinality(Slots) \in Nat \ {0} /\ Cardinality(Running) \in Nat
    BY <1>7, Withdrawn, LoopsCounted, OneLess, FS_CardinalityType DEF SlotInv
  <2>2. ActiveConnections' \in Nat
    BY <1>7, <2>1 DEF TypeInv, SlotInv, Withdraw
  <2> QED
    BY <1>7, <2>2 DEF TypeInv, LoopStates, Withdraw, loopVars, connVars, countVars, lockVars, rpcVars, drainVars
<1>8. ASSUME NEW c \in Conns, ClientCloses(c) PROVE TypeInv'
  BY <1>8 DEF TypeInv, LoopStates, SessionStates, loopVars, connVars, countVars, lockVars, rpcVars, drainVars, ClientCloses
<1>9. ASSUME NEW c \in Conns, SessionEnds(c) PROVE TypeInv'
  <2>1. Cardinality(Slots) \in Nat /\ Cardinality(Running) \in Nat \ {0}
    BY <1>9, Ended, LoopsCounted, OneLess DEF SlotInv
  <2>2. ActiveConnections' \in Nat
    BY <1>9, <2>1 DEF TypeInv, SlotInv, SessionEnds
  <2> QED
    BY <1>9, <2>2 DEF TypeInv, SessionStates, SessionEnds, loopVars, connVars, countVars, lockVars, rpcVars, drainVars
<1>10. ASSUME NEW c \in Conns, SessionForgotten(c) PROVE TypeInv'
  BY <1>10 DEF TypeInv, LoopStates, SessionStates, loopVars, connVars, countVars, lockVars, rpcVars, drainVars, SessionForgotten
<1>11. ASSUME NEW c \in Conns, SessionDone(c) PROVE TypeInv'
  <2>0. IsFiniteSet(Begun) /\ c \in Begun /\ Begun' = Begun \ {c}
    BY <1>11, Done DEF SessionInv
  <2>1. sessions' \in Nat
    BY <1>11, <2>0, Counted DEF SessionInv, SessionDone
  <2> QED
    BY <1>11, <2>1 DEF TypeInv, SessionStates, SessionDone, loopVars, connVars, countVars, lockVars, rpcVars, drainVars
<1>12. CASE RpcBegins
  BY <1>12 DEF TypeInv, LoopStates, SessionStates, loopVars, connVars, countVars, lockVars, rpcVars, drainVars, RpcBegins
<1>13. CASE RpcEnds
  BY <1>13 DEF TypeInv, LoopStates, SessionStates, loopVars, connVars, countVars, lockVars, rpcVars, drainVars, RpcEnds
<1>14. CASE RpcServerReturns
  BY <1>14 DEF TypeInv, LoopStates, SessionStates, loopVars, connVars, countVars, lockVars, rpcVars, drainVars, RpcServerReturns
<1>15. CASE BeginDrain
  BY <1>15 DEF TypeInv, LoopStates, SessionStates, loopVars, connVars, countVars, lockVars, rpcVars, drainVars, BeginDrain
<1>16. ASSUME NEW l \in Listeners, CloseListener(l) PROVE TypeInv'
  BY <1>16 DEF TypeInv, LoopStates, SessionStates, loopVars, connVars, countVars, lockVars, rpcVars, drainVars, CloseListener
<1>17. CASE StartWaiting
  BY <1>17 DEF TypeInv, LoopStates, SessionStates, loopVars, connVars, countVars, lockVars, rpcVars, drainVars, StartWaiting
<1>18. CASE SessionsDrained
  BY <1>18 DEF TypeInv, LoopStates, SessionStates, loopVars, connVars, countVars, lockVars, rpcVars, drainVars, SessionsDrained
<1>19. CASE RpcDrained
  BY <1>19 DEF TypeInv, LoopStates, SessionStates, loopVars, connVars, countVars, lockVars, rpcVars, drainVars, RpcDrained
<1>20. CASE Drained
  BY <1>20 DEF TypeInv, LoopStates, SessionStates, loopVars, connVars, countVars, lockVars, rpcVars, drainVars, Drained
<1>21. CASE DrainTimesOut
  BY <1>21 DEF TypeInv, LoopStates, SessionStates, loopVars, connVars, countVars, lockVars, rpcVars, drainVars, DrainTimesOut
<1>22. CASE UNCHANGED vars
  BY <1>22 DEF TypeInv, LoopStates, SessionStates, loopVars, connVars, countVars, lockVars, rpcVars, drainVars, vars, loopVars, connVars, countVars, lockVars, rpcVars, drainVars
<1> QED
  BY Steps, <1>1, <1>2, <1>3, <1>4, <1>5, <1>6, <1>7, <1>8, <1>9, <1>10, <1>11, <1>12, <1>13, <1>14, <1>15, <1>16, <1>17, <1>18, <1>19, <1>20, <1>21, <1>22

LEMMA HandStep ==
  ASSUME IInv, Next PROVE HandInv'
<1> USE DEF IInv, InHand
<1>1. ASSUME NEW l \in Listeners, NEW c \in Conns, Accept(l, c) PROVE HandInv'
  BY <1>1 DEF TypeInv, HandInv, loopVars, connVars, countVars, lockVars, rpcVars, drainVars, Accept
<1>2. ASSUME NEW l \in Listeners, AcceptFails(l) PROVE HandInv'
  BY <1>2 DEF TypeInv, HandInv, loopVars, connVars, countVars, lockVars, rpcVars, drainVars, AcceptFails
<1>3. ASSUME NEW l \in Listeners, Admit(l) PROVE HandInv'
  BY <1>3 DEF TypeInv, HandInv, loopVars, connVars, countVars, lockVars, rpcVars, drainVars, Admit
<1>4. ASSUME NEW l \in Listeners, TurnAway(l) PROVE HandInv'
  BY <1>4 DEF TypeInv, HandInv, loopVars, connVars, countVars, lockVars, rpcVars, drainVars, TurnAway
<1>5. ASSUME NEW l \in Listeners, Register(l) PROVE HandInv'
  BY <1>5 DEF TypeInv, HandInv, loopVars, connVars, countVars, lockVars, rpcVars, drainVars, Register, StartSession
<1>6. ASSUME NEW l \in Listeners, RegisterRefused(l) PROVE HandInv'
  BY <1>6 DEF TypeInv, HandInv, loopVars, connVars, countVars, lockVars, rpcVars, drainVars, RegisterRefused
<1>7. ASSUME NEW l \in Listeners, Withdraw(l) PROVE HandInv'
  BY <1>7 DEF TypeInv, HandInv, loopVars, connVars, countVars, lockVars, rpcVars, drainVars, Withdraw
<1>8. ASSUME NEW c \in Conns, ClientCloses(c) PROVE HandInv'
  BY <1>8 DEF TypeInv, HandInv, loopVars, connVars, countVars, lockVars, rpcVars, drainVars, ClientCloses
<1>9. ASSUME NEW c \in Conns, SessionEnds(c) PROVE HandInv'
  BY <1>9 DEF TypeInv, HandInv, loopVars, connVars, countVars, lockVars, rpcVars, drainVars, SessionEnds
<1>10. ASSUME NEW c \in Conns, SessionForgotten(c) PROVE HandInv'
  BY <1>10 DEF TypeInv, HandInv, loopVars, connVars, countVars, lockVars, rpcVars, drainVars, SessionForgotten
<1>11. ASSUME NEW c \in Conns, SessionDone(c) PROVE HandInv'
  BY <1>11 DEF TypeInv, HandInv, loopVars, connVars, countVars, lockVars, rpcVars, drainVars, SessionDone
<1>12. CASE RpcBegins
  BY <1>12 DEF TypeInv, HandInv, loopVars, connVars, countVars, lockVars, rpcVars, drainVars, RpcBegins
<1>13. CASE RpcEnds
  BY <1>13 DEF TypeInv, HandInv, loopVars, connVars, countVars, lockVars, rpcVars, drainVars, RpcEnds
<1>14. CASE RpcServerReturns
  BY <1>14 DEF TypeInv, HandInv, loopVars, connVars, countVars, lockVars, rpcVars, drainVars, RpcServerReturns
<1>15. CASE BeginDrain
  BY <1>15 DEF TypeInv, HandInv, loopVars, connVars, countVars, lockVars, rpcVars, drainVars, BeginDrain
<1>16. ASSUME NEW l \in Listeners, CloseListener(l) PROVE HandInv'
  BY <1>16 DEF TypeInv, HandInv, loopVars, connVars, countVars, lockVars, rpcVars, drainVars, CloseListener
<1>17. CASE StartWaiting
  BY <1>17 DEF TypeInv, HandInv, loopVars, connVars, countVars, lockVars, rpcVars, drainVars, StartWaiting
<1>18. CASE SessionsDrained
  BY <1>18 DEF TypeInv, HandInv, loopVars, connVars, countVars, lockVars, rpcVars, drainVars, SessionsDrained
<1>19. CASE RpcDrained
  BY <1>19 DEF TypeInv, HandInv, loopVars, connVars, countVars, lockVars, rpcVars, drainVars, RpcDrained
<1>20. CASE Drained
  BY <1>20 DEF TypeInv, HandInv, loopVars, connVars, countVars, lockVars, rpcVars, drainVars, Drained
<1>21. CASE DrainTimesOut
  BY <1>21 DEF TypeInv, HandInv, loopVars, connVars, countVars, lockVars, rpcVars, drainVars, DrainTimesOut
<1>22. CASE UNCHANGED vars
  BY <1>22 DEF TypeInv, HandInv, loopVars, connVars, countVars, lockVars, rpcVars, drainVars, vars, loopVars, connVars, countVars, lockVars, rpcVars, drainVars
<1> QED
  BY Steps, <1>1, <1>2, <1>3, <1>4, <1>5, <1>6, <1>7, <1>8, <1>9, <1>10, <1>11, <1>12, <1>13, <1>14, <1>15, <1>16, <1>17, <1>18, <1>19, <1>20, <1>21, <1>22

LEMMA SlotStep ==
  ASSUME IInv, Next PROVE SlotInv'
<1> USE LifecycleAssumption DEF LifecycleAssumption, IInv
<1>1. ASSUME NEW l \in Listeners, NEW c \in Conns, Accept(l, c) PROVE SlotInv'
  BY <1>1 DEF TypeInv, SlotInv, Slots, Running, loopVars, connVars, countVars, lockVars, rpcVars, drainVars, Accept
<1>2. ASSUME NEW l \in Listeners, AcceptFails(l) PROVE SlotInv'
  BY <1>2 DEF TypeInv, SlotInv, Slots, Running, loopVars, connVars, countVars, lockVars, rpcVars, drainVars, AcceptFails
<1>3. ASSUME NEW l \in Listeners, Admit(l) PROVE SlotInv'
  <2>1. Slots' = Slots \union {l} /\ l \notin Slots /\ Running' = Running
    BY <1>3, Admitted DEF Admit, Running, connVars
  <2>2. Cardinality(Slots') = Cardinality(Slots) + 1
    BY <2>1, LoopsCounted, OneMore
  <2> QED
    BY <1>3, <2>1, <2>2, LoopsCounted, Counted DEF TypeInv, SlotInv, Admit
<1>4. ASSUME NEW l \in Listeners, TurnAway(l) PROVE SlotInv'
  BY <1>4 DEF TypeInv, SlotInv, Slots, Running, loopVars, connVars, countVars, lockVars, rpcVars, drainVars, TurnAway
<1>5. ASSUME NEW l \in Listeners, Register(l) PROVE SlotInv'
  <2>1. /\ Slots' = Slots \ {l} /\ l \in Slots
        /\ Running' = Running \union {holding[l]} /\ holding[l] \notin Running
    BY <1>5, Registered
  <2>2. Cardinality(Slots') = Cardinality(Slots) - 1
    BY <2>1, LoopsCounted, OneLess
  <2>3. IsFiniteSet(Running') /\ Cardinality(Running') = Cardinality(Running) + 1
    BY <2>1, OneMore DEF SlotInv
  <2> QED
    BY <1>5, <2>2, <2>3, LoopsCounted, Counted DEF TypeInv, SlotInv, Register, countVars
<1>6. ASSUME NEW l \in Listeners, RegisterRefused(l) PROVE SlotInv'
  BY <1>6 DEF TypeInv, SlotInv, Slots, Running, loopVars, connVars, countVars, lockVars, rpcVars, drainVars, RegisterRefused
<1>7. ASSUME NEW l \in Listeners, Withdraw(l) PROVE SlotInv'
  <2>1. Slots' = Slots \ {l} /\ l \in Slots /\ Running' = Running
    BY <1>7, Withdrawn DEF Withdraw, Running, connVars
  <2>2. Cardinality(Slots') = Cardinality(Slots) - 1
    BY <2>1, LoopsCounted, OneLess
  <2> QED
    BY <1>7, <2>1, <2>2, LoopsCounted, Counted DEF TypeInv, SlotInv, Withdraw
<1>8. ASSUME NEW c \in Conns, ClientCloses(c) PROVE SlotInv'
  BY <1>8 DEF TypeInv, SlotInv, Slots, Running, loopVars, connVars, countVars, lockVars, rpcVars, drainVars, ClientCloses
<1>9. ASSUME NEW c \in Conns, SessionEnds(c) PROVE SlotInv'
  <2>1. Running' = Running \ {c} /\ c \in Running /\ Slots' = Slots
    BY <1>9, Ended
  <2>2. IsFiniteSet(Running') /\ Cardinality(Running') = Cardinality(Running) - 1
    BY <2>1, OneLess DEF SlotInv
  <2> QED
    BY <1>9, <2>1, <2>2, LoopsCounted, Counted DEF TypeInv, SlotInv, SessionEnds
<1>10. ASSUME NEW c \in Conns, SessionForgotten(c) PROVE SlotInv'
  BY <1>10, Forgotten DEF SlotInv, SessionForgotten, countVars
<1>11. ASSUME NEW c \in Conns, SessionDone(c) PROVE SlotInv'
  BY <1>11, Done DEF SlotInv, SessionDone, countVars
<1>12. CASE RpcBegins
  BY <1>12 DEF TypeInv, SlotInv, Slots, Running, loopVars, connVars, countVars, lockVars, rpcVars, drainVars, RpcBegins
<1>13. CASE RpcEnds
  BY <1>13 DEF TypeInv, SlotInv, Slots, Running, loopVars, connVars, countVars, lockVars, rpcVars, drainVars, RpcEnds
<1>14. CASE RpcServerReturns
  BY <1>14 DEF TypeInv, SlotInv, Slots, Running, loopVars, connVars, countVars, lockVars, rpcVars, drainVars, RpcServerReturns
<1>15. CASE BeginDrain
  BY <1>15 DEF TypeInv, SlotInv, Slots, Running, loopVars, connVars, countVars, lockVars, rpcVars, drainVars, BeginDrain
<1>16. ASSUME NEW l \in Listeners, CloseListener(l) PROVE SlotInv'
  BY <1>16 DEF TypeInv, SlotInv, Slots, Running, loopVars, connVars, countVars, lockVars, rpcVars, drainVars, CloseListener
<1>17. CASE StartWaiting
  BY <1>17 DEF TypeInv, SlotInv, Slots, Running, loopVars, connVars, countVars, lockVars, rpcVars, drainVars, StartWaiting
<1>18. CASE SessionsDrained
  BY <1>18 DEF TypeInv, SlotInv, Slots, Running, loopVars, connVars, countVars, lockVars, rpcVars, drainVars, SessionsDrained
<1>19. CASE RpcDrained
  BY <1>19 DEF TypeInv, SlotInv, Slots, Running, loopVars, connVars, countVars, lockVars, rpcVars, drainVars, RpcDrained
<1>20. CASE Drained
  BY <1>20 DEF TypeInv, SlotInv, Slots, Running, loopVars, connVars, countVars, lockVars, rpcVars, drainVars, Drained
<1>21. CASE DrainTimesOut
  BY <1>21 DEF TypeInv, SlotInv, Slots, Running, loopVars, connVars, countVars, lockVars, rpcVars, drainVars, DrainTimesOut
<1>22. CASE UNCHANGED vars
  BY <1>22 DEF TypeInv, SlotInv, Slots, Running, loopVars, connVars, countVars, lockVars, rpcVars, drainVars, vars, loopVars, connVars, countVars, lockVars, rpcVars, drainVars
<1> QED
  BY Steps, <1>1, <1>2, <1>3, <1>4, <1>5, <1>6, <1>7, <1>8, <1>9, <1>10, <1>11, <1>12, <1>13, <1>14, <1>15, <1>16, <1>17, <1>18, <1>19, <1>20, <1>21, <1>22

LEMMA SessionStep ==
  ASSUME IInv, Next PROVE SessionInv'
<1> USE DEF IInv
<1>1. ASSUME NEW l \in Listeners, NEW c \in Conns, Accept(l, c) PROVE SessionInv'
  BY <1>1 DEF SessionInv, Begun, loopVars, connVars, countVars, lockVars, rpcVars, drainVars, Accept
<1>2. ASSUME NEW l \in Listeners, AcceptFails(l) PROVE SessionInv'
  BY <1>2 DEF SessionInv, Begun, loopVars, connVars, countVars, lockVars, rpcVars, drainVars, AcceptFails
<1>3. ASSUME NEW l \in Listeners, Admit(l) PROVE SessionInv'
  BY <1>3 DEF SessionInv, Begun, loopVars, connVars, countVars, lockVars, rpcVars, drainVars, Admit
<1>4. ASSUME NEW l \in Listeners, TurnAway(l) PROVE SessionInv'
  BY <1>4 DEF SessionInv, Begun, loopVars, connVars, countVars, lockVars, rpcVars, drainVars, TurnAway
<1>5. ASSUME NEW l \in Listeners, Register(l) PROVE SessionInv'
  <2>1. Begun' = Begun \union {holding[l]} /\ holding[l] \notin Begun
    BY <1>5, Registered
  <2>2. IsFiniteSet(Begun') /\ Cardinality(Begun') = Cardinality(Begun) + 1
    BY <2>1, OneMore DEF SessionInv
  <2>3. /\ active' = active \union {holding[l]} /\ sessions' = sessions + 1
        /\ session' = [session EXCEPT ![holding[l]] = "running"]
        /\ holding[l] \in Conns
    BY <1>5 DEF Register, StartSession, HandInv, InHand
  <2>4. active' = {c \in Conns : session'[c] \in {"running", "closed"}}
    BY <2>3 DEF TypeInv, SessionInv
  <2> QED
    BY <2>2, <2>3, <2>4 DEF SessionInv
<1>6. ASSUME NEW l \in Listeners, RegisterRefused(l) PROVE SessionInv'
  BY <1>6 DEF SessionInv, Begun, loopVars, connVars, countVars, lockVars, rpcVars, drainVars, RegisterRefused
<1>7. ASSUME NEW l \in Listeners, Withdraw(l) PROVE SessionInv'
  BY <1>7 DEF SessionInv, Begun, loopVars, connVars, countVars, lockVars, rpcVars, drainVars, Withdraw
<1>8. ASSUME NEW c \in Conns, ClientCloses(c) PROVE SessionInv'
  BY <1>8 DEF SessionInv, Begun, loopVars, connVars, countVars, lockVars, rpcVars, drainVars, ClientCloses
<1>9. ASSUME NEW c \in Conns, SessionEnds(c) PROVE SessionInv'
  <2>1. active' = {x \in Conns : session'[x] \in {"running", "closed"}}
    BY <1>9 DEF TypeInv, SessionInv, SessionEnds, lockVars
  <2> QED
    BY <1>9, <2>1, Ended DEF SessionInv, SessionEnds, lockVars
<1>10. ASSUME NEW c \in Conns, SessionForgotten(c) PROVE SessionInv'
  <2>1. active' = {x \in Conns : session'[x] \in {"running", "closed"}}
    BY <1>10 DEF TypeInv, SessionInv, SessionForgotten
  <2> QED
    BY <1>10, <2>1, Forgotten DEF SessionInv, SessionForgotten
<1>11. ASSUME NEW c \in Conns, SessionDone(c) PROVE SessionInv'
  <2>1. Begun' = Begun \ {c} /\ c \in Begun
    BY <1>11, Done
  <2>2. IsFiniteSet(Begun') /\ Cardinality(Begun') = Cardinality(Begun) - 1
    BY <2>1, OneLess DEF SessionInv
  <2>3. active' = {x \in Conns : session'[x] \in {"running", "closed"}}
    BY <1>11 DEF TypeInv, SessionInv, SessionDone
  <2> QED
    BY <1>11, <2>2, <2>3 DEF SessionInv, SessionDone
<1>12. CASE RpcBegins
  BY <1>12 DEF SessionInv, Begun, loopVars, connVars, countVars, lockVars, rpcVars, drainVars, RpcBegins
<1>13. CASE RpcEnds
  BY <1>13 DEF SessionInv, Begun, loopVars, connVars, countVars, lockVars, rpcVars, drainVars, RpcEnds
<1>14. CASE RpcServerReturns
  BY <1>14 DEF SessionInv, Begun, loopVars, connVars, countVars, lockVars, rpcVars, drainVars, RpcServerReturns
<1>15. CASE BeginDrain
  BY <1>15 DEF SessionInv, Begun, loopVars, connVars, countVars, lockVars, rpcVars, drainVars, BeginDrain
<1>16. ASSUME NEW l \in Listeners, CloseListener(l) PROVE SessionInv'
  BY <1>16 DEF SessionInv, Begun, loopVars, connVars, countVars, lockVars, rpcVars, drainVars, CloseListener
<1>17. CASE StartWaiting
  BY <1>17 DEF SessionInv, Begun, loopVars, connVars, countVars, lockVars, rpcVars, drainVars, StartWaiting
<1>18. CASE SessionsDrained
  BY <1>18 DEF SessionInv, Begun, loopVars, connVars, countVars, lockVars, rpcVars, drainVars, SessionsDrained
<1>19. CASE RpcDrained
  BY <1>19 DEF SessionInv, Begun, loopVars, connVars, countVars, lockVars, rpcVars, drainVars, RpcDrained
<1>20. CASE Drained
  BY <1>20 DEF SessionInv, Begun, loopVars, connVars, countVars, lockVars, rpcVars, drainVars, Drained
<1>21. CASE DrainTimesOut
  BY <1>21 DEF SessionInv, Begun, loopVars, connVars, countVars, lockVars, rpcVars, drainVars, DrainTimesOut
<1>22. CASE UNCHANGED vars
  BY <1>22 DEF SessionInv, Begun, loopVars, connVars, countVars, lockVars, rpcVars, drainVars, vars, loopVars, connVars, countVars, lockVars, rpcVars, drainVars
<1> QED
  BY Steps, <1>1, <1>2, <1>3, <1>4, <1>5, <1>6, <1>7, <1>8, <1>9, <1>10, <1>11, <1>12, <1>13, <1>14, <1>15, <1>16, <1>17, <1>18, <1>19, <1>20, <1>21, <1>22

LEMMA FailureStep ==
  ASSUME IInv, Next PROVE FailureInv'
<1> USE DEF IInv
<1>1. ASSUME NEW l \in Listeners, NEW c \in Conns, Accept(l, c) PROVE FailureInv'
  BY <1>1 DEF TypeInv, FailureInv, Returned, loopVars, connVars, countVars, lockVars, rpcVars, drainVars, Accept
<1>2. ASSUME NEW l \in Listeners, AcceptFails(l) PROVE FailureInv'
  <2>1. Returned' = Returned \union {l} /\ l \notin Returned
    BY <1>2 DEF TypeInv, AcceptFails, Returned
  <2>2. Cardinality(Returned') = Cardinality(Returned) + 1
    BY <2>1, LoopsCounted, OneMore
  <2> QED
    BY <1>2, <2>2, LoopsCounted DEF TypeInv, FailureInv, AcceptFails, rpcVars
<1>3. ASSUME NEW l \in Listeners, Admit(l) PROVE FailureInv'
  BY <1>3, Admitted DEF FailureInv, Admit, rpcVars
<1>4. ASSUME NEW l \in Listeners, TurnAway(l) PROVE FailureInv'
  BY <1>4 DEF TypeInv, FailureInv, Returned, loopVars, connVars, countVars, lockVars, rpcVars, drainVars, TurnAway
<1>5. ASSUME NEW l \in Listeners, Register(l) PROVE FailureInv'
  BY <1>5, Registered DEF FailureInv, Register, rpcVars
<1>6. ASSUME NEW l \in Listeners, RegisterRefused(l) PROVE FailureInv'
  BY <1>6, Refused DEF FailureInv, RegisterRefused, rpcVars
<1>7. ASSUME NEW l \in Listeners, Withdraw(l) PROVE FailureInv'
  <2>1. Returned' = Returned \union {l} /\ l \notin Returned
    BY <1>7, Withdrawn
  <2>2. Cardinality(Returned') = Cardinality(Returned) + 1
    BY <2>1, LoopsCounted, OneMore
  <2> QED
    BY <1>7, <2>2, LoopsCounted DEF TypeInv, FailureInv, Withdraw, rpcVars
<1>8. ASSUME NEW c \in Conns, ClientCloses(c) PROVE FailureInv'
  BY <1>8 DEF TypeInv, FailureInv, Returned, loopVars, connVars, countVars, lockVars, rpcVars, drainVars, ClientCloses
<1>9. ASSUME NEW c \in Conns, SessionEnds(c) PROVE FailureInv'
  BY <1>9 DEF TypeInv, FailureInv, Returned, loopVars, connVars, countVars, lockVars, rpcVars, drainVars, SessionEnds
<1>10. ASSUME NEW c \in Conns, SessionForgotten(c) PROVE FailureInv'
  BY <1>10 DEF TypeInv, FailureInv, Returned, loopVars, connVars, countVars, lockVars, rpcVars, drainVars, SessionForgotten
<1>11. ASSUME NEW c \in Conns, SessionDone(c) PROVE FailureInv'
  BY <1>11 DEF TypeInv, FailureInv, Returned, loopVars, connVars, countVars, lockVars, rpcVars, drainVars, SessionDone
<1>12. CASE RpcBegins
  BY <1>12 DEF TypeInv, FailureInv, Returned, loopVars, connVars, countVars, lockVars, rpcVars, drainVars, RpcBegins
<1>13. CASE RpcEnds
  BY <1>13 DEF TypeInv, FailureInv, Returned, loopVars, connVars, countVars, lockVars, rpcVars, drainVars, RpcEnds
<1>14. CASE RpcServerReturns
  <2>1. Returned' = Returned
    BY <1>14 DEF RpcServerReturns, Returned, loopVars
  <2> QED
    BY <1>14, <2>1, LoopsCounted DEF TypeInv, FailureInv, RpcServerReturns, loopVars
<1>15. CASE BeginDrain
  BY <1>15 DEF TypeInv, FailureInv, Returned, loopVars, connVars, countVars, lockVars, rpcVars, drainVars, BeginDrain
<1>16. ASSUME NEW l \in Listeners, CloseListener(l) PROVE FailureInv'
  BY <1>16 DEF TypeInv, FailureInv, Returned, loopVars, connVars, countVars, lockVars, rpcVars, drainVars, CloseListener
<1>17. CASE StartWaiting
  BY <1>17 DEF TypeInv, FailureInv, Returned, loopVars, connVars, countVars, lockVars, rpcVars, drainVars, StartWaiting
<1>18. CASE SessionsDrained
  BY <1>18 DEF TypeInv, FailureInv, Returned, loopVars, connVars, countVars, lockVars, rpcVars, drainVars, SessionsDrained
<1>19. CASE RpcDrained
  BY <1>19 DEF TypeInv, FailureInv, Returned, loopVars, connVars, countVars, lockVars, rpcVars, drainVars, RpcDrained
<1>20. CASE Drained
  BY <1>20 DEF TypeInv, FailureInv, Returned, loopVars, connVars, countVars, lockVars, rpcVars, drainVars, Drained
<1>21. CASE DrainTimesOut
  <2>1. Returned' = Returned
    BY <1>21 DEF DrainTimesOut, Returned, loopVars
  <2> QED
    BY <1>21, <2>1, LoopsCounted DEF TypeInv, FailureInv, DrainTimesOut, loopVars
<1>22. CASE UNCHANGED vars
  BY <1>22 DEF TypeInv, FailureInv, Returned, loopVars, connVars, countVars, lockVars, rpcVars, drainVars, vars, loopVars, connVars, countVars, lockVars, rpcVars, drainVars
<1> QED
  BY Steps, <1>1, <1>2, <1>3, <1>4, <1>5, <1>6, <1>7, <1>8, <1>9, <1>10, <1>11, <1>12, <1>13, <1>14, <1>15, <1>16, <1>17, <1>18, <1>19, <1>20, <1>21, <1>22

LEMMA DrainStep ==
  ASSUME IInv, Next PROVE DrainInv'
<1> USE DEF IInv
<1>1. ASSUME NEW l \in Listeners, NEW c \in Conns, Accept(l, c) PROVE DrainInv'
  BY <1>1 DEF TypeInv, DrainInv, Alive, loopVars, connVars, countVars, lockVars, rpcVars, drainVars, Accept
<1>2. ASSUME NEW l \in Listeners, AcceptFails(l) PROVE DrainInv'
  BY <1>2 DEF TypeInv, DrainInv, Alive, loopVars, connVars, countVars, lockVars, rpcVars, drainVars, AcceptFails
<1>3. ASSUME NEW l \in Listeners, Admit(l) PROVE DrainInv'
  BY <1>3 DEF TypeInv, DrainInv, Alive, loopVars, connVars, countVars, lockVars, rpcVars, drainVars, Admit
<1>4. ASSUME NEW l \in Listeners, TurnAway(l) PROVE DrainInv'
  BY <1>4 DEF TypeInv, DrainInv, Alive, loopVars, connVars, countVars, lockVars, rpcVars, drainVars, TurnAway
<1>5. ASSUME NEW l \in Listeners, Register(l) PROVE DrainInv'
  BY <1>5 DEF TypeInv, DrainInv, Alive, loopVars, connVars, countVars, lockVars, rpcVars, drainVars, Register, StartSession
<1>6. ASSUME NEW l \in Listeners, RegisterRefused(l) PROVE DrainInv'
  BY <1>6 DEF TypeInv, DrainInv, Alive, loopVars, connVars, countVars, lockVars, rpcVars, drainVars, RegisterRefused
<1>7. ASSUME NEW l \in Listeners, Withdraw(l) PROVE DrainInv'
  BY <1>7 DEF TypeInv, DrainInv, Alive, loopVars, connVars, countVars, lockVars, rpcVars, drainVars, Withdraw
<1>8. ASSUME NEW c \in Conns, ClientCloses(c) PROVE DrainInv'
  BY <1>8 DEF TypeInv, DrainInv, Alive, loopVars, connVars, countVars, lockVars, rpcVars, drainVars, ClientCloses
<1>9. ASSUME NEW c \in Conns, SessionEnds(c) PROVE DrainInv'
  BY <1>9 DEF TypeInv, DrainInv, Alive, loopVars, connVars, countVars, lockVars, rpcVars, drainVars, SessionEnds
<1>10. ASSUME NEW c \in Conns, SessionForgotten(c) PROVE DrainInv'
  BY <1>10 DEF TypeInv, DrainInv, Alive, loopVars, connVars, countVars, lockVars, rpcVars, drainVars, SessionForgotten
<1>11. ASSUME NEW c \in Conns, SessionDone(c) PROVE DrainInv'
  <2>1. sessions # 0
    BY <1>11, Done, Counted DEF SessionInv
  <2> QED
    BY <1>11, <2>1 DEF TypeInv, DrainInv, SessionDone, Alive, loopVars, connVars, countVars, lockVars, rpcVars, drainVars
<1>12. CASE RpcBegins
  BY <1>12 DEF TypeInv, DrainInv, Alive, loopVars, connVars, countVars, lockVars, rpcVars, drainVars, RpcBegins
<1>13. CASE RpcEnds
  BY <1>13 DEF TypeInv, DrainInv, Alive, loopVars, connVars, countVars, lockVars, rpcVars, drainVars, RpcEnds
<1>14. CASE RpcServerReturns
  BY <1>14 DEF TypeInv, DrainInv, Alive, loopVars, connVars, countVars, lockVars, rpcVars, drainVars, RpcServerReturns
<1>15. CASE BeginDrain
  BY <1>15 DEF TypeInv, DrainInv, Alive, loopVars, connVars, countVars, lockVars, rpcVars, drainVars, BeginDrain
<1>16. ASSUME NEW l \in Listeners, CloseListener(l) PROVE DrainInv'
  BY <1>16 DEF TypeInv, DrainInv, Alive, loopVars, connVars, countVars, lockVars, rpcVars, drainVars, CloseListener
<1>17. CASE StartWaiting
  BY <1>17 DEF TypeInv, DrainInv, Alive, loopVars, connVars, countVars, lockVars, rpcVars, drainVars, StartWaiting
<1>18. CASE SessionsDrained
  BY <1>18 DEF TypeInv, DrainInv, Alive, loopVars, connVars, countVars, lockVars, rpcVars, drainVars, SessionsDrained
<1>19. CASE RpcDrained
  BY <1>19 DEF TypeInv, DrainInv, Alive, loopVars, connVars, countVars, lockVars, rpcVars, drainVars, RpcDrained
<1>20. CASE Drained
  BY <1>20 DEF TypeInv, DrainInv, Alive, loopVars, connVars, countVars, lockVars, rpcVars, drainVars, Drained
<1>21. CASE DrainTimesOut
  BY <1>21 DEF TypeInv, DrainInv, Alive, loopVars, connVars, countVars, lockVars, rpcVars, drainVars, DrainTimesOut
<1>22. CASE UNCHANGED vars
  BY <1>22 DEF TypeInv, DrainInv, Alive, loopVars, connVars, countVars, lockVars, rpcVars, drainVars, vars, loopVars, connVars, countVars, lockVars, rpcVars, drainVars
<1> QED
  BY Steps, <1>1, <1>2, <1>3, <1>4, <1>5, <1>6, <1>7, <1>8, <1>9, <1>10, <1>11, <1>12, <1>13, <1>14, <1>15, <1>16, <1>17, <1>18, <1>19, <1>20, <1>21, <1>22

-----------------------------------------------------------------------------
(***************************************************************************)
(* The theorems.                                                            *)
(***************************************************************************)
LEMMA Inductive == IInv /\ [Next]_vars => IInv'
<1> SUFFICES ASSUME IInv, [Next]_vars PROVE IInv'
  OBVIOUS
<1>1. CASE Next
  BY <1>1, TypeStep, HandStep, SlotStep, SessionStep, FailureStep, DrainStep DEF IInv
<1>2. CASE UNCHANGED vars
  BY <1>2 DEF IInv, TypeInv, HandInv, SlotInv, SessionInv, FailureInv, DrainInv, InHand,
    Slots, Begun, Returned, Running, vars, loopVars, connVars, countVars, lockVars,
    rpcVars, drainVars
<1> QED
  BY <1>1, <1>2

LEMMA Invariance == Spec => []IInv
<1>1. Init => IInv
  BY InitIInv
<1> QED
  BY <1>1, Inductive, PTL DEF Spec

\* The process's state is of its types; in particular the failures channel has
\* room for every server that returns, so that no accept loop blocks on it
\* (runProxy in proxy.go: the channel's capacity).
THEOREM Typing == Spec => []TypeOK
<1>1. IInv => TypeOK
  <2> SUFFICES ASSUME IInv PROVE TypeOK
    OBVIOUS
  <2>1. failures \in 0..(Cardinality(Listeners) + 1)
    BY LoopsCounted DEF IInv, TypeInv, FailureInv
  <2> QED
    BY <2>1 DEF IInv, TypeInv, TypeOK
<1> QED
  BY <1>1, Invariance, PTL

\* Under any interleaving of accept loops and sessions the limit holds, and a
\* slot is taken exactly while a connection is served or about to be
\* (serveSMTP and handleSMTPConnection in proxy.go).
THEOREM SlotsStayBalanced == Spec => []SlotsBalanced
<1>1. IInv => SlotsBalanced
  <2> SUFFICES ASSUME IInv PROVE SlotsBalanced
    OBVIOUS
  <2>1. Cardinality(Running) \in Nat /\ Cardinality(Slots) \in Nat
    BY LoopsCounted, Counted DEF IInv, SlotInv
  <2> QED
    BY <2>1, LifecycleAssumption
    DEF LifecycleAssumption, IInv, SlotInv, SlotsBalanced, Slots
<1> QED
  BY <1>1, Invariance, PTL

\* From the moment draining is set, under connMutex, the WaitGroup only falls
\* (serveSMTP in proxy.go, drain in lifecycle.go).
THEOREM NoSessionIsLate == Spec => NoLateSession
<1>1. IInv /\ [Next]_vars => [draining => sessions' <= sessions]_vars
  <2> SUFFICES ASSUME IInv, Next, draining PROVE sessions' <= sessions
    BY DEF vars
  <2>1. sessions \in Nat
    BY DEF IInv, TypeInv
  <2>2. ASSUME NEW c \in Conns, SessionDone(c) PROVE sessions' <= sessions
    BY <2>1, <2>2 DEF SessionDone
  <2>3. ASSUME NEW l \in Listeners, Register(l) PROVE FALSE
    BY <2>3 DEF Register
  <2>4. CASE UNCHANGED sessions
    BY <2>1, <2>4
  <2> QED
    BY Steps, <2>2, <2>3, <2>4
    DEF Accept, AcceptFails, Admit, TurnAway, RegisterRefused, Withdraw, ClientCloses,
      SessionEnds, SessionForgotten, RpcBegins, RpcEnds, RpcServerReturns, BeginDrain,
      CloseListener, StartWaiting, SessionsDrained, RpcDrained, Drained, DrainTimesOut,
      lockVars, vars
<1> QED
  BY <1>1, Invariance, PTL DEF Spec, NoLateSession

\* However many clients and whatever they do, the process ends either with
\* every session and every RPC served out or with every connection it still
\* served closed (drain in lifecycle.go).
THEOREM DrainStaysClean == Spec => []DrainIsClean
<1>1. IInv => DrainIsClean
  <2> SUFFICES ASSUME IInv, main = "exited" 
               PROVE  /\ ~timedOut => Running = {} /\ rpcs = 0
                      /\ \A c \in Running : socket[c] = "closed"
    BY DEF DrainIsClean
  <2>1. CASE ~timedOut
    <3>1. sessionsDone /\ rpcDone
      BY <2>1 DEF IInv, DrainInv
    <3>2. sessions = 0 /\ rpcs = 0
      BY <3>1 DEF IInv, DrainInv
    <3>3. Begun = {}
      BY <3>2, FS_EmptySet DEF IInv, SessionInv
    <3> QED
      BY <3>2, <3>3 DEF Running, Begun
  <2>2. CASE timedOut
    <3>1. \A c \in active : socket[c] = "closed"
      BY <2>2 DEF IInv, DrainInv
    <3>2. Running \subseteq active
      BY DEF IInv, SessionInv, Running
    <3> QED
      BY <2>2, <3>1, <3>2
  <2> QED
    BY <2>1, <2>2
<1> QED
  BY <1>1, Invariance, PTL
=============================================================================
