------------------------ MODULE ResolverCacheProofs ------------------------
(***************************************************************************)
(* The shared cache of ResolverCache, for any number of sessions and names,  *)
(* any TTL and timeout and any zones: what a session is given was given by   *)
(* the network, for that name and recently, whoever asked for it.            *)
(*                                                                         *)
(* A session carries an entry over the unlocking and an answer over the      *)
(* storing: IInv says of each thing under way which answer it goes back to   *)
(* and how old that answer can be.                                          *)
(***************************************************************************)
EXTENDS ResolverCache, FiniteSetTheorems, SequenceTheorems, TLAPS

Values(n) == [records : {R \in SUBSET Contents(n) : IsFiniteSet(R)},
              secure : BOOLEAN, error : BOOLEAN]
AnyValue == UNION {Values(n) : n \in Name}

Steps == {"get", "check", "query", "put", "fetch", "done"}
Entries == {NoEntry} \union [value : AnyValue, expires : Nat]
Sessions == [task : Tasks \union {"none"}, chain : Chains \union {<<>>},
             todo : Seq(Name), step : Steps, entry : Entries, since : Nat,
             answer : AnyValue \union {NoEntry},
             got : Seq([name : Name, value : AnyValue, at : Nat]),
             policy : Policies \union {"unreachable", "none"}]

\* An entry of the cache goes back to an answer that was put within a timeout
\* of being given.
Backed(entry, given, time) ==
  \E x \in given :
    /\ x.value = entry.value
    /\ x.at + ttl <= entry.expires
    /\ entry.expires <= x.at + ttl + timeout
    /\ entry.expires <= time + ttl

\* An answer waiting to be put was given since the session began to ask.
Fresh(value, since, given, time) ==
  \E x \in given : x.value = value /\ since <= x.at /\ x.at <= time

\* A value returned at a time goes back to an answer no older than that.
Supported(value, given, time) ==
  \E x \in given : x.value = value /\ x.at <= time /\ time <= x.at + ttl + timeout

\* What is true of a session while it works.
Honest(c, given, time) ==
  /\ c.step \in {"get", "check", "query", "put"} <=> c.todo # <<>>
  /\ c.step = "check" /\ c.entry # NoEntry =>
       /\ c.entry.value \in Values(Head(c.todo))
       /\ Backed(c.entry, given[Head(c.todo)], time)
  /\ c.step \in {"query", "put"} => c.since <= time /\ time <= c.since + timeout
  /\ c.step = "put" => /\ c.answer \in Values(Head(c.todo))
                       /\ Fresh(c.answer, c.since, given[Head(c.todo)], time)
  /\ \A i \in DOMAIN c.got : /\ c.got[i].value \in Values(c.got[i].name)
                             /\ Supported(c.got[i].value, given[c.got[i].name], c.got[i].at)

TypeInv ==
  /\ now \in 0..MaxTime /\ changes \in 0..MaxChanges /\ zone \in Zones
  /\ served \in [Name -> SUBSET [value : AnyValue, at : Nat]]
  /\ cache \in [Name -> Entries]
  /\ session \in [Session -> Sessions]

CacheInv ==
  \A n \in Name : cache[n] # NoEntry => /\ cache[n].value \in Values(n)
                                        /\ Backed(cache[n], served[n], now)

SessionInv == \A s \in Session : Honest(session[s], served, now)

IInv == TypeInv /\ CacheInv /\ SessionInv

-----------------------------------------------------------------------------
(***************************************************************************)
(* Values and sequences.                                                    *)
(***************************************************************************)
LEMMA Constants == ttl \in Nat /\ timeout \in Nat /\ MaxTime \in Nat /\ MaxChanges \in Nat
  BY ResolverAssumption DEF ResolverAssumption

LEMMA NamesApart ==
  /\ {"mx", "_mta-sts", "_smtp._tls"} \subseteq Name /\ Host \subseteq Name
  /\ \A h \in Host : h # "mx"
  BY ResolverAssumption DEF ResolverAssumption, Name

LEMMA ValueTyped ==
  ASSUME NEW n \in Name, NEW v \in Values(n)
  PROVE  /\ v \in AnyValue /\ v.records \subseteq Contents(n) /\ IsFiniteSet(v.records)
  BY DEF AnyValue, Values

LEMMA MailHosts ==
  ASSUME NEW v \in Values("mx")
  PROVE  v.records \subseteq Host /\ IsFiniteSet(v.records)
<1>1. "mx" \in Name
  BY NamesApart
<1>2. Contents("mx") = Host
  BY NamesApart DEF Contents
<1> QED
  BY <1>1, <1>2, ValueTyped

\* Whatever an exchange comes to, its answer is of the kind asked for.
LEMMA OutcomesTyped ==
  ASSUME zone \in Zones, NEW n \in Name
  PROVE  Outcomes(n) \subseteq Values(n)
<1>1. /\ zone[n].records \subseteq Contents(n) /\ IsFiniteSet(zone[n].records)
      /\ zone[n].secure \in BOOLEAN
  BY ResolverAssumption DEF ResolverAssumption
<1>2. \A secure, error \in BOOLEAN :
        /\ Answer(zone[n].records, secure, error) \in Values(n)
        /\ Answer({}, secure, error) \in Values(n)
  <2>1. IsFiniteSet({})
    BY FS_EmptySet
  <2> QED
    BY <1>1, <2>1 DEF Answer, Values
<1> QED
  BY <1>1, <1>2 DEF Outcomes, LookupMX, LookupTLSA, LookupTXTAuthenticated, Nothing

\* The order in which mail hosts are asked for names each of them.
LEMMA Ordered ==
  ASSUME NEW S, IsFiniteSet(S)
  PROVE  /\ InOrder(S) \in Seq(S)
         /\ \A x \in S : \E i \in DOMAIN InOrder(S) : InOrder(S)[i] = x
<1> DEFINE n == Cardinality(S)
           Covers(q) == \A x \in S : \E i \in DOMAIN q : q[i] = x
<1>1. n \in Nat /\ Bijection(1..n, S) # {}
  BY FS_CardinalityType DEF ExistsBijection
<1>2. PICK q \in Bijection(1..n, S) : TRUE
  BY <1>1
<1>3. q \in [1..n -> S] /\ \A x \in S : \E i \in 1..n : q[i] = x
  BY <1>2 DEF Bijection, Surjection
<1>4. Covers(q)
  BY <1>3
<1> HIDE DEF n
<1>5. InOrder(S) \in [1..n -> S] /\ Covers(InOrder(S))
  BY <1>3, <1>4 DEF InOrder, n
<1> QED
  BY <1>1, <1>5, SeqDef

-----------------------------------------------------------------------------
(***************************************************************************)
(* Time and answers only grow.                                              *)
(***************************************************************************)
LEMMA Sums ==
  ASSUME NEW t \in Nat, NEW u \in Nat, t <= u
  PROVE  u \in Nat /\ u + ttl \in Nat /\ t + ttl <= u + ttl
         /\ \A x \in Nat : x <= t + ttl => x <= u + ttl
  BY Constants

LEMMA BackedLonger ==
  ASSUME NEW e, e.expires \in Nat, NEW given, NEW more, given \subseteq more,
         NEW t \in Nat, NEW u \in Nat, t <= u, Backed(e, given, t)
  PROVE  Backed(e, more, u)
  BY Sums DEF Backed

LEMMA GotTyped ==
  ASSUME NEW c \in Sessions
  PROVE  /\ Len(c.got) \in Nat /\ DOMAIN c.got = 1..Len(c.got)
         /\ \A i \in DOMAIN c.got : /\ c.got[i].name \in Name /\ c.got[i].value \in AnyValue
                                   /\ c.got[i].at \in Nat
<1> DEFINE Got == [name : Name, value : AnyValue, at : Nat]
<1>1. c.got \in Seq(Got)
  BY DEF Sessions
<1>2. Len(c.got) \in Nat /\ DOMAIN c.got = 1..Len(c.got)
  BY <1>1, LenProperties
<1>3. \A i \in 1..Len(c.got) : c.got[i] \in Got
  BY <1>1, ElementOfSeq
<1> QED
  BY <1>2, <1>3

LEMMA MoreAnswers ==
  ASSUME NEW c \in Sessions, NEW given, NEW more, NEW t \in Nat, Honest(c, given, t),
         \A n \in Name : given[n] \subseteq more[n]
  PROVE  Honest(c, more, t)
<1>1. c.todo \in Seq(Name) /\ c.entry \in Entries
  BY DEF Sessions
<1>2. c.todo # <<>> => Head(c.todo) \in Name
  BY <1>1, HeadTailProperties
<1>3. \A i \in DOMAIN c.got : c.got[i].name \in Name
  BY GotTyped
<1>4. ASSUME c.step = "check", c.entry # NoEntry
      PROVE  /\ c.entry.value \in Values(Head(c.todo))
             /\ Backed(c.entry, more[Head(c.todo)], t)
  <2>1. Head(c.todo) \in Name /\ c.entry.expires \in Nat
    BY <1>1, <1>2, <1>4 DEF Honest, Entries
  <2>2. Backed(c.entry, given[Head(c.todo)], t) /\ c.entry.value \in Values(Head(c.todo))
    BY <1>4 DEF Honest
  <2>3. given[Head(c.todo)] \subseteq more[Head(c.todo)] /\ t <= t
    BY <2>1
  <2> QED
    BY <2>1, <2>2, <2>3, BackedLonger
<1>5. c.step = "put" => Fresh(c.answer, c.since, more[Head(c.todo)], t)
  BY <1>2 DEF Honest, Fresh
<1>6. \A i \in DOMAIN c.got : Supported(c.got[i].value, more[c.got[i].name], c.got[i].at)
  BY <1>3 DEF Honest, Supported
<1> QED
  BY <1>4, <1>5, <1>6 DEF Honest

\* Time passes only while every lookup is within its deadline.
LEMMA OneLater ==
  ASSUME NEW c \in Sessions, NEW given, NEW t \in Nat, Honest(c, given, t),
         c.step \in {"query", "put"} => t < c.since + timeout,
         given \in [Name -> SUBSET [value : AnyValue, at : Nat]]
  PROVE  Honest(c, given, t + 1)
<1>1. t + 1 \in Nat /\ t <= t + 1
  OBVIOUS
<1>2. c.todo \in Seq(Name) /\ c.entry \in Entries /\ c.since \in Nat
  BY DEF Sessions
<1>3. c.todo # <<>> => Head(c.todo) \in Name
  BY <1>2, HeadTailProperties
<1>4. ASSUME c.step = "check", c.entry # NoEntry
      PROVE  Backed(c.entry, given[Head(c.todo)], t + 1)
  <2>1. c.entry.expires \in Nat
    BY <1>2, <1>4 DEF Entries
  <2>2. Backed(c.entry, given[Head(c.todo)], t)
    BY <1>4 DEF Honest
  <2> QED
    BY <1>1, <2>1, <2>2, BackedLonger
<1>5. ASSUME c.step \in {"query", "put"} PROVE c.since <= t + 1 /\ t + 1 <= c.since + timeout
  <2>1. c.since <= t /\ t < c.since + timeout
    BY <1>5 DEF Honest
  <2> QED
    BY <1>2, <2>1, Constants
<1>6. ASSUME c.step = "put" PROVE Fresh(c.answer, c.since, given[Head(c.todo)], t + 1)
  <2>1. Head(c.todo) \in Name
    BY <1>3, <1>6 DEF Honest
  <2>2. PICK x \in given[Head(c.todo)] : x.value = c.answer /\ c.since <= x.at /\ x.at <= t
    BY <1>6 DEF Honest, Fresh
  <2>3. x.at \in Nat
    BY <2>1
  <2>4. x.at <= t + 1
    BY <2>2, <2>3
  <2> QED
    BY <2>2, <2>4 DEF Fresh
<1> QED
  BY <1>4, <1>5, <1>6 DEF Honest

\* What a live entry, or a new answer, says when it is returned.
LEMMA HitIsSupported ==
  ASSUME NEW e, e.expires \in Nat, NEW t \in Nat, t <= e.expires,
         NEW given \in SUBSET [value : AnyValue, at : Nat], Backed(e, given, t)
  PROVE  Supported(e.value, given, t)
<1>1. PICK x \in given : /\ x.value = e.value /\ x.at + ttl <= e.expires
                         /\ e.expires <= x.at + ttl + timeout /\ e.expires <= t + ttl
  BY DEF Backed
<1>2. x.at \in Nat
  OBVIOUS
<1>3. x.at <= t /\ t <= x.at + ttl + timeout
  BY <1>1, <1>2, Constants
<1> QED
  BY <1>1, <1>3 DEF Supported

LEMMA PutIsSupported ==
  ASSUME NEW v, NEW since \in Nat, NEW t \in Nat, since <= t, t <= since + timeout,
         NEW given \in SUBSET [value : AnyValue, at : Nat], Fresh(v, since, given, t)
  PROVE  /\ Supported(v, given, t)
         /\ Backed([value |-> v, expires |-> t + ttl], given, t)
<1>1. PICK x \in given : x.value = v /\ since <= x.at /\ x.at <= t
  BY DEF Fresh
<1>2. x.at \in Nat
  OBVIOUS
<1>3. /\ t <= x.at + ttl + timeout /\ x.at + ttl <= t + ttl /\ t + ttl <= x.at + ttl + timeout
      /\ t + ttl <= t + ttl
  BY <1>1, <1>2, Constants
<1> QED
  BY <1>1, <1>3 DEF Supported, Backed

-----------------------------------------------------------------------------
(***************************************************************************)
(* A session at work.                                                       *)
(***************************************************************************)
\* The session after a lookup returned value, as Return leaves it.
Onward(c, value) ==
  LET n == Head(c.todo)
      todo == IF n = "mx" THEN InOrder(value.records) ELSE Tail(c.todo)
  IN  [c EXCEPT !.got = Append(@, [name |-> n, value |-> value, at |-> now]),
                !.todo = todo, !.entry = NoEntry, !.answer = NoEntry, !.since = 0,
                !.step = stepAfter(c.task, todo, value)]

LEMMA OneWorks ==
  ASSUME IInv, NEW s \in Session, NEW c \in Sessions,
         session' = [session EXCEPT ![s] = c], UNCHANGED now,
         served' \in [Name -> SUBSET [value : AnyValue, at : Nat]],
         \A n \in Name : served[n] \subseteq served'[n],
         Honest(c, served', now)
  PROVE  session' \in [Session -> Sessions] /\ SessionInv'
<1>1. session \in [Session -> Sessions] /\ now \in Nat
  BY Constants DEF IInv, TypeInv
<1>2. ASSUME NEW o \in Session PROVE Honest(session'[o], served', now)
  <2>1. CASE o = s
    BY <1>1, <2>1
  <2>2. CASE o # s
    <3>1. session[o] \in Sessions /\ Honest(session[o], served, now) /\ session'[o] = session[o]
      BY <1>1, <2>2 DEF IInv, SessionInv
    <3>2. Honest(session[o], served', now)
      BY <1>1, <3>1, MoreAnswers
    <3> QED
      BY <3>1, <3>2
  <2> QED
    BY <2>1, <2>2
<1> QED
  BY <1>1, <1>2 DEF SessionInv

LEMMA AtWork ==
  ASSUME IInv, NEW s \in Session
  PROVE  /\ session[s] \in Sessions /\ Honest(session[s], served, now) /\ now \in Nat
         /\ session[s].todo \in Seq(Name)
         /\ session[s].step \in {"get", "check", "query", "put"} =>
              session[s].todo # <<>> /\ Head(session[s].todo) \in Name
         /\ \A n \in Name : served[n] \in SUBSET [value : AnyValue, at : Nat]
<1>1. session[s] \in Sessions /\ Honest(session[s], served, now)
  BY DEF IInv, TypeInv, SessionInv
<1>2. session[s].todo \in Seq(Name)
  BY <1>1 DEF Sessions
<1>3. session[s].step \in {"get", "check", "query", "put"} => session[s].todo # <<>>
  BY <1>1 DEF Honest
<1>4. now \in Nat /\ served \in [Name -> SUBSET [value : AnyValue, at : Nat]]
  BY Constants DEF IInv, TypeInv
<1> QED
  BY <1>1, <1>2, <1>3, <1>4, HeadTailProperties

LEMMA NextTodo ==
  ASSUME NEW todo \in Seq(Name), todo # <<>>, NEW v \in Values(Head(todo))
  PROVE  (IF Head(todo) = "mx" THEN InOrder(v.records) ELSE Tail(todo)) \in Seq(Name)
<1>1. CASE Head(todo) = "mx"
  <2>1. v.records \subseteq Name /\ IsFiniteSet(v.records)
    BY <1>1, MailHosts, NamesApart
  <2> QED
    BY <1>1, <2>1, Ordered, SeqMonotonic
<1>2. CASE Head(todo) # "mx"
  BY <1>2, HeadTailProperties
<1> QED
  BY <1>1, <1>2

LEMMA OnwardKeeps ==
  ASSUME IInv, NEW c \in Sessions, c.todo # <<>>, Honest(c, served, now),
         NEW v \in Values(Head(c.todo)), Supported(v, served[Head(c.todo)], now)
  PROVE  Onward(c, v) \in Sessions /\ Honest(Onward(c, v), served, now)
<1> DEFINE n == Head(c.todo)
           todo == IF n = "mx" THEN InOrder(v.records) ELSE Tail(c.todo)
           got == Append(c.got, [name |-> n, value |-> v, at |-> now])
           step == stepAfter(c.task, todo, v)
           Got == [name : Name, value : AnyValue, at : Nat]
<1>1. c.todo \in Seq(Name) /\ c.got \in Seq(Got) /\ n \in Name
  BY HeadTailProperties DEF Sessions
<1>2. now \in Nat
  BY Constants DEF IInv, TypeInv
<1>3. todo \in Seq(Name)
  BY <1>1, NextTodo
<1>4. [name |-> n, value |-> v, at |-> now] \in Got
  BY <1>1, <1>2, ValueTyped
<1>5. /\ got \in Seq(Got) /\ Len(got) = Len(c.got) + 1 /\ Len(c.got) \in Nat
      /\ \A i \in 1..Len(c.got) : got[i] = c.got[i]
      /\ got[Len(c.got) + 1] = [name |-> n, value |-> v, at |-> now]
  BY <1>1, <1>4, AppendProperties, LenProperties
<1> HIDE DEF todo, got
<1>6. step \in {"get", "fetch", "done"} /\ (step = "get" <=> todo # <<>>)
  BY DEF stepAfter
<1> HIDE DEF step
<1>7. Onward(c, v) = [c EXCEPT !.got = got, !.todo = todo, !.entry = NoEntry,
                              !.answer = NoEntry, !.since = 0, !.step = step]
  BY DEF Onward, todo, got, step
<1>8. /\ Onward(c, v) \in Sessions /\ Onward(c, v).got = got /\ Onward(c, v).todo = todo
      /\ Onward(c, v).step = step
  <2>1. /\ got \in Seq(Got) /\ todo \in Seq(Name) /\ step \in Steps
        /\ NoEntry \in Entries /\ NoEntry \in AnyValue \union {NoEntry} /\ 0 \in Nat
    BY <1>3, <1>5, <1>6 DEF Entries, Steps
  <2> HIDE DEF Onward
  <2>2. Onward(c, v) \in Sessions
    BY <1>7, <2>1 DEF Sessions
  <2>3. c = [c EXCEPT !.task = c.task] /\ DOMAIN c = {"task", "chain", "todo", "step",
               "entry", "since", "answer", "got", "policy"}
    BY DEF Sessions
  <2> QED
    BY <1>7, <2>2, <2>3
<1>9. \A i \in 1..(Len(c.got) + 1) :
        /\ got[i].value \in Values(got[i].name)
        /\ Supported(got[i].value, served[got[i].name], got[i].at)
  <2>1. \A i \in 1..(Len(c.got) + 1) : i \in 1..Len(c.got) \/ i = Len(c.got) + 1
    BY <1>5
  <2>2. DOMAIN c.got = 1..Len(c.got)
    BY GotTyped
  <2>3. \A i \in 1..Len(c.got) :
          /\ got[i].value \in Values(got[i].name)
          /\ Supported(got[i].value, served[got[i].name], got[i].at)
    BY <1>5, <2>2 DEF Honest
  <2> QED
    BY <1>5, <2>1, <2>3
<1>10. DOMAIN got = 1..(Len(c.got) + 1)
  BY <1>5, LenProperties
<1> QED
  BY <1>6, <1>8, <1>9, <1>10 DEF Honest

-----------------------------------------------------------------------------
(***************************************************************************)
(* Each step.                                                               *)
(***************************************************************************)
LEMMA Idle ==
  /\ NoSession \in Sessions
  /\ NoSession.step = "done" /\ NoSession.todo = <<>> /\ NoSession.got = <<>>
<1>1. <<>> \in Seq(Name) /\ <<>> \in Seq([name : Name, value : AnyValue, at : Nat])
  OBVIOUS
<1> QED
  BY <1>1 DEF NoSession, Sessions, Steps, Entries

LEMMA BeginKeeps ==
  ASSUME IInv, NEW s \in Session, NEW task \in Tasks, NEW n \in Name,
         NEW chain \in Chains \union {<<>>}, Begin(s, task, <<n>>, chain)
  PROVE  IInv'
<1> DEFINE c == [NoSession EXCEPT !.task = task, !.todo = <<n>>, !.chain = chain,
                                  !.step = "get"]
<1>1. /\ session' = [session EXCEPT ![s] = c]
      /\ UNCHANGED <<now, zone, changes, cache, served>>
  BY DEF Begin, Quiet
<1>2. c \in Sessions /\ c.step = "get" /\ c.todo = <<n>> /\ c.got = <<>>
  <2>1. <<n>> \in Seq(Name) /\ "get" \in Steps
    BY DEF Steps
  <2> QED
    BY <2>1, Idle DEF Sessions
<1> HIDE DEF c
<1>3. Honest(c, served', now)
  <2>1. <<n>> # <<>> /\ DOMAIN <<>> = {}
    OBVIOUS
  <2> QED
    BY <1>2, <2>1 DEF Honest
<1>4. session' \in [Session -> Sessions] /\ SessionInv'
  BY <1>1, <1>2, <1>3, OneWorks DEF IInv, TypeInv
<1> QED
  BY <1>1, <1>4 DEF IInv, TypeInv, CacheInv

LEMMA StartKeeps ==
  ASSUME IInv, NEW s \in Session, Start(s) PROVE IInv'
<1>1. CASE Begin(s, "dane", <<"mx">>, <<>>)
  BY <1>1, BeginKeeps, NamesApart DEF Tasks
<1>2. CASE \E h \in Host, chain \in Chains : Begin(s, "cert", <<h>>, chain)
  BY <1>2, BeginKeeps, NamesApart DEF Tasks
<1>3. CASE Begin(s, "mta-sts", <<"_mta-sts">>, <<>>)
  BY <1>3, BeginKeeps, NamesApart DEF Tasks
<1>4. CASE Begin(s, "tls-rpt", <<"_smtp._tls">>, <<>>)
  BY <1>4, BeginKeeps, NamesApart DEF Tasks
<1> QED
  BY <1>1, <1>2, <1>3, <1>4 DEF Start

LEMMA ReadKeeps ==
  ASSUME IInv, NEW s \in Session, Read(s) PROVE IInv'
<1> DEFINE n == Head(session[s].todo)
           c == [session[s] EXCEPT !.step = "check", !.entry = cache[n]]
<1>1. /\ session[s].step = "get" /\ session' = [session EXCEPT ![s] = c]
      /\ UNCHANGED <<now, zone, changes, cache, served>>
  BY DEF Read, Quiet
<1>2. /\ session[s] \in Sessions /\ Honest(session[s], served, now)
      /\ session[s].todo # <<>> /\ n \in Name
  BY <1>1, AtWork
<1>3. cache[n] \in Entries
  BY <1>2 DEF IInv, TypeInv
<1>4. /\ c \in Sessions /\ c.step = "check" /\ c.entry = cache[n]
      /\ c.todo = session[s].todo /\ c.got = session[s].got
  BY <1>2, <1>3 DEF Sessions, Steps
<1>5. cache[n] # NoEntry => cache[n].value \in Values(n) /\ Backed(cache[n], served[n], now)
  BY <1>2 DEF IInv, CacheInv
<1> HIDE DEF c
<1>6. Honest(c, served', now)
  BY <1>1, <1>2, <1>4, <1>5 DEF Honest
<1>7. session' \in [Session -> Sessions] /\ SessionInv'
  BY <1>1, <1>4, <1>6, OneWorks DEF IInv, TypeInv
<1> QED
  BY <1>1, <1>7 DEF IInv, TypeInv, CacheInv

LEMMA HitKeeps ==
  ASSUME IInv, NEW s \in Session, Hit(s) PROVE IInv'
<1> DEFINE e == session[s].entry
           c == Onward(session[s], e.value)
<1>1. /\ session[s].step = "check" /\ Live(e) /\ session' = [session EXCEPT ![s] = c]
      /\ UNCHANGED <<now, zone, changes, cache, served>>
  BY DEF Hit, Quiet, Return, Onward
<1>2. /\ session[s] \in Sessions /\ Honest(session[s], served, now) /\ now \in Nat
      /\ session[s].todo # <<>> /\ Head(session[s].todo) \in Name
      /\ served[Head(session[s].todo)] \in SUBSET [value : AnyValue, at : Nat]
  BY <1>1, AtWork
<1>3. /\ e.value \in Values(Head(session[s].todo))
      /\ Backed(e, served[Head(session[s].todo)], now)
      /\ e.expires \in Nat /\ now <= e.expires
  BY <1>1, <1>2 DEF Honest, Live, Sessions, Entries
<1>4. Supported(e.value, served[Head(session[s].todo)], now)
  BY <1>2, <1>3, HitIsSupported
<1>5. c \in Sessions /\ Honest(c, served, now)
  BY <1>2, <1>3, <1>4, OnwardKeeps
<1> HIDE DEF c
<1>6. session' \in [Session -> Sessions] /\ SessionInv'
  BY <1>1, <1>5, OneWorks DEF IInv, TypeInv
<1> QED
  BY <1>1, <1>6 DEF IInv, TypeInv, CacheInv

LEMMA MissKeeps ==
  ASSUME IInv, NEW s \in Session, Miss(s) PROVE IInv'
<1> DEFINE c == [session[s] EXCEPT !.step = "query", !.since = now, !.entry = NoEntry]
<1>1. /\ session[s].step = "check" /\ session' = [session EXCEPT ![s] = c]
      /\ UNCHANGED <<now, zone, changes, cache, served>>
  BY DEF Miss, Quiet
<1>2. /\ session[s] \in Sessions /\ Honest(session[s], served, now) /\ now \in Nat
      /\ session[s].todo # <<>>
  BY <1>1, AtWork
<1>3. /\ c \in Sessions /\ c.step = "query" /\ c.since = now
      /\ c.todo = session[s].todo /\ c.got = session[s].got
  BY <1>2 DEF Sessions, Steps, Entries
<1> HIDE DEF c
<1>4. now <= now /\ now <= now + timeout
  BY <1>2, Constants
<1>5. Honest(c, served', now)
  BY <1>1, <1>2, <1>3, <1>4 DEF Honest
<1>6. session' \in [Session -> Sessions] /\ SessionInv'
  BY <1>1, <1>3, <1>5, OneWorks DEF IInv, TypeInv
<1> QED
  BY <1>1, <1>6 DEF IInv, TypeInv, CacheInv

LEMMA QueryKeeps ==
  ASSUME IInv, NEW s \in Session, Query(s) PROVE IInv'
<1> DEFINE n == Head(session[s].todo)
<1>1. session[s].step = "query" /\ UNCHANGED <<now, zone, changes, cache>>
  BY DEF Query, Quiet
<1>2. PICK value \in Outcomes(n) :
        /\ session' = [session EXCEPT ![s].step = "put", ![s].answer = value]
        /\ served' = [served EXCEPT ![n] = @ \union {[value |-> value, at |-> now]}]
  BY DEF Query
<1> DEFINE c == [session[s] EXCEPT !.step = "put", !.answer = value]
           x == [value |-> value, at |-> now]
<1>3. /\ session[s] \in Sessions /\ Honest(session[s], served, now) /\ now \in Nat
      /\ session[s].todo # <<>> /\ n \in Name
  BY <1>1, AtWork
<1>4. value \in Values(n) /\ value \in AnyValue
  BY <1>3, OutcomesTyped, ValueTyped DEF IInv, TypeInv
<1>5. /\ served' \in [Name -> SUBSET [value : AnyValue, at : Nat]]
      /\ served' = [served EXCEPT ![n] = served[n] \union {x}]
      /\ x \in served'[n] /\ \A m \in Name : served[m] \subseteq served'[m]
  BY <1>2, <1>3, <1>4 DEF IInv, TypeInv
<1>6. /\ c \in Sessions /\ c.step = "put" /\ c.answer = value /\ c.since = session[s].since
      /\ c.todo = session[s].todo /\ c.got = session[s].got
  BY <1>3, <1>4 DEF Sessions, Steps
<1> HIDE DEF c
<1>7. session' = [session EXCEPT ![s] = c]
  BY <1>2 DEF c
<1>8. session[s].since <= now /\ now <= session[s].since + timeout
  BY <1>1, <1>3 DEF Honest
<1>9. Fresh(value, session[s].since, served'[n], now)
  <2>1. x.value = value /\ x.at = now /\ now <= now
    BY <1>3
  <2> QED
    BY <1>5, <1>8, <2>1 DEF Fresh
<1>10. Honest(c, served', now)
  <2>1. Honest(session[s], served', now)
    BY <1>3, <1>5, MoreAnswers
  <2> QED
    BY <1>3, <1>4, <1>6, <1>8, <1>9, <2>1 DEF Honest
<1>11. session' \in [Session -> Sessions] /\ SessionInv'
  BY <1>1, <1>5, <1>6, <1>7, <1>10, OneWorks
<1>12. CacheInv'
  <2> SUFFICES ASSUME NEW m \in Name, cache[m] # NoEntry
               PROVE  cache[m].value \in Values(m) /\ Backed(cache[m], served'[m], now)
    BY <1>1 DEF CacheInv
  <2>1. cache[m].value \in Values(m) /\ Backed(cache[m], served[m], now)
    BY DEF IInv, CacheInv
  <2>2. cache[m].expires \in Nat /\ now <= now
    BY <1>3 DEF IInv, TypeInv, Entries
  <2> QED
    BY <1>3, <1>5, <2>1, <2>2, BackedLonger
<1> QED
  BY <1>1, <1>5, <1>11, <1>12 DEF IInv, TypeInv

LEMMA StoreKeeps ==
  ASSUME IInv, NEW s \in Session, Store(s) PROVE IInv'
<1> DEFINE n == Head(session[s].todo)
           v == session[s].answer
           c == Onward(session[s], v)
           e == [value |-> v, expires |-> now + ttl]
<1>1. /\ session[s].step = "put" /\ session' = [session EXCEPT ![s] = c]
      /\ cache' = [cache EXCEPT ![n] = e]
      /\ UNCHANGED <<now, zone, changes, served>>
  BY DEF Store, put, Quiet, Return, Onward
<1>2. /\ session[s] \in Sessions /\ Honest(session[s], served, now) /\ now \in Nat
      /\ session[s].todo # <<>> /\ n \in Name
      /\ served[n] \in SUBSET [value : AnyValue, at : Nat]
  BY <1>1, AtWork
<1>3. /\ v \in Values(n) /\ Fresh(v, session[s].since, served[n], now)
      /\ session[s].since <= now /\ now <= session[s].since + timeout
      /\ session[s].since \in Nat
  BY <1>1, <1>2 DEF Honest, Sessions
<1>4. Supported(v, served[n], now) /\ Backed(e, served[n], now)
  BY <1>2, <1>3, PutIsSupported
<1>5. c \in Sessions /\ Honest(c, served, now)
  BY <1>2, <1>3, <1>4, OnwardKeeps
<1>6. e \in Entries
  <2>1. now + ttl \in Nat
    BY <1>2, Constants
  <2> QED
    BY <1>2, <1>3, <2>1, ValueTyped DEF Entries
<1>7. e.value = v
  OBVIOUS
<1> HIDE DEF c, e
<1>8. session' \in [Session -> Sessions] /\ SessionInv'
  BY <1>1, <1>5, OneWorks DEF IInv, TypeInv
<1>9. cache' \in [Name -> Entries]
  BY <1>1, <1>6 DEF IInv, TypeInv
<1>10. CacheInv'
  BY <1>1, <1>3, <1>4, <1>7 DEF IInv, TypeInv, CacheInv
<1> QED
  BY <1>1, <1>8, <1>9, <1>10 DEF IInv, TypeInv

LEMMA FetchKeeps ==
  ASSUME IInv, NEW s \in Session, Fetch(s) PROVE IInv'
<1>1. session[s].step = "fetch" /\ UNCHANGED <<now, zone, changes, cache, served>>
  BY DEF Fetch, Quiet
<1>2. PICK p \in Policies \union {"unreachable"} :
        session' = [session EXCEPT ![s].step = "done", ![s].policy = p]
  BY DEF Fetch
<1> DEFINE c == [session[s] EXCEPT !.step = "done", !.policy = p]
<1>3. session[s] \in Sessions /\ Honest(session[s], served, now)
  BY AtWork
<1>4. /\ c \in Sessions /\ c.step = "done" /\ c.todo = session[s].todo
      /\ c.got = session[s].got
  BY <1>3 DEF Sessions, Steps
<1> HIDE DEF c
<1>5. session' = [session EXCEPT ![s] = c]
  BY <1>2 DEF c
<1>6. Honest(c, served', now)
  BY <1>1, <1>3, <1>4 DEF Honest
<1>7. session' \in [Session -> Sessions] /\ SessionInv'
  BY <1>1, <1>4, <1>5, <1>6, OneWorks DEF IInv, TypeInv
<1> QED
  BY <1>1, <1>7 DEF IInv, TypeInv, CacheInv

LEMMA PublishKeeps ==
  ASSUME IInv, Publish PROVE IInv'
<1>1. /\ changes < MaxChanges /\ changes' = changes + 1 /\ zone' \in Zones
      /\ UNCHANGED <<now, cache, session, served>>
  BY DEF Publish
<1>2. changes + 1 \in 0..MaxChanges
  BY <1>1, Constants DEF IInv, TypeInv
<1> QED
  BY <1>1, <1>2 DEF IInv, TypeInv, CacheInv, SessionInv

LEMMA TickKeeps ==
  ASSUME IInv, Tick PROVE IInv'
<1>1. /\ now < MaxTime /\ now' = now + 1
      /\ \A s \in Session :
           session[s].step \in {"query", "put"} => now < session[s].since + timeout
      /\ UNCHANGED <<zone, changes, cache, session, served>>
  BY DEF Tick
<1>2. now \in Nat /\ now + 1 \in Nat /\ now <= now + 1 /\ now + 1 \in 0..MaxTime
  BY <1>1, Constants DEF IInv, TypeInv
<1>3. ASSUME NEW s \in Session PROVE Honest(session[s], served, now + 1)
  BY <1>1, <1>2, OneLater DEF IInv, TypeInv, SessionInv
<1>4. ASSUME NEW n \in Name, cache[n] # NoEntry
      PROVE  cache[n].value \in Values(n) /\ Backed(cache[n], served[n], now + 1)
  <2>1. cache[n].value \in Values(n) /\ Backed(cache[n], served[n], now)
    BY <1>4 DEF IInv, CacheInv
  <2>2. cache[n].expires \in Nat
    BY <1>4 DEF IInv, TypeInv, Entries
  <2> QED
    BY <1>2, <2>1, <2>2, BackedLonger
<1>5. SessionInv'
  BY <1>1, <1>3 DEF SessionInv
<1>6. CacheInv'
  BY <1>1, <1>4 DEF CacheInv
<1> QED
  BY <1>1, <1>2, <1>5, <1>6 DEF IInv, TypeInv

LEMMA InitIInv ==
  ASSUME Init PROVE IInv
<1>1. /\ now = 0 /\ changes = 0 /\ zone \in Zones
      /\ cache = [n \in Name |-> NoEntry] /\ session = [s \in Session |-> NoSession]
      /\ served = [n \in Name |-> {}]
  BY DEF Init
<1>2. 0 \in 0..MaxTime /\ 0 \in 0..MaxChanges
  BY Constants
<1>3. NoSession \in Sessions
  BY Idle
<1>4. Honest(NoSession, served, now)
  <2>1. DOMAIN <<>> = {}
    OBVIOUS
  <2> QED
    BY <2>1, Idle DEF Honest
<1> QED
  BY <1>1, <1>2, <1>3, <1>4 DEF IInv, TypeInv, CacheInv, SessionInv, Entries

LEMMA Inductive ==
  ASSUME IInv, [Next]_vars PROVE IInv'
<1>1. CASE \E s \in Session : Start(s)
  BY <1>1, StartKeeps
<1>2. CASE \E s \in Session : Read(s)
  BY <1>2, ReadKeeps
<1>3. CASE \E s \in Session : Hit(s)
  BY <1>3, HitKeeps
<1>4. CASE \E s \in Session : Miss(s)
  BY <1>4, MissKeeps
<1>5. CASE \E s \in Session : Query(s)
  BY <1>5, QueryKeeps
<1>6. CASE \E s \in Session : Store(s)
  BY <1>6, StoreKeeps
<1>7. CASE \E s \in Session : Fetch(s)
  BY <1>7, FetchKeeps
<1>8. CASE Publish
  BY <1>8, PublishKeeps
<1>9. CASE Tick
  BY <1>9, TickKeeps
<1>10. CASE UNCHANGED vars
  BY <1>10 DEF vars, IInv, TypeInv, CacheInv, SessionInv
<1> QED
  BY <1>1, <1>2, <1>3, <1>4, <1>5, <1>6, <1>7, <1>8, <1>9, <1>10 DEF Next, Step

LEMMA Invariance == Spec => []IInv
  BY InitIInv, Inductive, PTL DEF Spec

\* The type invariant, with what it says of expiry: an entry never outlives the
\* TTL, and a session waits for one name at a time (resolver.go: put, get).
THEOREM Typing == Spec => []TypeOK
<1>1. IInv => TypeOK
  <2> SUFFICES ASSUME IInv PROVE TypeOK
    OBVIOUS
  <2>1. ASSUME NEW n \in Name, cache[n] # NoEntry PROVE cache[n].expires \in 0..(now + ttl)
    <3>1. cache[n].expires \in Nat /\ Backed(cache[n], served[n], now)
      BY <2>1 DEF IInv, TypeInv, CacheInv, Entries
    <3>2. cache[n].expires <= now + ttl
      BY <3>1 DEF Backed
    <3> QED
      BY <3>1, <3>2, Constants DEF IInv, TypeInv
  <2>2. ASSUME NEW s \in Session
        PROVE  /\ session[s].step \in {"get", "check", "query", "put", "fetch", "done"}
               /\ session[s].step \in {"get", "check", "query", "put"} <=> session[s].todo # <<>>
    BY DEF IInv, TypeInv, SessionInv, Sessions, Steps, Honest
  <2> QED
    BY <2>1, <2>2 DEF IInv, TypeInv, TypeOK
<1> QED
  BY <1>1, Invariance, PTL

\* Whatever the sessions do between the unlocking and the storing, an answer
\* returned was given by the network, for the name asked, no longer ago than the
\* TTL and one lookup (resolver.go: get, put, ctx).
THEOREM NothingStaleIsReturned == Spec => []AnswersAreRecent
<1>1. IInv => AnswersAreRecent
  BY DEF IInv, SessionInv, Honest, Supported, AnswersAreRecent, Recent
<1> QED
  BY <1>1, Invariance, PTL

-----------------------------------------------------------------------------
(***************************************************************************)
(* What the checks of a domain have asked, and have still to ask: every mail *)
(* host the MX answer names is asked for before the check is done.           *)
(***************************************************************************)
DanePlan(got, todo) ==
  \/ got = <<>> /\ todo = <<"mx">>
  \/ /\ got # <<>> /\ got[1].name = "mx"
     /\ \A i \in DOMAIN got : got[i].name = "mx" => i = 1
     /\ \A j \in DOMAIN todo : todo[j] \in Host
     /\ \A h \in got[1].value.records :
          \/ \E i \in DOMAIN got : got[i].name = h
          \/ \E j \in DOMAIN todo : todo[j] = h

CertPlan(got, todo) ==
  \/ got = <<>> /\ \E h \in Host : todo = <<h>>
  \/ got # <<>> /\ got[1].name \in Host /\ todo = <<>>

Planned(c) ==
  /\ c.task = "dane" => DanePlan(c.got, c.todo)
  /\ c.task = "cert" => CertPlan(c.got, c.todo)

PlanInv == \A s \in Session : Planned(session[s])

LEMMA OnePlanned ==
  ASSUME IInv, PlanInv, NEW s \in Session, NEW c, Planned(c),
         session' = [session EXCEPT ![s] = c]
  PROVE  PlanInv'
  BY DEF IInv, TypeInv, PlanInv

LEMMA SamePlan ==
  ASSUME IInv, PlanInv, NEW s \in Session, NEW c, session' = [session EXCEPT ![s] = c],
         c.task = session[s].task, c.got = session[s].got, c.todo = session[s].todo
  PROVE  PlanInv'
<1>1. Planned(c)
  BY DEF PlanInv, Planned
<1> QED
  BY <1>1, OnePlanned

\* One more answer, one name less to ask for.
LEMMA Extended ==
  ASSUME NEW T, NEW q \in Seq(T), NEW x \in T
  PROVE  /\ DOMAIN q = 1..Len(q) /\ Len(q) \in Nat
         /\ DOMAIN Append(q, x) = 1..(Len(q) + 1)
         /\ \A i \in DOMAIN q : i \in DOMAIN Append(q, x) /\ Append(q, x)[i] = q[i]
         /\ Len(q) + 1 \in DOMAIN Append(q, x) /\ Append(q, x)[Len(q) + 1] = x
         /\ \A i \in DOMAIN Append(q, x) : i \in DOMAIN q \/ i = Len(q) + 1
         /\ Append(q, x) # <<>>
         /\ q = <<>> => Len(q) = 0
         /\ q # <<>> => 1 \in DOMAIN q
<1>1. /\ Append(q, x) \in Seq(T) /\ Len(Append(q, x)) = Len(q) + 1
      /\ Append(q, x)[Len(q) + 1] = x
      /\ \A i \in 1..Len(q) : Append(q, x)[i] = q[i]
  BY AppendProperties
<1>2. Len(q) \in Nat /\ DOMAIN q = 1..Len(q) /\ DOMAIN Append(q, x) = 1..(Len(q) + 1)
  BY <1>1, LenProperties
<1>3. (q = <<>> => Len(q) = 0) /\ (q # <<>> => Len(q) \in Nat \ {0})
  BY EmptySeq
<1>4. Append(q, x) # <<>>
  BY <1>1, <1>2, EmptySeq
<1>5. /\ Len(q) + 1 \in 1..(Len(q) + 1)
      /\ \A i \in 1..Len(q) : i \in 1..(Len(q) + 1)
      /\ \A i \in 1..(Len(q) + 1) : i \in 1..Len(q) \/ i = Len(q) + 1
      /\ Len(q) # 0 => 1 \in 1..Len(q)
  BY <1>2
<1> QED
  BY <1>1, <1>2, <1>3, <1>4, <1>5

LEMMA Shortened ==
  ASSUME NEW T, NEW q \in Seq(T), q # <<>>
  PROVE  /\ Tail(q) \in Seq(T) /\ Head(q) = q[1] /\ 1 \in DOMAIN q
         /\ \A j \in DOMAIN Tail(q) : \E i \in DOMAIN q : Tail(q)[j] = q[i]
         /\ \A i \in DOMAIN q : q[i] = q[1] \/ \E j \in DOMAIN Tail(q) : Tail(q)[j] = q[i]
<1>1. /\ Tail(q) \in Seq(T) /\ Len(Tail(q)) = Len(q) - 1
      /\ \A i \in 1..Len(Tail(q)) : Tail(q)[i] = q[i + 1]
  BY HeadTailProperties
<1>2. /\ Len(q) \in Nat \ {0} /\ DOMAIN q = 1..Len(q) /\ DOMAIN Tail(q) = 1..(Len(q) - 1)
  BY <1>1, LenProperties, EmptySeq
<1>3. ASSUME NEW j \in DOMAIN Tail(q) PROVE \E i \in DOMAIN q : Tail(q)[j] = q[i]
  <2>1. j + 1 \in 1..Len(q)
    BY <1>2
  <2> QED
    BY <1>1, <1>2, <2>1
<1>4. ASSUME NEW i \in DOMAIN q, i # 1
      PROVE  \E j \in DOMAIN Tail(q) : Tail(q)[j] = q[i]
  <2>1. i - 1 \in 1..(Len(q) - 1) /\ (i - 1) + 1 = i
    BY <1>2, <1>4
  <2> QED
    BY <1>1, <1>2, <2>1
<1>5. Head(q) = q[1] /\ 1 \in DOMAIN q
  BY <1>2
<1> QED
  BY <1>1, <1>3, <1>4, <1>5

LEMMA OnwardPlanned ==
  ASSUME IInv, NEW c \in Sessions, c.todo # <<>>, Planned(c),
         NEW v \in Values(Head(c.todo))
  PROVE  Planned(Onward(c, v))
<1> DEFINE n == Head(c.todo)
           todo == IF n = "mx" THEN InOrder(v.records) ELSE Tail(c.todo)
           x == [name |-> n, value |-> v, at |-> now]
           got == Append(c.got, x)
           Got == [name : Name, value : AnyValue, at : Nat]
<1>1. /\ Onward(c, v).task = c.task /\ Onward(c, v).got = got /\ Onward(c, v).todo = todo
  <2> HIDE DEF todo, got
  <2>1. Onward(c, v) = [c EXCEPT !.got = got, !.todo = todo, !.entry = NoEntry,
                              !.answer = NoEntry, !.since = 0,
                              !.step = stepAfter(c.task, todo, v)]
    BY DEF Onward, todo, got
  <2> QED
    BY <2>1 DEF Sessions
<1>2. c.todo \in Seq(Name) /\ n \in Name /\ n = c.todo[1] /\ c.got \in Seq(Got) /\ x \in Got
  <2>1. c.todo \in Seq(Name) /\ c.got \in Seq(Got)
    BY DEF Sessions
  <2>2. n \in Name /\ n = c.todo[1]
    BY <2>1, HeadTailProperties, Shortened
  <2>3. now \in Nat
    BY Constants DEF IInv, TypeInv
  <2> QED
    BY <2>1, <2>2, <2>3, ValueTyped
<1>3. /\ \A i \in DOMAIN c.got : i \in DOMAIN got /\ got[i] = c.got[i]
      /\ Len(c.got) + 1 \in DOMAIN got /\ got[Len(c.got) + 1] = x
      /\ \A i \in DOMAIN got : i \in DOMAIN c.got \/ i = Len(c.got) + 1
      /\ got # <<>> /\ (c.got # <<>> => 1 \in DOMAIN c.got)
  BY <1>2, Extended
<1>4. c.got = <<>> => Len(c.got) + 1 = 1 /\ DOMAIN c.got = {}
  <2>1. Len(<<>>) + 1 = 1 /\ DOMAIN <<>> = {}
    OBVIOUS
  <2> QED
    BY <2>1
<1>5. x.name = n /\ x.value = v
  OBVIOUS
<1> HIDE DEF got, x, n
<1>6. ASSUME c.task = "dane" PROVE DanePlan(got, todo)
  <2>1. CASE c.got = <<>> /\ c.todo = <<"mx">>
    <3>1. n = "mx" /\ v.records \subseteq Host /\ IsFiniteSet(v.records)
      BY <2>1, MailHosts DEF n
    <3>2. /\ todo \in Seq(v.records)
          /\ \A h \in v.records : \E j \in DOMAIN todo : todo[j] = h
      BY <3>1, Ordered
    <3> HIDE DEF todo
    <3>3. \A j \in DOMAIN todo : todo[j] \in Host
      BY <3>1, <3>2, LenProperties, ElementOfSeq
    <3> QED
      BY <1>3, <1>4, <1>5, <2>1, <3>1, <3>2, <3>3 DEF DanePlan
  <2>2. CASE ~(c.got = <<>> /\ c.todo = <<"mx">>)
    <3>1. /\ c.got # <<>> /\ c.got[1].name = "mx"
          /\ \A i \in DOMAIN c.got : c.got[i].name = "mx" => i = 1
          /\ \A j \in DOMAIN c.todo : c.todo[j] \in Host
          /\ \A h \in c.got[1].value.records :
               \/ \E i \in DOMAIN c.got : c.got[i].name = h
               \/ \E j \in DOMAIN c.todo : c.todo[j] = h
      BY <1>6, <2>2 DEF Planned, DanePlan
    <3>2. /\ 1 \in DOMAIN c.todo
          /\ \A j \in DOMAIN Tail(c.todo) : \E i \in DOMAIN c.todo : Tail(c.todo)[j] = c.todo[i]
          /\ \A i \in DOMAIN c.todo : \/ c.todo[i] = n
                                      \/ \E j \in DOMAIN Tail(c.todo) : Tail(c.todo)[j] = c.todo[i]
      BY <1>2, Shortened
    <3>3. n \in Host /\ n # "mx"
      BY <1>2, <3>1, <3>2, NamesApart
    <3>4. todo = Tail(c.todo)
      BY <3>3
    <3>5. got[1] = c.got[1] /\ got[1].name = "mx"
      BY <1>3, <3>1
    <3>6. \A i \in DOMAIN got : got[i].name = "mx" => i = 1
      BY <1>3, <1>5, <3>1, <3>3
    <3>7. \A j \in DOMAIN Tail(c.todo) : Tail(c.todo)[j] \in Host
      BY <3>1, <3>2
    <3>8. ASSUME NEW h \in got[1].value.records
          PROVE  \/ \E i \in DOMAIN got : got[i].name = h
                 \/ \E j \in DOMAIN Tail(c.todo) : Tail(c.todo)[j] = h
      <4>1. CASE \E i \in DOMAIN c.got : c.got[i].name = h
        BY <1>3, <4>1
      <4>2. CASE \E j \in DOMAIN c.todo : c.todo[j] = h
        BY <1>3, <1>5, <3>2, <4>2
      <4> QED
        BY <3>1, <3>5, <4>1, <4>2
    <3> QED
      BY <1>3, <3>4, <3>5, <3>6, <3>7, <3>8 DEF DanePlan
  <2> QED
    BY <2>1, <2>2
<1>7. ASSUME c.task = "cert" PROVE CertPlan(got, todo)
  <2>1. PICK h \in Host : c.todo = <<h>> /\ c.got = <<>>
    BY <1>7 DEF Planned, CertPlan
  <2>2. Head(<<h>>) = h /\ Tail(<<h>>) = <<>>
    OBVIOUS
  <2>3. n = h /\ todo = <<>>
    BY <2>1, <2>2, NamesApart DEF n
  <2> QED
    BY <1>3, <1>4, <1>5, <2>1, <2>3 DEF CertPlan
<1> QED
  BY <1>1, <1>6, <1>7 DEF Planned

LEMMA ReturnPlanned ==
  ASSUME IInv, PlanInv, NEW s \in Session, session[s].todo # <<>>,
         NEW v \in Values(Head(session[s].todo)), Return(s, v)
  PROVE  PlanInv'
<1>1. session' = [session EXCEPT ![s] = Onward(session[s], v)]
  BY DEF Return, Onward
<1>2. session[s] \in Sessions /\ Planned(session[s])
  BY AtWork DEF PlanInv
<1> QED
  BY <1>1, <1>2, OnwardPlanned, OnePlanned

LEMMA BeginPlanned ==
  ASSUME IInv, PlanInv, NEW s \in Session, NEW task, NEW n, NEW chain,
         Begin(s, task, <<n>>, chain), task = "dane" => n = "mx", task = "cert" => n \in Host
  PROVE  PlanInv'
<1> DEFINE c == [NoSession EXCEPT !.task = task, !.todo = <<n>>, !.chain = chain,
                                  !.step = "get"]
<1>1. session' = [session EXCEPT ![s] = c]
  BY DEF Begin
<1>2. c.task = task /\ c.todo = <<n>> /\ c.got = <<>>
  BY DEF NoSession
<1> HIDE DEF c
<1>3. Planned(c)
  BY <1>2 DEF Planned, DanePlan, CertPlan
<1> QED
  BY <1>1, <1>3, OnePlanned

LEMMA PlanInductive ==
  ASSUME IInv, PlanInv, [Next]_vars PROVE PlanInv'
<1>1. ASSUME NEW s \in Session, Start(s) PROVE PlanInv'
  <2>1. CASE Begin(s, "dane", <<"mx">>, <<>>)
    BY <2>1, BeginPlanned
  <2>2. CASE \E h \in Host, chain \in Chains : Begin(s, "cert", <<h>>, chain)
    BY <2>2, BeginPlanned
  <2>3. CASE Begin(s, "mta-sts", <<"_mta-sts">>, <<>>)
    BY <2>3, BeginPlanned
  <2>4. CASE Begin(s, "tls-rpt", <<"_smtp._tls">>, <<>>)
    BY <2>4, BeginPlanned
  <2> QED
    BY <1>1, <2>1, <2>2, <2>3, <2>4 DEF Start
<1>2. ASSUME NEW s \in Session, Read(s) PROVE PlanInv'
  <2> DEFINE c == [session[s] EXCEPT !.step = "check", !.entry = cache[Head(session[s].todo)]]
  <2>1. session' = [session EXCEPT ![s] = c]
    BY <1>2 DEF Read
  <2>2. c.task = session[s].task /\ c.got = session[s].got /\ c.todo = session[s].todo
    BY AtWork DEF Sessions
  <2> QED
    BY <2>1, <2>2, SamePlan
<1>3. ASSUME NEW s \in Session, Hit(s) PROVE PlanInv'
  <2>1. session[s].step = "check" /\ session[s].entry # NoEntry
        /\ Return(s, session[s].entry.value)
    BY <1>3 DEF Hit, Live
  <2>2. /\ session[s].todo # <<>>
        /\ session[s].entry.value \in Values(Head(session[s].todo))
    BY <2>1, AtWork DEF Honest
  <2> QED
    BY <2>1, <2>2, ReturnPlanned
<1>4. ASSUME NEW s \in Session, Miss(s) PROVE PlanInv'
  <2> DEFINE c == [session[s] EXCEPT !.step = "query", !.since = now, !.entry = NoEntry]
  <2>1. session' = [session EXCEPT ![s] = c]
    BY <1>4 DEF Miss
  <2>2. c.task = session[s].task /\ c.got = session[s].got /\ c.todo = session[s].todo
    BY AtWork DEF Sessions
  <2> QED
    BY <2>1, <2>2, SamePlan
<1>5. ASSUME NEW s \in Session, Query(s) PROVE PlanInv'
  <2>1. PICK value : session' = [session EXCEPT ![s].step = "put", ![s].answer = value]
    BY <1>5 DEF Query
  <2> DEFINE c == [session[s] EXCEPT !.step = "put", !.answer = value]
  <2>2. session' = [session EXCEPT ![s] = c]
    BY <2>1
  <2>3. c.task = session[s].task /\ c.got = session[s].got /\ c.todo = session[s].todo
    BY AtWork DEF Sessions
  <2> QED
    BY <2>2, <2>3, SamePlan
<1>6. ASSUME NEW s \in Session, Store(s) PROVE PlanInv'
  <2>1. session[s].step = "put" /\ Return(s, session[s].answer)
    BY <1>6 DEF Store
  <2>2. /\ session[s].todo # <<>>
        /\ session[s].answer \in Values(Head(session[s].todo))
    BY <2>1, AtWork DEF Honest
  <2> QED
    BY <2>1, <2>2, ReturnPlanned
<1>7. ASSUME NEW s \in Session, Fetch(s) PROVE PlanInv'
  <2>1. PICK p : session' = [session EXCEPT ![s].step = "done", ![s].policy = p]
    BY <1>7 DEF Fetch
  <2> DEFINE c == [session[s] EXCEPT !.step = "done", !.policy = p]
  <2>2. session' = [session EXCEPT ![s] = c]
    BY <2>1
  <2>3. c.task = session[s].task /\ c.got = session[s].got /\ c.todo = session[s].todo
    BY AtWork DEF Sessions
  <2> QED
    BY <2>2, <2>3, SamePlan
<1>8. CASE Publish \/ Tick \/ UNCHANGED vars
  BY <1>8 DEF Publish, Tick, vars, PlanInv
<1> QED
  BY <1>1, <1>2, <1>3, <1>4, <1>5, <1>6, <1>7, <1>8 DEF Next, Step

LEMMA PlanInvariance == Spec => [](IInv /\ PlanInv)
<1>1. Init => PlanInv
  <2> SUFFICES ASSUME Init, NEW s \in Session PROVE Planned(session[s])
    BY DEF PlanInv
  <2>1. session[s].task = "none"
    BY DEF Init, NoSession
  <2> QED
    BY <2>1 DEF Planned
<1>2. IInv /\ PlanInv /\ [Next]_vars => PlanInv'
  BY PlanInductive
<1> QED
  BY <1>1, <1>2, Invariance, PTL DEF Spec

\* What a finished check was given, name by name.
LEMMA Done ==
  ASSUME IInv, NEW s \in Session, session[s].step = "done"
  PROVE  /\ session[s].todo = <<>>
         /\ session[s].got # <<>> => 1 \in DOMAIN session[s].got
         /\ \A i \in DOMAIN session[s].got :
              LET g == session[s].got[i] IN g.value \in Recent(g.name, g.at)
         /\ \A i \in DOMAIN session[s].got :
              session[s].got[i].value \in Values(session[s].got[i].name)
<1>1. session[s] \in Sessions /\ Honest(session[s], served, now)
  BY AtWork
<1>2. session[s].got \in Seq([name : Name, value : AnyValue, at : Nat])
  BY <1>1 DEF Sessions
<1>3. session[s].got # <<>> => 1 \in DOMAIN session[s].got
  BY <1>2, Shortened
<1> QED
  BY <1>1, <1>3 DEF Honest, Supported, Recent

LEMMA Available ==
  ASSUME NEW answer, CheckDANE(answer) = "available"
  PROVE  answer.secure /\ Usable(answer) # {}
<1>1. answer.error => CheckDANE(answer) = "temperror"
  BY DEF CheckDANE
<1>2. ~answer.error /\ answer.records = {} => CheckDANE(answer) = "none"
  BY DEF CheckDANE
<1> QED
  BY DEF CheckDANE

LEMMA AllAvailable ==
  ASSUME NEW hosts, NEW host, CheckDANEDomain(hosts, host) = "available"
  PROVE  hosts # {} /\ \A h \in hosts : CheckDANE(host[h]) = "available"
  BY DEF CheckDANEDomain

\* A domain is called protected only when each mail host of the MX answer the
\* check was given has, recently, had a usable and validated commitment: no host
\* is passed over, and none is judged by another's answer (dane.go:
\* CheckDANEDomain).
THEOREM ProtectionCoversEveryHost == Spec => []AvailableIsBacked
<1>1. IInv /\ PlanInv => AvailableIsBacked
  <2> SUFFICES ASSUME IInv, PlanInv, NEW s \in Session, session[s].step = "done",
                      session[s].task = "dane", result(s) = "available"
               PROVE  /\ session[s].got[1].value.records # {}
                      /\ \A h \in session[s].got[1].value.records :
                           \E i \in DOMAIN session[s].got :
                             /\ session[s].got[i].name = h
                             /\ \E a \in Recent(h, session[s].got[i].at) :
                                  a.secure /\ Usable(a) # {}
    BY DEF AvailableIsBacked
  <2> DEFINE got == session[s].got
             pick(n) == CHOOSE i \in DOMAIN got : got[i].name = n
             Got(n) == got[pick(n)].value
             hosts == got[1].value.records
             host == [h \in hosts |-> Got(h)]
  <2>1. /\ got # <<>> /\ got[1].name = "mx"
        /\ \A i \in DOMAIN got : got[i].name = "mx" => i = 1
        /\ \A h \in hosts : \E i \in DOMAIN got : got[i].name = h
    <3>1. DanePlan(got, <<>>)
      BY Done DEF PlanInv, Planned
    <3>2. DOMAIN <<>> = {} /\ <<>> # <<"mx">>
      OBVIOUS
    <3> HIDE DEF got
    <3> QED
      BY <3>1, <3>2 DEF DanePlan
  <2>2. \A n : (\E i \in DOMAIN got : got[i].name = n)
               => pick(n) \in DOMAIN got /\ got[pick(n)].name = n
    OBVIOUS
  <2>3. 1 \in DOMAIN got
    BY <2>1, Done
  <2>4. pick("mx") = 1
    BY <2>1, <2>2, <2>3
  <2>5. CheckDANEDomain(hosts, host) = "available"
    <3>1. result(s) = CheckDANEDomain(Got("mx").records, [h \in Got("mx").records |-> Got(h)])
      BY DEF result
    <3> QED
      BY <2>4, <3>1
  <2>6. hosts # {} /\ \A h \in hosts : CheckDANE(got[pick(h)].value) = "available"
    <3>1. \A h \in hosts : host[h] = got[pick(h)].value
      OBVIOUS
    <3> HIDE DEF host, pick
    <3>2. hosts # {} /\ \A h \in hosts : CheckDANE(host[h]) = "available"
      BY <2>5, AllAvailable
    <3> QED
      BY <3>1, <3>2
  <2>7. ASSUME NEW h \in hosts
        PROVE  \E i \in DOMAIN got : /\ got[i].name = h
                                     /\ \E a \in Recent(h, got[i].at) : a.secure /\ Usable(a) # {}
    <3>1. pick(h) \in DOMAIN got /\ got[pick(h)].name = h
      BY <2>1, <2>2
    <3>2. CheckDANE(got[pick(h)].value) = "available"
      BY <2>6
    <3>3. got[pick(h)].value.secure /\ Usable(got[pick(h)].value) # {}
      BY <3>2, Available
    <3>4. got[pick(h)].value \in Recent(h, got[pick(h)].at)
      BY <3>1, Done
    <3> QED
      BY <3>1, <3>3, <3>4
  <2> QED
    BY <2>6, <2>7
<1> QED
  BY <1>1, PlanInvariance, PTL

\* A certificate passes only if a record published recently, and validated,
\* vouches for the leaf or for an anchor of its chain (dane.go:
\* VerifyDANECertificate).
THEOREM PassesAreVouchedFor == Spec => []PassIsVouched
<1>1. IInv /\ PlanInv => PassIsVouched
  <2> SUFFICES ASSUME IInv, PlanInv, NEW s \in Session, session[s].step = "done",
                      session[s].task = "cert", result(s) = "pass"
               PROVE  \E a \in Recent(session[s].got[1].name, session[s].got[1].at), r \in TLSA :
                        /\ a.secure /\ r \in a.records
                        /\ \/ r.usage = "DANE-EE" /\ Head(session[s].chain) = r.cert
                           \/ r.usage = "DANE-TA" /\ \E i \in DOMAIN session[s].chain :
                                                        session[s].chain[i] = r.cert
    BY DEF PassIsVouched
  <2> DEFINE g == session[s].got[1]
             chain == session[s].chain
  <2>1. session[s].got # <<>> /\ g.name \in Host
    BY Done DEF PlanInv, Planned, CertPlan
  <2>2. g.value \in Recent(g.name, g.at) /\ g.value \in Values(g.name)
    BY <2>1, Done
  <2>3. g.value.records \subseteq TLSA
    <3>1. g.name \in Name /\ Contents(g.name) = TLSA
      BY <2>1, NamesApart DEF Contents
    <3> QED
      BY <2>2, <3>1, ValueTyped
  <2>4. VerifyDANECertificate(g.value, chain) = "pass"
    BY DEF result
  <2>5. chain \in Seq(Cert)
    <3>1. chain \in Chains \union {<<>>}
      BY AtWork DEF Sessions
    <3>2. <<>> \in Seq(Cert) /\ \A c \in Chains : c \in Seq(Cert)
      BY ResolverAssumption DEF ResolverAssumption
    <3> QED
      BY <3>1, <3>2
  <2> HIDE DEF g, chain
  <2>6. CheckDANE(g.value) = "available" /\ chain # <<>>
    BY <2>4 DEF VerifyDANECertificate, CheckDANE
  <2>7. PICK r \in Usable(g.value) :
          \E i \in (IF r.usage = "DANE-EE" THEN {1} ELSE DOMAIN chain) :
            r.known /\ chain[i] = r.cert
    BY <2>4, <2>6 DEF VerifyDANECertificate
  <2>8. r \in g.value.records /\ r \in TLSA /\ r.usage \in {"DANE-TA", "DANE-EE"}
    BY <2>3 DEF Usable
  <2>9. Head(chain) = chain[1] /\ g.value.secure
    BY <2>5, <2>6, Shortened, Available
  <2>10. \/ r.usage = "DANE-EE" /\ Head(chain) = r.cert
         \/ r.usage = "DANE-TA" /\ \E i \in DOMAIN chain : chain[i] = r.cert
    BY <2>7, <2>8, <2>9
  <2> QED
    BY <2>2, <2>8, <2>9, <2>10 DEF g, chain
<1> QED
  BY <1>1, PlanInvariance, PTL
=============================================================================
