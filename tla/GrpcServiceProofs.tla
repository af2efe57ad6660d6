------------------------- MODULE GrpcServiceProofs -------------------------
(***************************************************************************)
(* Proofs about GrpcService and the reloading of the policy it runs, for any *)
(* files, edits, callers and deliveries: every message is evaluated with one *)
(* published policy, a published policy can always be walked to its end, and *)
(* the answers say what became of the messages.                             *)
(*                                                                         *)
(* What makes a gathered policy runnable is an order in which its files were *)
(* kept, each after the files it loads.  The reader extends such an order     *)
(* whatever is edited meanwhile (Gathering); an evaluation goes down it       *)
(* (Descends), so that it never meets a file it is in.                       *)
(***************************************************************************)
EXTENDS GrpcService, FiniteSetTheorems, SequenceTheorems, TLAPS

Elements(q) == {q[i] : i \in DOMAIN q}

Frames == [file : File, source : Sources, todo : Seq(File)]
Modules == UNION {[D -> Sources] : D \in SUBSET File}
Walks == [status : {"idle", "reading", "complete", "failed", "stopped"},
          stack : Seq(Frames), done : Modules]

\* An order of the files of p in which each comes after those it loads.
Ranked(p, rank, n) ==
  /\ rank \in [DOMAIN p -> Nat]
  /\ \A f \in DOMAIN p : /\ p[f].ok /\ rank[f] < n
                         /\ \A l \in Elements(p[f].loads) : l \in DOMAIN p /\ rank[l] < rank[f]

Sound(p) == \E n \in Nat : \E rank : Ranked(p, rank, n)

\* A walk that gathers files, which may be edited while it goes on.
Gathering(w) ==
  /\ Sound(w.done)
  /\ \A i \in 1..Len(w.stack) :
       /\ w.stack[i].source.ok
       /\ \A l \in Elements(w.stack[i].source.loads) :
            \/ l \in DOMAIN w.done \union Elements(w.stack[i].todo)
            \/ i # 1 /\ l = w.stack[i - 1].file
       /\ w.stack[i].file \notin DOMAIN w.done
       /\ \A j \in 1..Len(w.stack) : w.stack[j].file = w.stack[i].file => i = j
  /\ w.status = "reading" => w.stack # <<>> /\ w.stack[Len(w.stack)].file = root
  /\ w.status = "complete" => root \in DOMAIN w.done

\* A walk over the files of p, which stay as they are.
Matches(w, p) ==
  /\ \A f \in DOMAIN w.done : f \in DOMAIN p /\ w.done[f] = p[f]
  /\ \A i \in 1..Len(w.stack) : /\ w.stack[i].file \in DOMAIN p
                                /\ w.stack[i].source = p[w.stack[i].file]
                                /\ Elements(w.stack[i].todo) \subseteq Elements(w.stack[i].source.loads)

Descends(w, p) ==
  \E n \in Nat : \E rank :
    /\ Ranked(p, rank, n)
    /\ \A i, j \in 1..Len(w.stack) : i < j => rank[w.stack[i].file] < rank[w.stack[j].file]

(***************************************************************************)
(* The inductive invariant.  What a call has come to is said of its record   *)
(* and of the policies published so far, which only grow.                   *)
(***************************************************************************)
\* An evaluation is under way, or it has been through every file.
Evaluating(w, p) ==
  /\ w \in Walks /\ w.status \in {"reading", "complete"}
  /\ w.status = "reading" => w.stack # <<>>
  /\ Matches(w, p) /\ Descends(w, p)

Runnable(p) == p \in Modules /\ Sound(p) /\ root \in DOMAIN p

Phases == {"closed", "ready", "evaluating", "decide", "deliver", "count", "answered"}

Calls == [phase : Phases,
          token : {"none", "right", "wrong"}, req : Requests \union {NoCall.req},
          snapshot : Modules, walk : Walks, actions : Seq(Actions),
          taken : BOOLEAN, forwarded : BOOLEAN, accepted : BOOLEAN, code : Nat]

\* The evaluation goes over a policy that was published.
OnPolicy(k, published) ==
  k.walk # NoWalk => k.snapshot \in published /\ Evaluating(k.walk, k.snapshot)

\* What has to hold before a message is handed on.
MayHandOn(k) ==
  /\ k.req.forward /\ k.req.envelopeOk
  /\ \A i \in DOMAIN k.actions : ~Blocks(k.actions[i], forwardQuarantine \/ hostAdapter)
  /\ HasUnsupportedAction(k.actions) => hostAdapter

Accounted(k) ==
  /\ k.accepted <=> k.code = 250
  /\ k.accepted /\ k.req.forward <=> k.forwarded
  /\ k.forwarded => k.taken
  /\ k.code \in 500..599 => ~k.taken

Honest(k) ==
  /\ k.phase # "closed" /\ hasToken => k.token = "right"
  /\ k.phase = "deliver" \/ k.taken => MayHandOn(k)
  /\ IF k.phase \in {"count", "answered"} THEN Accounted(k)
     ELSE ~k.taken /\ ~k.forwarded /\ ~k.accepted

TypeInv == files \in [File -> Sources] /\ reader \in Walks /\ call \in [Caller -> Calls]

ReaderInv == reader.status \in {"reading", "complete"} => Gathering(reader)

PolicyInv ==
  /\ \A p \in installed : Runnable(p)
  /\ policy # NoPolicy => policy \in installed

CallsInv ==
  \A c \in Caller : /\ call[c].phase # "closed" => policy # NoPolicy
                    /\ OnPolicy(call[c], installed) /\ Honest(call[c])

IInv == TypeInv /\ ReaderInv /\ PolicyInv /\ CallsInv

-----------------------------------------------------------------------------
(***************************************************************************)
(* What the operators of a walk do.                                         *)
(***************************************************************************)
LEMMA SourceTyped ==
  ASSUME NEW s \in Sources
  PROVE  s.loads \in Seq(File) /\ s.ok \in BOOLEAN /\ s.fails \in BOOLEAN
         /\ s.actions \in Seq(Actions)
  BY PolicyReloadAssumption, GrpcAssumption DEF PolicyReloadAssumption, GrpcAssumption

LEMMA ElementsTyped ==
  ASSUME NEW T, NEW q \in Seq(T)
  PROVE  Elements(q) \subseteq T /\ (q = <<>> => Elements(q) = {})
<1>1. DOMAIN q = 1..Len(q)
  BY LenProperties
<1>2. \A i \in 1..Len(q) : q[i] \in T
  BY ElementOfSeq
<1>3. DOMAIN <<>> = {}
  OBVIOUS
<1> QED
  BY <1>1, <1>2, <1>3 DEF Elements

LEMMA HeadAndRest ==
  ASSUME NEW T, NEW q \in Seq(T), q # <<>>
  PROVE  /\ Head(q) \in T /\ Tail(q) \in Seq(T) /\ Head(q) = q[1]
         /\ Len(q) \in Nat \ {0} /\ Len(Tail(q)) = Len(q) - 1
         /\ \A i \in 1..Len(Tail(q)) : Tail(q)[i] = q[i + 1]
         /\ Elements(q) = {Head(q)} \union Elements(Tail(q))
<1>1. /\ Head(q) \in T /\ Tail(q) \in Seq(T) /\ Len(Tail(q)) = Len(q) - 1
      /\ \A i \in 1..Len(Tail(q)) : Tail(q)[i] = q[i + 1]
  BY HeadTailProperties
<1>2. /\ Len(q) \in Nat \ {0} /\ DOMAIN q = 1..Len(q) /\ DOMAIN Tail(q) = 1..(Len(q) - 1)
  BY <1>1, LenProperties, EmptySeq
<1>3. Head(q) = q[1]
  OBVIOUS
<1>4. ASSUME NEW i \in DOMAIN q PROVE q[i] = q[1] \/ \E j \in DOMAIN Tail(q) : q[i] = Tail(q)[j]
  <2>1. CASE i # 1
    <3>1. i - 1 \in 1..(Len(q) - 1) /\ (i - 1) + 1 = i
      BY <1>2, <2>1
    <3> QED
      BY <1>1, <1>2, <3>1
  <2> QED
    BY <2>1
<1>5. ASSUME NEW j \in DOMAIN Tail(q) PROVE \E i \in DOMAIN q : q[i] = Tail(q)[j]
  <2>1. j + 1 \in 1..Len(q)
    BY <1>2
  <2> QED
    BY <1>1, <1>2, <2>1
<1>6. 1 \in DOMAIN q
  BY <1>2
<1>7. Elements(q) \subseteq {q[1]} \union Elements(Tail(q))
  BY <1>4 DEF Elements
<1>8. q[1] \in Elements(q) /\ Elements(Tail(q)) \subseteq Elements(q)
  BY <1>5, <1>6 DEF Elements
<1>9. Elements(q) = {Head(q)} \union Elements(Tail(q))
  BY <1>3, <1>7, <1>8
<1> QED
  BY <1>1, <1>2, <1>3, <1>9

LEMMA WalkTyped ==
  ASSUME NEW w \in Walks
  PROVE  /\ w.stack \in Seq(Frames) /\ Len(w.stack) \in Nat
         /\ DOMAIN w.stack = 1..Len(w.stack)
         /\ \A i \in 1..Len(w.stack) :
              /\ w.stack[i] \in Frames /\ w.stack[i].file \in File
              /\ w.stack[i].source \in Sources /\ w.stack[i].todo \in Seq(File)
         /\ DOMAIN w.done \subseteq File /\ w.done \in [DOMAIN w.done -> Sources]
         /\ \A f \in DOMAIN w.done : w.done[f] \in Sources
<1>1. w.stack \in Seq(Frames) /\ w.done \in Modules
  BY DEF Walks
<1>2. \A i \in 1..Len(w.stack) : w.stack[i] \in Frames
  BY <1>1, ElementOfSeq
<1>3. Len(w.stack) \in Nat /\ DOMAIN w.stack = 1..Len(w.stack)
  BY <1>1, LenProperties
<1>4. DOMAIN w.done \subseteq File /\ w.done \in [DOMAIN w.done -> Sources]
  BY <1>1 DEF Modules
<1> QED
  BY <1>1, <1>2, <1>3, <1>4 DEF Frames

\* The load statement is passed.
Past(w) == [w EXCEPT !.stack[1].todo = Tail(@)]

LEMMA PastWalk ==
  ASSUME NEW w \in Walks, w.stack # <<>>, Head(w.stack).todo # <<>>
  PROVE  /\ Past(w) \in Walks /\ Past(w).status = w.status /\ Past(w).done = w.done
         /\ Len(Past(w).stack) = Len(w.stack) /\ Past(w).stack # <<>>
         /\ Len(w.stack) \in Nat \ {0} /\ 1 \in 1..Len(w.stack)
         /\ \A i \in 1..Len(w.stack) :
              /\ Past(w).stack[i].file = w.stack[i].file
              /\ Past(w).stack[i].source = w.stack[i].source
              /\ i # 1 => Past(w).stack[i].todo = w.stack[i].todo
         /\ Head(Head(w.stack).todo) \in File /\ Head(w.stack) = w.stack[1]
         /\ Elements(w.stack[1].todo)
              = {Head(Head(w.stack).todo)} \union Elements(Past(w).stack[1].todo)
<1> DEFINE top == w.stack[1]
           e == [top EXCEPT !.todo = Tail(@)]
           st == [w.stack EXCEPT ![1] = e]
<1>1. /\ w.stack \in Seq(Frames) /\ Len(w.stack) \in Nat \ {0} /\ Head(w.stack) = top
      /\ 1 \in 1..Len(w.stack)
  BY WalkTyped, HeadAndRest
<1>2. top \in Frames /\ top.todo \in Seq(File)
  BY <1>1, WalkTyped
<1>3. /\ Head(top.todo) \in File /\ Tail(top.todo) \in Seq(File)
      /\ Elements(top.todo) = {Head(top.todo)} \union Elements(Tail(top.todo))
  BY <1>1, <1>2, HeadAndRest
<1>4. /\ e \in Frames /\ e.file = top.file /\ e.source = top.source
      /\ e.todo = Tail(top.todo)
  BY <1>2, <1>3 DEF Frames
<1>5. Past(w) = [w EXCEPT !.stack = st]
  BY DEF Past
<1> HIDE DEF e
<1>6. /\ st \in Seq(Frames) /\ Len(st) = Len(w.stack)
      /\ \A i \in 1..Len(w.stack) : st[i] = IF i = 1 THEN e ELSE w.stack[i]
  BY <1>1, <1>4, ExceptSeq
<1>7. st # <<>>
  BY <1>1, <1>6, EmptySeq
<1> HIDE DEF st
<1>8. Past(w) \in Walks /\ Past(w).stack = st /\ Past(w).status = w.status
      /\ Past(w).done = w.done
  BY <1>5, <1>6 DEF Walks
<1> QED
  BY <1>1, <1>3, <1>4, <1>6, <1>7, <1>8

LEMMA EnteredWalk ==
  ASSUME NEW w \in Walks, NEW f \in File, NEW s \in Sources, s.ok
  PROVE  LET new == Enter(w, f, s) IN
         /\ new \in Walks /\ new.status = w.status /\ new.done = w.done
         /\ Len(new.stack) = Len(w.stack) + 1 /\ Len(w.stack) \in Nat /\ new.stack # <<>>
         /\ new.stack[1].file = f /\ new.stack[1].source = s /\ new.stack[1].todo = s.loads
         /\ \A i \in 1..(Len(w.stack) + 1) :
              i # 1 => i - 1 \in 1..Len(w.stack) /\ new.stack[i] = w.stack[i - 1]
<1> DEFINE e == Frame(f, s)
           st == <<e>> \o w.stack
<1>1. w.stack \in Seq(Frames) /\ Len(w.stack) \in Nat
  BY WalkTyped
<1>2. /\ e \in Frames /\ e.file = f /\ e.source = s /\ e.todo = s.loads
  BY SourceTyped DEF Frame, Frames
<1> HIDE DEF e
<1>3. <<e>> \in Seq(Frames) /\ Len(<<e>>) = 1 /\ <<e>>[1] = e
  BY <1>2
<1>4. /\ st \in Seq(Frames) /\ Len(st) = 1 + Len(w.stack)
      /\ \A i \in 1..(1 + Len(w.stack)) :
           st[i] = IF i <= 1 THEN <<e>>[i] ELSE w.stack[i - 1]
  BY <1>1, <1>3, ConcatProperties
<1>5. Enter(w, f, s) = [w EXCEPT !.stack = st]
  BY DEF Enter, e
<1> HIDE DEF st
<1>6. Enter(w, f, s) \in Walks /\ Enter(w, f, s).stack = st
      /\ Enter(w, f, s).status = w.status /\ Enter(w, f, s).done = w.done
  BY <1>4, <1>5 DEF Walks
<1>7. /\ 1 \in 1..(1 + Len(w.stack)) /\ 1 <= 1 /\ 1 + Len(w.stack) = Len(w.stack) + 1
      /\ \A i \in 1..(Len(w.stack) + 1) : i # 1 => i - 1 \in 1..Len(w.stack) /\ ~(i <= 1)
      /\ Len(w.stack) + 1 # 0
  BY <1>1
<1>8. st # <<>>
  BY <1>4, <1>7, EmptySeq
<1> QED
  BY <1>1, <1>2, <1>3, <1>4, <1>6, <1>7, <1>8

LEMMA LeftWalk ==
  ASSUME NEW w \in Walks, w.stack # <<>>
  PROVE  LET new == Leave(w)
             top == w.stack[1] IN
         /\ new \in Walks /\ Head(w.stack) = top /\ 1 \in 1..Len(w.stack)
         /\ new.status = IF new.stack = <<>> THEN "complete" ELSE w.status
         /\ Len(w.stack) \in Nat \ {0} /\ Len(new.stack) = Len(w.stack) - 1
         /\ \A i \in 1..Len(new.stack) : i + 1 \in 1..Len(w.stack) /\ new.stack[i] = w.stack[i + 1]
         /\ DOMAIN new.done = {top.file} \union DOMAIN w.done
         /\ \A f \in DOMAIN new.done :
              new.done[f] = IF f = top.file THEN top.source ELSE w.done[f]
<1> DEFINE top == Head(w.stack)
           D == {top.file} \union DOMAIN w.done
           kept == [f \in D |-> IF f = top.file THEN top.source ELSE w.done[f]]
           rest == [w EXCEPT !.stack = Tail(@), !.done = kept]
<1>1. /\ w.stack \in Seq(Frames) /\ top = w.stack[1] /\ Tail(w.stack) \in Seq(Frames)
      /\ Len(w.stack) \in Nat \ {0} /\ Len(Tail(w.stack)) = Len(w.stack) - 1
      /\ \A i \in 1..Len(Tail(w.stack)) : Tail(w.stack)[i] = w.stack[i + 1]
  BY WalkTyped, HeadAndRest
<1>2. 1 \in 1..Len(w.stack) /\ \A i \in 1..(Len(w.stack) - 1) : i + 1 \in 1..Len(w.stack)
  BY <1>1
<1>3. kept \in Modules
  <2>1. top.file \in File /\ top.source \in Sources /\ DOMAIN w.done \subseteq File
        /\ \A f \in DOMAIN w.done : w.done[f] \in Sources
    BY <1>1, <1>2, WalkTyped
  <2>2. kept \in [D -> Sources] /\ D \in SUBSET File
    BY <2>1
  <2> QED
    BY <2>2 DEF Modules
<1>4. DOMAIN kept = D /\ \A f \in D : kept[f] = IF f = top.file THEN top.source ELSE w.done[f]
  OBVIOUS
<1>5. Leave(w) = IF rest.stack = <<>> THEN [rest EXCEPT !.status = "complete"] ELSE rest
  BY DEF Leave
<1> HIDE DEF kept
<1>6. rest \in Walks /\ rest.stack = Tail(w.stack) /\ rest.done = kept /\ rest.status = w.status
  BY <1>1, <1>3 DEF Walks
<1> HIDE DEF rest
<1>7. /\ Leave(w) \in Walks /\ Leave(w).stack = rest.stack /\ Leave(w).done = rest.done
      /\ Leave(w).status = IF rest.stack = <<>> THEN "complete" ELSE rest.status
  BY <1>5, <1>6 DEF Walks
<1> QED
  BY <1>1, <1>2, <1>4, <1>6, <1>7

-----------------------------------------------------------------------------
(***************************************************************************)
(* The reader.                                                              *)
(***************************************************************************)
LEMMA EnterGathers ==
  ASSUME NEW w \in Walks, Sound(w.done), w.status = "reading",
         NEW s \in Sources, s.ok, root \notin DOMAIN w.done
  PROVE  w.stack = <<>> => Gathering(Enter(w, root, s))
<1> DEFINE new == Enter(w, root, s)
<1>1. root \in File
  BY PolicyReloadAssumption DEF PolicyReloadAssumption
<1>2. /\ new.status = w.status /\ new.done = w.done /\ new.stack # <<>>
      /\ Len(new.stack) = Len(w.stack) + 1
      /\ new.stack[1].file = root /\ new.stack[1].source = s /\ new.stack[1].todo = s.loads
  BY <1>1, EnteredWalk
<1> SUFFICES ASSUME w.stack = <<>> PROVE Gathering(new)
  OBVIOUS
<1> HIDE DEF new
<1>3. Len(new.stack) = 1 /\ \A i \in 1..1 : i = 1
  <2>1. Len(<<>>) + 1 = 1
    OBVIOUS
  <2> QED
    BY <1>2, <2>1
<1>4. \A i \in 1..Len(new.stack) :
        /\ new.stack[i].source.ok
        /\ \A l \in Elements(new.stack[i].source.loads) : l \in Elements(new.stack[i].todo)
        /\ new.stack[i].file \notin DOMAIN new.done
        /\ \A j \in 1..Len(new.stack) : i = j
  BY <1>2, <1>3
<1> QED
  BY <1>2, <1>3, <1>4 DEF Gathering

LEMMA FollowGathers ==
  ASSUME NEW w \in Walks, w.status = "reading", Gathering(w),
         Head(w.stack).todo # <<>>, NEW sources \in [File -> Sources]
  PROVE  /\ Follow(w, sources) \in Walks /\ Follow(w, sources).status \in {"reading", "failed"}
         /\ Follow(w, sources).status = "reading" => Gathering(Follow(w, sources))
<1> DEFINE f == Head(Head(w.stack).todo)
           past == Past(w)
           n == Len(w.stack)
           Loads(i) == Elements(w.stack[i].source.loads)
<1>0. w.stack # <<>>
  BY DEF Gathering
<1>1. /\ past \in Walks /\ past.status = "reading" /\ past.done = w.done
      /\ Len(past.stack) = n /\ past.stack # <<>> /\ n \in Nat \ {0} /\ 1 \in 1..n
      /\ \A i \in 1..n : /\ past.stack[i].file = w.stack[i].file
                         /\ past.stack[i].source = w.stack[i].source
                         /\ i # 1 => past.stack[i].todo = w.stack[i].todo
      /\ f \in File
      /\ Elements(w.stack[1].todo) = {f} \union Elements(past.stack[1].todo)
  BY <1>0, PastWalk
<1>2. n \in 1..n
  BY <1>1
<1>3. /\ Sound(w.done) /\ w.stack[n].file = root
      /\ \A i \in 1..n :
           /\ w.stack[i].source.ok
           /\ \A l \in Loads(i) : \/ l \in DOMAIN w.done \union Elements(w.stack[i].todo)
                                  \/ i # 1 /\ l = w.stack[i - 1].file
           /\ w.stack[i].file \notin DOMAIN w.done
           /\ \A j \in 1..n : w.stack[j].file = w.stack[i].file => i = j
  BY DEF Gathering
<1> HIDE DEF past, f, n
<1>4. CASE f \in DOMAIN w.done
  <2>1. Follow(w, sources) = past
    BY <1>4 DEF Follow, past, Past, f
  <2>2. \A i \in 1..n : i # 1 => past.stack[i - 1].file = w.stack[i - 1].file
    <3>1. \A i \in 1..n : i # 1 => i - 1 \in 1..n
      BY <1>1
    <3> QED
      BY <1>1, <3>1
  <2>3. \A i \in 1..n : \A l \in Loads(i) :
          \/ l \in DOMAIN w.done \union Elements(past.stack[i].todo)
          \/ i # 1 /\ l = past.stack[i - 1].file
    BY <1>1, <1>3, <1>4, <2>2
  <2>4. Gathering(past)
    BY <1>1, <1>2, <1>3, <2>3 DEF Gathering
  <2> QED
    BY <1>1, <2>1, <2>4
<1>5. CASE f \notin DOMAIN w.done /\ (OnStack(w, f) \/ ~sources[f].ok)
  <2>1. f \in DOMAIN sources
    BY <1>1
  <2>2. Follow(w, sources) = [w EXCEPT !.status = "failed"]
        \/ Follow(w, sources) = [past EXCEPT !.status = "failed"]
    BY <1>5, <2>1 DEF Follow, Enter, past, Past, f
  <2>3. Follow(w, sources) \in Walks /\ Follow(w, sources).status = "failed"
    BY <1>1, <2>2 DEF Walks
  <2> QED
    BY <2>3
<1>6. CASE f \notin DOMAIN w.done /\ ~OnStack(w, f) /\ sources[f].ok
  <2> DEFINE s == sources[f]
             new == Enter(past, f, s)
  <2>1. f \in DOMAIN sources /\ s \in Sources /\ s.ok
    BY <1>1, <1>6
  <2>2. Follow(w, sources) = new
    BY <1>6, <2>1 DEF Follow, past, Past, f
  <2> HIDE DEF s
  <2>3. /\ new \in Walks /\ new.status = "reading" /\ new.done = w.done /\ new.stack # <<>>
        /\ Len(new.stack) = n + 1
        /\ new.stack[1].file = f /\ new.stack[1].source = s /\ new.stack[1].todo = s.loads
        /\ \A i \in 1..(n + 1) : i # 1 => i - 1 \in 1..n /\ new.stack[i] = past.stack[i - 1]
    BY <1>1, <2>1, EnteredWalk
  <2> HIDE DEF new
  <2>4. \A i \in 1..n : w.stack[i].file # f
    <3>1. DOMAIN w.stack = 1..n
      BY WalkTyped DEF n
    <3> QED
      BY <1>6, <3>1 DEF OnStack
  <2>5. new.stack[n + 1].file = root
    <3>1. n + 1 \in 1..(n + 1) /\ n + 1 # 1 /\ (n + 1) - 1 = n
      BY <1>1
    <3>2. new.stack[n + 1] = past.stack[n]
      BY <2>3, <3>1
    <3> QED
      BY <1>1, <1>2, <1>3, <3>2
  <2>6. ASSUME NEW i \in 1..(n + 1)
        PROVE  /\ new.stack[i].source.ok
               /\ \A l \in Elements(new.stack[i].source.loads) :
                    \/ l \in DOMAIN new.done \union Elements(new.stack[i].todo)
                    \/ i # 1 /\ l = new.stack[i - 1].file
               /\ new.stack[i].file \notin DOMAIN new.done
               /\ \A j \in 1..(n + 1) : new.stack[j].file = new.stack[i].file => i = j
    <3>1. CASE i = 1
      <4>1. ASSUME NEW j \in 1..(n + 1), new.stack[j].file = new.stack[i].file PROVE i = j
        <5>1. ASSUME j # 1 PROVE FALSE
          <6>1. j - 1 \in 1..n /\ new.stack[j].file = w.stack[j - 1].file
            BY <1>1, <2>3, <5>1
          <6> QED
            BY <2>3, <2>4, <3>1, <4>1, <6>1
        <5> QED
          BY <3>1, <5>1
      <4>2. \A l \in Elements(new.stack[i].source.loads) : l \in Elements(new.stack[i].todo)
        BY <2>3, <3>1
      <4>3. new.stack[i].source.ok /\ new.stack[i].file \notin DOMAIN new.done
        BY <1>6, <2>1, <2>3, <3>1
      <4> QED
        BY <4>1, <4>2, <4>3
    <3>2. CASE i # 1
      <4>1. /\ i - 1 \in 1..n /\ new.stack[i] = past.stack[i - 1]
            /\ new.stack[i].file = w.stack[i - 1].file
            /\ new.stack[i].source = w.stack[i - 1].source
        BY <1>1, <2>3, <3>2
      <4>2. new.stack[i].source.ok /\ new.stack[i].file \notin DOMAIN new.done
        BY <1>3, <2>3, <4>1
      <4>3. ASSUME NEW j \in 1..(n + 1), new.stack[j].file = new.stack[i].file PROVE i = j
        <5>1. j # 1
          BY <2>3, <2>4, <4>1, <4>3
        <5>2. j - 1 \in 1..n /\ w.stack[j - 1].file = w.stack[i - 1].file
          BY <1>1, <2>3, <4>1, <4>3, <5>1
        <5>3. i - 1 = j - 1
          BY <1>3, <4>1, <5>2
        <5> QED
          BY <1>1, <5>3
      <4>4. ASSUME NEW l \in Elements(new.stack[i].source.loads)
            PROVE  \/ l \in DOMAIN new.done \union Elements(new.stack[i].todo)
                   \/ i # 1 /\ l = new.stack[i - 1].file
        <5>1. l \in Loads(i - 1)
          BY <4>1
        <5>2. CASE i - 1 = 1
          <6>1. l \in DOMAIN w.done \union {f} \union Elements(past.stack[i - 1].todo)
            BY <1>1, <1>3, <4>1, <5>1, <5>2
          <6> QED
            BY <2>3, <3>2, <4>1, <5>2, <6>1
        <5>3. CASE i - 1 # 1
          <6>1. i - 1 \in 1..(n + 1) /\ (i - 1) - 1 \in 1..n
            BY <1>1, <4>1, <5>3
          <6>2. new.stack[i - 1].file = w.stack[(i - 1) - 1].file
            BY <1>1, <2>3, <5>3, <6>1
          <6>3. past.stack[i - 1].todo = w.stack[i - 1].todo
            BY <1>1, <4>1, <5>3
          <6>4. \/ l \in DOMAIN w.done \union Elements(w.stack[i - 1].todo)
                \/ l = w.stack[(i - 1) - 1].file
            BY <1>3, <4>1, <5>1
          <6> QED
            BY <2>3, <3>2, <4>1, <6>2, <6>3, <6>4
        <5> QED
          BY <5>2, <5>3
      <4> QED
        BY <4>2, <4>3, <4>4
    <3> QED
      BY <3>1, <3>2
  <2>7. Gathering(new)
    BY <1>3, <2>3, <2>5, <2>6 DEF Gathering
  <2> QED
    BY <2>2, <2>3, <2>7
<1> QED
  BY <1>4, <1>5, <1>6

\* A file is kept after all that it loads.
Keeps(p, f, s, q) ==
  /\ f \notin DOMAIN p /\ s.ok /\ \A l \in Elements(s.loads) : l \in DOMAIN p
  /\ DOMAIN q = {f} \union DOMAIN p
  /\ \A g \in DOMAIN q : q[g] = IF g = f THEN s ELSE p[g]

LEMMA SoundGrows ==
  ASSUME NEW p, Sound(p), NEW f, NEW s, NEW q, Keeps(p, f, s, q)
  PROVE  Sound(q)
<1>0. /\ f \notin DOMAIN p /\ s.ok /\ \A l \in Elements(s.loads) : l \in DOMAIN p
      /\ DOMAIN q = {f} \union DOMAIN p
      /\ \A g \in DOMAIN q : q[g] = IF g = f THEN s ELSE p[g]
  BY DEF Keeps
<1>1. PICK n, rank : n \in Nat /\ Ranked(p, rank, n)
  BY DEF Sound
<1> DEFINE rank1 == [g \in DOMAIN q |-> IF g = f THEN n ELSE rank[g]]
<1>2. n \in Nat /\ n + 1 \in Nat /\ n < n + 1 /\ \A m \in Nat : m < n => m < n + 1
  BY <1>1
<1>3. \A g \in DOMAIN p : rank[g] \in Nat /\ rank[g] < n /\ rank[g] < n + 1
  BY <1>1, <1>2 DEF Ranked
<1>4. rank1 \in [DOMAIN q -> Nat]
  BY <1>0, <1>2, <1>3
<1>5. ASSUME NEW g \in DOMAIN q
      PROVE  /\ q[g].ok /\ rank1[g] < n + 1
             /\ \A l \in Elements(q[g].loads) : l \in DOMAIN q /\ rank1[l] < rank1[g]
  <2>1. CASE g = f
    <3>1. q[g] = s /\ rank1[g] = n
      BY <1>0, <2>1
    <3>2. \A l \in Elements(s.loads) : l \in DOMAIN q /\ rank1[l] = rank[l] /\ rank[l] < n
      BY <1>0, <1>3
    <3> QED
      BY <1>0, <1>2, <3>1, <3>2
  <2>2. CASE g # f
    <3>1. g \in DOMAIN p /\ q[g] = p[g] /\ rank1[g] = rank[g]
      BY <1>0, <2>2
    <3>2. \A l \in Elements(p[g].loads) : l \in DOMAIN q /\ rank1[l] = rank[l] /\ rank[l] < rank[g]
      BY <1>0, <1>1, <3>1 DEF Ranked
    <3> QED
      BY <1>1, <1>3, <3>1, <3>2 DEF Ranked
  <2> QED
    BY <2>1, <2>2
<1>6. Ranked(q, rank1, n + 1)
  BY <1>4, <1>5 DEF Ranked
<1> QED
  BY <1>2, <1>6 DEF Sound

LEMMA LeaveGathers ==
  ASSUME NEW w \in Walks, w.status = "reading", Gathering(w), Head(w.stack).todo = <<>>
  PROVE  /\ Leave(w) \in Walks /\ Leave(w).status \in {"reading", "complete"}
         /\ Gathering(Leave(w))
<1> DEFINE new == Leave(w)
           top == w.stack[1]
           n == Len(w.stack)
<1>0. w.stack # <<>>
  BY DEF Gathering
<1>1. /\ new \in Walks /\ Head(w.stack) = top /\ 1 \in 1..n
      /\ new.status = IF new.stack = <<>> THEN "complete" ELSE w.status
      /\ n \in Nat \ {0} /\ Len(new.stack) = n - 1
      /\ \A i \in 1..Len(new.stack) : i + 1 \in 1..n /\ new.stack[i] = w.stack[i + 1]
      /\ DOMAIN new.done = {top.file} \union DOMAIN w.done
      /\ \A f \in DOMAIN new.done : new.done[f] = IF f = top.file THEN top.source ELSE w.done[f]
  BY <1>0, LeftWalk
<1>2. /\ Sound(w.done) /\ w.stack[n].file = root
      /\ \A i \in 1..n :
           /\ w.stack[i].source.ok
           /\ \A l \in Elements(w.stack[i].source.loads) :
                \/ l \in DOMAIN w.done \union Elements(w.stack[i].todo)
                \/ i # 1 /\ l = w.stack[i - 1].file
           /\ w.stack[i].file \notin DOMAIN w.done
           /\ \A j \in 1..n : w.stack[j].file = w.stack[i].file => i = j
  BY <1>0 DEF Gathering
<1> HIDE DEF new, n
<1>3. Elements(top.todo) = {}
  <2>1. top.todo \in Seq(File)
    BY <1>1, WalkTyped DEF n
  <2> QED
    BY <1>1, <2>1, ElementsTyped
<1>4. Sound(new.done)
  <2>1. top.source.ok /\ top.file \notin DOMAIN w.done
        /\ \A l \in Elements(top.source.loads) : l \in DOMAIN w.done
    BY <1>1, <1>2, <1>3
  <2>2. Keeps(w.done, top.file, top.source, new.done)
    BY <1>1, <2>1 DEF Keeps
  <2> QED
    BY <1>2, <2>2, SoundGrows
<1>5. ASSUME NEW i \in 1..(n - 1)
      PROVE  /\ new.stack[i].source.ok
             /\ \A l \in Elements(new.stack[i].source.loads) :
                  \/ l \in DOMAIN new.done \union Elements(new.stack[i].todo)
                  \/ i # 1 /\ l = new.stack[i - 1].file
             /\ new.stack[i].file \notin DOMAIN new.done
             /\ \A j \in 1..(n - 1) : new.stack[j].file = new.stack[i].file => i = j
  <2>1. i + 1 \in 1..n /\ new.stack[i] = w.stack[i + 1] /\ i + 1 # 1 /\ (i + 1) - 1 = i
    BY <1>1
  <2>2. new.stack[i].source.ok
    BY <1>2, <2>1
  <2>3. new.stack[i].file # top.file /\ new.stack[i].file \notin DOMAIN w.done
    BY <1>1, <1>2, <2>1
  <2>4. ASSUME NEW j \in 1..(n - 1), new.stack[j].file = new.stack[i].file PROVE i = j
    <3>1. j + 1 \in 1..n /\ w.stack[j + 1].file = w.stack[i + 1].file
      BY <1>1, <2>1, <2>4
    <3>2. i + 1 = j + 1
      BY <1>2, <2>1, <3>1
    <3> QED
      BY <1>1, <3>2
  <2>5. ASSUME NEW l \in Elements(new.stack[i].source.loads)
        PROVE  \/ l \in DOMAIN new.done \union Elements(new.stack[i].todo)
               \/ i # 1 /\ l = new.stack[i - 1].file
    <3>1. \/ l \in DOMAIN w.done \union Elements(w.stack[i + 1].todo)
          \/ l = w.stack[i].file
      BY <1>2, <2>1
    <3>2. CASE l = w.stack[i].file /\ i # 1
      <4>1. i - 1 \in 1..(n - 1) /\ (i - 1) + 1 = i
        BY <1>1, <3>2
      <4>2. new.stack[i - 1] = w.stack[i]
        BY <1>1, <4>1
      <4> QED
        BY <3>2, <4>2
    <3>3. CASE l = w.stack[i].file /\ i = 1
      BY <1>1, <3>3
    <3> QED
      BY <1>1, <2>1, <3>1, <3>2, <3>3
  <2> QED
    BY <1>1, <2>2, <2>3, <2>4, <2>5
<1>6. CASE new.stack = <<>>
  <2>1. n = 1
    <3>1. Len(<<>>) = 0
      OBVIOUS
    <3> QED
      BY <1>1, <1>6, <3>1
  <2>2. top.file = root
    BY <1>2, <2>1
  <2>3. root \in DOMAIN new.done /\ new.status = "complete"
    BY <1>1, <1>6, <2>2
  <2> QED
    BY <1>1, <1>4, <1>5, <2>3 DEF Gathering, new
<1>7. CASE new.stack # <<>>
  <2>1. n - 1 \in 1..(n - 1) /\ (n - 1) + 1 = n
    <3>1. n - 1 # 0
      BY <1>1, <1>7, EmptySeq, WalkTyped
    <3> QED
      BY <1>1, <3>1
  <2>2. new.stack[n - 1].file = root
    BY <1>1, <1>2, <2>1
  <2> QED
    BY <1>1, <1>4, <1>5, <1>7, <2>2 DEF Gathering, new
<1> QED
  BY <1>6, <1>7

-----------------------------------------------------------------------------
(***************************************************************************)
(* An evaluation.                                                           *)
(***************************************************************************)
Fresh == [NoWalk EXCEPT !.status = "reading"]

LEMMA FreshWalk ==
  /\ NoWalk \in Walks /\ Fresh \in Walks /\ Fresh.status = "reading" /\ NoWalk.status = "idle"
  /\ NoWalk.stack = <<>> /\ Fresh.stack = <<>> /\ Len(Fresh.stack) = 0 /\ Len(NoWalk.stack) = 0
  /\ DOMAIN NoWalk.done = {} /\ DOMAIN Fresh.done = {} /\ Sound(Fresh.done)
<1>1. <<>> \in Seq(Frames) /\ DOMAIN <<>> = {} /\ Len(<<>>) = 0
  OBVIOUS
<1>2. <<>> \in Modules
  <2>1. <<>> \in [{} -> Sources]
    BY <1>1
  <2> QED
    BY <2>1 DEF Modules
<1>3. NoWalk.done = <<>> /\ NoWalk.stack = <<>> /\ NoWalk.status = "idle"
      /\ Fresh.done = <<>> /\ Fresh.stack = <<>> /\ Fresh.status = "reading"
  BY DEF NoWalk, Fresh
<1>4. NoWalk \in Walks /\ Fresh \in Walks
  BY <1>1, <1>2 DEF NoWalk, Fresh, Walks
<1>5. Sound(<<>>)
  <2>1. Ranked(<<>>, <<>>, 0)
    <3>1. <<>> \in [{} -> Nat]
      BY <1>1
    <3> QED
      BY <1>1, <3>1 DEF Ranked
  <2>2. 0 \in Nat
    OBVIOUS
  <2> QED
    BY <2>1, <2>2 DEF Sound
<1> QED
  BY <1>1, <1>3, <1>4, <1>5

LEMMA EnterEvaluates ==
  ASSUME NEW p \in Modules, Sound(p), root \in DOMAIN p
  PROVE  Evaluating(Enter(Fresh, root, p[root]), p)
<1> DEFINE s == p[root]
           new == Enter(Fresh, root, s)
<1>1. PICK n, rank : n \in Nat /\ Ranked(p, rank, n)
  BY DEF Sound
<1>2. s \in Sources /\ s.ok /\ root \in File
  BY <1>1 DEF Modules, Ranked
<1> HIDE DEF s
<1>0. Fresh \in Walks
  BY FreshWalk
<1>3. /\ new \in Walks /\ new.status = Fresh.status /\ new.done = Fresh.done
      /\ new.stack # <<>> /\ Len(new.stack) = Len(Fresh.stack) + 1
      /\ new.stack[1].file = root /\ new.stack[1].source = s /\ new.stack[1].todo = s.loads
  <2> HIDE DEF Fresh
  <2> QED
    BY <1>0, <1>2, EnteredWalk
<1> HIDE DEF new
<1>4. Len(new.stack) = 1 /\ (\A i \in 1..1 : i = 1) /\ ~(1 < 1)
  <2>1. 0 + 1 = 1
    OBVIOUS
  <2> QED
    BY <1>3, <2>1, FreshWalk
<1>5. Matches(new, p)
  BY <1>3, <1>4, FreshWalk DEF Matches, s
<1>6. Descends(new, p)
  BY <1>1, <1>4 DEF Descends
<1> QED
  BY <1>3, <1>5, <1>6, FreshWalk DEF Evaluating, new, s

\* A file that is loaded already is passed over.
LEMMA FollowedPast ==
  ASSUME NEW w, NEW p, Head(Head(w.stack).todo) \in DOMAIN w.done
  PROVE  Follow(w, p) = Past(w)
  BY DEF Follow, Past

\* One load of a file keeps the evaluation one of the policy.
LEMMA FollowEvaluates ==
  ASSUME NEW p \in Modules, NEW w, w.status = "reading", Evaluating(w, p),
         Head(w.stack).todo # <<>>
  PROVE  Evaluating(Follow(w, p), p) /\ Follow(w, p).status = "reading"
<1> DEFINE f == Head(Head(w.stack).todo)
           past == Past(w)
           k == Len(w.stack)
<1>0. w \in Walks /\ w.stack # <<>> /\ Matches(w, p) /\ Descends(w, p)
  BY DEF Evaluating
<1>1. /\ past \in Walks /\ past.status = "reading" /\ past.done = w.done
      /\ Len(past.stack) = k /\ past.stack # <<>> /\ k \in Nat \ {0} /\ 1 \in 1..k
      /\ \A i \in 1..k : /\ past.stack[i].file = w.stack[i].file
                         /\ past.stack[i].source = w.stack[i].source
                         /\ i # 1 => past.stack[i].todo = w.stack[i].todo
      /\ f \in File
      /\ Elements(w.stack[1].todo) = {f} \union Elements(past.stack[1].todo)
  BY <1>0, PastWalk
<1>2. PICK n, rank :
        /\ n \in Nat /\ Ranked(p, rank, n)
        /\ \A i, j \in 1..k : i < j => rank[w.stack[i].file] < rank[w.stack[j].file]
  BY <1>0 DEF Descends
<1>3. /\ \A g \in DOMAIN w.done : g \in DOMAIN p /\ w.done[g] = p[g]
      /\ \A i \in 1..k : /\ w.stack[i].file \in DOMAIN p
                         /\ w.stack[i].source = p[w.stack[i].file]
                         /\ Elements(w.stack[i].todo) \subseteq Elements(w.stack[i].source.loads)
  BY <1>0 DEF Matches
<1>4. DOMAIN w.stack = 1..k
  BY <1>0, WalkTyped
<1> HIDE DEF past, f, k
<1>5. f \in DOMAIN p /\ rank[f] < rank[w.stack[1].file]
  BY <1>1, <1>2, <1>3 DEF Ranked
<1>6. \A g \in DOMAIN p : rank[g] \in Nat
  BY <1>2 DEF Ranked
<1>7. \A i \in 1..k : rank[f] < rank[w.stack[i].file]
  <2> SUFFICES ASSUME NEW i \in 1..k, i # 1 PROVE rank[f] < rank[w.stack[i].file]
    BY <1>5
  <2>1. 1 < i
    BY <1>1
  <2>2. rank[w.stack[1].file] < rank[w.stack[i].file]
    BY <1>1, <1>2, <2>1
  <2> QED
    BY <1>1, <1>3, <1>5, <1>6, <2>2
<1>8. ~OnStack(w, f)
  <2> SUFFICES ASSUME NEW i \in 1..k, w.stack[i].file = f PROVE FALSE
    BY <1>4 DEF OnStack
  <2>1. rank[f] < rank[f]
    BY <1>7
  <2> QED
    BY <1>5, <1>6, <2>1
<1>9. p[f] \in Sources /\ p[f].ok
  BY <1>2, <1>5 DEF Ranked, Modules
<1>10. Matches(past, p) /\ Descends(past, p)
  <2>1. Matches(past, p)
    <3>1. \A i \in 1..k : Elements(past.stack[i].todo) \subseteq Elements(w.stack[i].todo)
      BY <1>1
    <3> QED
      BY <1>1, <1>3, <3>1 DEF Matches
  <2>2. \A i, j \in 1..k : i < j => rank[past.stack[i].file] < rank[past.stack[j].file]
    BY <1>1, <1>2
  <2> QED
    BY <1>1, <1>2, <2>1, <2>2 DEF Descends
<1>11. CASE f \in DOMAIN w.done
  <2>1. Follow(w, p) = past
    BY <1>11, FollowedPast DEF past, f
  <2> QED
    BY <1>1, <1>10, <2>1 DEF Evaluating
<1>12. CASE f \notin DOMAIN w.done
  <2> DEFINE s == p[f]
             new == Enter(past, f, s)
  <2>1. Follow(w, p) = new
    BY <1>5, <1>8, <1>12 DEF Follow, past, Past, f
  <2> HIDE DEF s
  <2>2. /\ new \in Walks /\ new.status = "reading" /\ new.done = w.done /\ new.stack # <<>>
        /\ Len(new.stack) = k + 1
        /\ new.stack[1].file = f /\ new.stack[1].source = s /\ new.stack[1].todo = s.loads
        /\ \A i \in 1..(k + 1) : i # 1 => i - 1 \in 1..k /\ new.stack[i] = past.stack[i - 1]
    BY <1>1, <1>9, EnteredWalk DEF s
  <2> HIDE DEF new
  <2>3. Matches(new, p)
    <3>1. ASSUME NEW i \in 1..(k + 1)
          PROVE  /\ new.stack[i].file \in DOMAIN p
                 /\ new.stack[i].source = p[new.stack[i].file]
                 /\ Elements(new.stack[i].todo) \subseteq Elements(new.stack[i].source.loads)
      <4>1. CASE i = 1
        BY <1>5, <2>2, <4>1 DEF s
      <4>2. CASE i # 1
        <5>1. PICK j \in 1..k : j = i - 1
          BY <2>2, <4>2
        <5>2. new.stack[i] = past.stack[j]
          BY <2>2, <4>2, <5>1
        <5>3. /\ past.stack[j].file \in DOMAIN p
              /\ past.stack[j].source = p[past.stack[j].file]
              /\ Elements(past.stack[j].todo) \subseteq Elements(past.stack[j].source.loads)
          BY <1>1, <1>10 DEF Matches
        <5> QED
          BY <5>2, <5>3
      <4> QED
        BY <4>1, <4>2
    <3> QED
      BY <1>3, <2>2, <3>1 DEF Matches
  <2>4. \A i, j \in 1..(k + 1) : i < j => rank[new.stack[i].file] < rank[new.stack[j].file]
    <3> SUFFICES ASSUME NEW i \in 1..(k + 1), NEW j \in 1..(k + 1), i < j
                 PROVE  rank[new.stack[i].file] < rank[new.stack[j].file]
      OBVIOUS
    <3>1. j # 1
      BY <1>1
    <3>2. j - 1 \in 1..k /\ new.stack[j].file = w.stack[j - 1].file
      BY <1>1, <2>2, <3>1
    <3>3. CASE i = 1
      BY <1>7, <2>2, <3>2, <3>3
    <3>4. CASE i # 1
      <4>1. i - 1 \in 1..k /\ new.stack[i].file = w.stack[i - 1].file
        BY <1>1, <2>2, <3>4
      <4>2. i - 1 < j - 1
        BY <1>1
      <4> QED
        BY <1>2, <3>2, <4>1, <4>2
    <3> QED
      BY <3>3, <3>4
  <2>5. Descends(new, p)
    BY <1>2, <2>2, <2>4 DEF Descends
  <2> QED
    BY <2>1, <2>2, <2>3, <2>5 DEF Evaluating
<1> QED
  BY <1>11, <1>12

LEMMA LeaveEvaluates ==
  ASSUME NEW p \in Modules, NEW w, w.status = "reading", Evaluating(w, p)
  PROVE  Evaluating(Leave(w), p)
<1> DEFINE new == Leave(w)
           top == w.stack[1]
           k == Len(w.stack)
<1>0. w \in Walks /\ w.stack # <<>> /\ Matches(w, p) /\ Descends(w, p)
  BY DEF Evaluating
<1>1. /\ new \in Walks /\ 1 \in 1..k
      /\ new.status = IF new.stack = <<>> THEN "complete" ELSE w.status
      /\ k \in Nat \ {0} /\ Len(new.stack) = k - 1
      /\ \A i \in 1..Len(new.stack) : i + 1 \in 1..k /\ new.stack[i] = w.stack[i + 1]
      /\ DOMAIN new.done = {top.file} \union DOMAIN w.done
      /\ \A f \in DOMAIN new.done : new.done[f] = IF f = top.file THEN top.source ELSE w.done[f]
  BY <1>0, LeftWalk
<1> HIDE DEF new
<1>2. Matches(new, p)
  <2>1. /\ \A f \in DOMAIN w.done : f \in DOMAIN p /\ w.done[f] = p[f]
        /\ \A i \in 1..k : /\ w.stack[i].file \in DOMAIN p
                           /\ w.stack[i].source = p[w.stack[i].file]
                           /\ Elements(w.stack[i].todo) \subseteq Elements(w.stack[i].source.loads)
    BY <1>0 DEF Matches
  <2>2. \A f \in DOMAIN new.done : f \in DOMAIN p /\ new.done[f] = p[f]
    BY <1>1, <2>1
  <2>3. \A i \in 1..Len(new.stack) :
          /\ new.stack[i].file \in DOMAIN p
          /\ new.stack[i].source = p[new.stack[i].file]
          /\ Elements(new.stack[i].todo) \subseteq Elements(new.stack[i].source.loads)
    <3> SUFFICES ASSUME NEW i \in 1..Len(new.stack)
                 PROVE  /\ new.stack[i].file \in DOMAIN p
                        /\ new.stack[i].source = p[new.stack[i].file]
                        /\ Elements(new.stack[i].todo) \subseteq Elements(new.stack[i].source.loads)
      OBVIOUS
    <3>1. i + 1 \in 1..k /\ new.stack[i] = w.stack[i + 1]
      BY <1>1
    <3> QED
      BY <2>1, <3>1
  <2> QED
    BY <2>2, <2>3 DEF Matches
<1>3. PICK n, rank :
        /\ n \in Nat /\ Ranked(p, rank, n)
        /\ \A i, j \in 1..k : i < j => rank[w.stack[i].file] < rank[w.stack[j].file]
  BY <1>0 DEF Descends
<1>4. \A i, j \in 1..Len(new.stack) :
        i < j => rank[new.stack[i].file] < rank[new.stack[j].file]
  <2> SUFFICES ASSUME NEW i \in 1..Len(new.stack), NEW j \in 1..Len(new.stack), i < j
               PROVE  rank[new.stack[i].file] < rank[new.stack[j].file]
    OBVIOUS
  <2>1. i + 1 < j + 1
    BY <1>1
  <2>2. i + 1 \in 1..k /\ j + 1 \in 1..k
    BY <1>1
  <2>3. rank[w.stack[i + 1].file] < rank[w.stack[j + 1].file]
    BY <1>3, <2>1, <2>2
  <2> QED
    BY <1>1, <2>3
<1>5. Descends(new, p)
  BY <1>3, <1>4 DEF Descends
<1> QED
  BY <1>1, <1>2, <1>5 DEF Evaluating, new
-----------------------------------------------------------------------------
(***************************************************************************)
(* What the actions leave to be decided.                                    *)
(***************************************************************************)
LEMMA DispositionOfActions ==
  ASSUME NEW acts, NEW q
  PROVE  /\ policyDisposition(acts, q).code \in Nat
         /\ policyDisposition(acts, q).code = 250 => \A i \in DOMAIN acts : ~Blocks(acts[i], q)
<1>1. \A a : BlockCode(a) \in 400..599
  BY DEF BlockCode
<1>2. CASE {i \in DOMAIN acts : Blocks(acts[i], q)} = {}
  BY <1>2 DEF policyDisposition
<1>3. CASE {i \in DOMAIN acts : Blocks(acts[i], q)} # {}
  <2>1. \E a : policyDisposition(acts, q).code = BlockCode(a)
    BY <1>3 DEF policyDisposition
  <2> QED
    BY <1>1, <2>1
<1> QED
  BY <1>2, <1>3
-----------------------------------------------------------------------------
(***************************************************************************)
(* The steps of the calls.                                                  *)
(***************************************************************************)
LEMMA NoCallTyped ==
  NoCall \in Calls /\ OnPolicy(NoCall, installed) /\ Honest(NoCall)
<1>1. NoWalk \in Walks
  BY FreshWalk
<1>2. <<>> \in Modules
  <2>1. <<>> \in [{} -> Sources]
    OBVIOUS
  <2> QED
    BY <2>1 DEF Modules
<1>3. <<>> \in Seq(Actions) /\ 0 \in Nat
  OBVIOUS
<1>4. NoCall.req \in Requests \union {NoCall.req}
  OBVIOUS
<1>5. NoCall.req = [valid |-> FALSE]
  BY DEF NoCall
<1>6. NoCall \in Calls
  BY <1>1, <1>2, <1>3, <1>4, <1>5 DEF Calls, Phases, NoCall, NoPolicy
<1>7. NoCall.walk = NoWalk /\ NoCall.phase = "closed" /\ ~NoCall.taken
      /\ ~NoCall.forwarded /\ ~NoCall.accepted
  BY DEF NoCall
<1> QED
  BY <1>6, <1>7 DEF OnPolicy, Honest

\* A call keeps its type whatever it comes to.
LEMMA CallChanges ==
  ASSUME NEW k \in Calls, NEW n \in Nat
  PROVE  /\ \A t \in {"none", "right", "wrong"}, req \in Requests :
              [k EXCEPT !.phase = "answered", !.token = t, !.req = req, !.code = n] \in Calls
         /\ \A ph \in Phases : [k EXCEPT !.phase = ph, !.code = n] \in Calls
         /\ \A ph \in Phases, b \in BOOLEAN :
              [k EXCEPT !.phase = ph, !.accepted = b, !.code = n] \in Calls
         /\ \A ph \in Phases, t, b \in BOOLEAN :
              [k EXCEPT !.phase = ph, !.taken = t, !.forwarded = b, !.accepted = b,
                        !.code = n] \in Calls
         /\ \A w \in Walks : [k EXCEPT !.walk = w] \in Calls
         /\ \A w \in Walks, ph \in Phases, acts \in Seq(Actions) :
              [k EXCEPT !.walk = w, !.actions = acts, !.phase = ph] \in Calls
<1>1. \A t \in {"none", "right", "wrong"}, req \in Requests :
        [k EXCEPT !.phase = "answered", !.token = t, !.req = req, !.code = n] \in Calls
  BY DEF Calls, Phases
<1>2. \A ph \in Phases : [k EXCEPT !.phase = ph, !.code = n] \in Calls
  BY DEF Calls
<1>3. \A ph \in Phases, b \in BOOLEAN :
        [k EXCEPT !.phase = ph, !.accepted = b, !.code = n] \in Calls
  BY DEF Calls
<1>4. \A ph \in Phases, t, b \in BOOLEAN :
        [k EXCEPT !.phase = ph, !.taken = t, !.forwarded = b, !.accepted = b,
                  !.code = n] \in Calls
  BY DEF Calls
<1>5. \A w \in Walks : [k EXCEPT !.walk = w] \in Calls
  BY DEF Calls
<1>6. \A w \in Walks, ph \in Phases, acts \in Seq(Actions) :
        [k EXCEPT !.walk = w, !.actions = acts, !.phase = ph] \in Calls
  BY DEF Calls
<1> QED
  BY <1>1, <1>2, <1>3, <1>4, <1>5, <1>6

\* One call moves on and nothing is reloaded.
LEMMA OneCall ==
  ASSUME IInv, NEW c \in Caller, NEW new \in Calls,
         OnPolicy(new, installed), Honest(new), new.phase # "closed" => policy # NoPolicy,
         Become(c, new), UNCHANGED reloadVars
  PROVE  IInv'
<1>1. call' = [call EXCEPT ![c] = new] /\ call \in [Caller -> Calls]
  BY DEF Become, IInv, TypeInv
<1>2. call' \in [Caller -> Calls] /\ \A d \in Caller : call'[d] = IF d = c THEN new ELSE call[d]
  BY <1>1
<1>3. UNCHANGED <<files, reader, policy, installed>>
  BY DEF reloadVars
<1>4. TypeInv' /\ ReaderInv' /\ PolicyInv'
  BY <1>2, <1>3 DEF IInv, TypeInv, ReaderInv, PolicyInv
<1>5. CallsInv'
  <2> SUFFICES ASSUME NEW d \in Caller
               PROVE  /\ call'[d].phase # "closed" => policy # NoPolicy
                      /\ OnPolicy(call'[d], installed) /\ Honest(call'[d])
    BY <1>3 DEF CallsInv
  <2>1. CASE d = c
    BY <1>2, <2>1
  <2>2. CASE d # c
    BY <1>2, <2>2 DEF IInv, CallsInv
  <2> QED
    BY <2>1, <2>2
<1> QED
  BY <1>4, <1>5 DEF IInv

\* What is known of a call before it moves on.
LEMMA CallFacts ==
  ASSUME IInv, NEW c \in Caller
  PROVE  /\ call[c] \in Calls /\ OnPolicy(call[c], installed) /\ Honest(call[c])
         /\ call[c].phase # "closed" => policy # NoPolicy
         /\ policy # NoPolicy => policy \in installed
         /\ \A p \in installed : Runnable(p)
  BY DEF IInv, TypeInv, CallsInv, PolicyInv

LEMMA OpenStep ==
  ASSUME IInv, NEW c \in Caller, NEW token \in {"right", "wrong"}, Open(c, token)
  PROVE  IInv'
<1> DEFINE new == [NoCall EXCEPT !.phase = "ready", !.token = token]
<1>1. new \in Calls
  BY NoCallTyped DEF Calls, Phases
<1>2. /\ new.phase = "ready" /\ new.token = token /\ new.walk = NoWalk
      /\ ~new.taken /\ ~new.forwarded /\ ~new.accepted
  BY DEF NoCall
<1>3. Become(c, new) /\ UNCHANGED reloadVars /\ policy # NoPolicy /\ (hasToken => token = "right")
  BY DEF Open, Serving, authorize
<1> HIDE DEF new
<1>4. OnPolicy(new, installed) /\ Honest(new)
  BY <1>2, <1>3 DEF OnPolicy, Honest
<1> QED
  BY <1>1, <1>3, <1>4, OneCall

LEMMA CloseStep ==
  ASSUME IInv, NEW c \in Caller, Close(c)
  PROVE  IInv'
<1>1. Become(c, NoCall) /\ UNCHANGED reloadVars
  BY DEF Close
<1>2. NoCall.phase = "closed"
  BY DEF NoCall
<1> QED
  BY <1>1, <1>2, NoCallTyped, OneCall

LEMMA ProcessStep ==
  ASSUME IInv, NEW c \in Caller, NEW req \in Requests, ProcessMessage(c, req)
  PROVE  IInv'
<1> DEFINE k == call[c]
<1>1. /\ k \in Calls /\ Honest(k) /\ k.phase \in {"ready", "answered"}
      /\ policy # NoPolicy /\ policy \in installed /\ Runnable(policy)
      /\ UNCHANGED reloadVars
  BY CallFacts DEF ProcessMessage
<1>2. k.token \in {"none", "right", "wrong"} /\ (hasToken => k.token = "right")
  BY <1>1 DEF Calls, Honest
<1>3. CASE req.valid
  <2> DEFINE walk == Enter(Fresh, root, policy[root])
             new == [NoCall EXCEPT !.phase = "evaluating", !.token = k.token, !.req = req,
                                   !.snapshot = policy, !.walk = walk]
  <2>1. policy \in Modules /\ Evaluating(walk, policy)
    BY <1>1, EnterEvaluates DEF Runnable
  <2>2. walk \in Walks
    BY <2>1 DEF Evaluating
  <2>3. Become(c, new)
    BY <1>3 DEF ProcessMessage, Fresh
  <2> HIDE DEF walk, k
  <2>4. new \in Calls
    BY <1>2, <2>1, <2>2, NoCallTyped DEF Calls, Phases
  <2>5. /\ new.phase = "evaluating" /\ new.token = k.token /\ new.walk = walk
        /\ new.snapshot = policy /\ ~new.taken /\ ~new.forwarded /\ ~new.accepted
    BY DEF NoCall
  <2> HIDE DEF new
  <2>6. OnPolicy(new, installed) /\ Honest(new)
    BY <1>1, <1>2, <2>1, <2>5 DEF OnPolicy, Honest
  <2> QED
    BY <1>1, <2>3, <2>4, <2>6, OneCall
<1>4. CASE ~req.valid
  <2> DEFINE new == [NoCall EXCEPT !.phase = "answered", !.token = k.token, !.req = req,
                                   !.code = 550]
  <2>1. Become(c, new)
    BY <1>4 DEF ProcessMessage
  <2> HIDE DEF k
  <2>2. new \in Calls
    <3>1. \A n \in Nat : [NoCall EXCEPT !.phase = "answered", !.token = k.token, !.req = req,
                                        !.code = n] \in Calls
      BY <1>2, NoCallTyped, CallChanges
    <3>2. 550 \in Nat
      OBVIOUS
    <3> QED
      BY <3>1, <3>2, Zenon
  <2>3. /\ new.phase = "answered" /\ new.token = k.token /\ new.walk = NoWalk /\ new.code = 550
        /\ ~new.taken /\ ~new.forwarded /\ ~new.accepted
    BY DEF NoCall
  <2> HIDE DEF new
  <2>4. 550 # 250
    OBVIOUS
  <2>5. OnPolicy(new, installed) /\ Honest(new)
    BY <1>2, <2>3, <2>4 DEF OnPolicy, Honest, Accounted
  <2> QED
    BY <1>1, <2>1, <2>2, <2>5, OneCall
<1> QED
  BY <1>3, <1>4
LEMMA LoadStep ==
  ASSUME IInv, NEW c \in Caller, EvaluateLoad(c)
  PROVE  IInv'
<1> DEFINE k == call[c]
           walk == Follow(k.walk, k.snapshot)
           new == [k EXCEPT !.walk = walk]
<1>1. /\ k \in Calls /\ Honest(k) /\ OnPolicy(k, installed) /\ k.phase = "evaluating"
      /\ k.walk.status = "reading" /\ Head(k.walk.stack).todo # <<>>
      /\ \A p \in installed : Runnable(p)
      /\ policy # NoPolicy /\ UNCHANGED reloadVars
  BY CallFacts DEF EvaluateLoad, Walking
<1>2. k.snapshot \in installed /\ Evaluating(k.walk, k.snapshot) /\ k.snapshot \in Modules
  <2>1. k.walk # NoWalk
    BY <1>1, FreshWalk
  <2> QED
    BY <1>1, <2>1 DEF OnPolicy, Runnable
<1>3. Evaluating(walk, k.snapshot) /\ walk.status = "reading"
  BY <1>1, <1>2, FollowEvaluates
<1>4. Become(c, new)
  BY <1>3 DEF EvaluateLoad, Loaded
<1>5. walk \in Walks
  BY <1>3 DEF Evaluating
<1> HIDE DEF k, walk
<1>6. new \in Calls
  <2>1. 0 \in Nat
    OBVIOUS
  <2> QED
    BY <1>1, <1>5, <2>1, CallChanges
<1>7. /\ new.walk = walk /\ new.snapshot = k.snapshot /\ new.phase = k.phase
      /\ new.token = k.token /\ new.taken = k.taken /\ new.forwarded = k.forwarded
      /\ new.accepted = k.accepted
  BY <1>1 DEF Calls
<1> HIDE DEF new
<1>8. OnPolicy(new, installed) /\ Honest(new)
  BY <1>1, <1>2, <1>3, <1>7 DEF OnPolicy, Honest
<1> QED
  BY <1>1, <1>4, <1>6, <1>8, OneCall

LEMMA FileStep ==
  ASSUME IInv, NEW c \in Caller, EvaluateFile(c)
  PROVE  IInv'
<1> DEFINE k == call[c]
           source == Head(k.walk.stack).source
           walk == Leave(k.walk)
<1>1. /\ k \in Calls /\ Honest(k) /\ OnPolicy(k, installed) /\ k.phase = "evaluating"
      /\ k.walk.status = "reading" /\ \A p \in installed : Runnable(p)
      /\ policy # NoPolicy /\ UNCHANGED reloadVars
  BY CallFacts DEF EvaluateFile, Walking
<1>2. k.snapshot \in installed /\ Evaluating(k.walk, k.snapshot) /\ k.snapshot \in Modules
  <2>1. k.walk # NoWalk
    BY <1>1, FreshWalk
  <2> QED
    BY <1>1, <2>1 DEF OnPolicy, Runnable
<1>3. ~k.taken /\ ~k.forwarded /\ ~k.accepted /\ (hasToken => k.token = "right")
  BY <1>1 DEF Honest
<1>4. Evaluating(walk, k.snapshot) /\ walk \in Walks
  BY <1>1, <1>2, LeaveEvaluates DEF Evaluating
<1>5. source \in Sources
  <2>1. k.walk \in Walks /\ k.walk.stack # <<>>
    BY <1>1, <1>2 DEF Evaluating
  <2>2. Head(k.walk.stack) = k.walk.stack[1] /\ 1 \in 1..Len(k.walk.stack)
    BY <2>1, LeftWalk
  <2> QED
    BY <2>1, <2>2, WalkTyped
<1>6. k.actions \in Seq(Actions) /\ k.actions \o source.actions \in Seq(Actions)
  BY <1>1, <1>5, SourceTyped DEF Calls
<1>7. CASE source.fails
  <2> DEFINE new == [k EXCEPT !.phase = "answered", !.code = 451]
  <2>1. Become(c, new)
    BY <1>7 DEF EvaluateFile, Respond
  <2> HIDE DEF k
  <2>2. new \in Calls
    <3>1. 451 \in Nat /\ "answered" \in Phases
      BY DEF Phases
    <3>2. \A n \in Nat : [k EXCEPT !.phase = "answered", !.code = n] \in Calls
      BY <1>1, <3>1, CallChanges
    <3> QED
      BY <3>1, <3>2, Zenon
  <2>3. /\ new.walk = k.walk /\ new.snapshot = k.snapshot /\ new.phase = "answered"
        /\ new.token = k.token /\ new.taken = k.taken /\ new.forwarded = k.forwarded
        /\ new.accepted = k.accepted /\ new.code = 451
    BY <1>1 DEF Calls
  <2>4. 451 # 250
    OBVIOUS
  <2> HIDE DEF new
  <2>5. OnPolicy(new, installed)
    BY <1>1, <2>3 DEF OnPolicy
  <2>6. Honest(new)
    BY <1>3, <2>3, <2>4 DEF Honest, Accounted
  <2> QED
    BY <1>1, <2>1, <2>2, <2>5, <2>6, OneCall
<1>8. CASE ~source.fails
  <2> DEFINE phase == IF walk.status = "complete" THEN "decide" ELSE k.phase
             new == [k EXCEPT !.walk = walk, !.actions = k.actions \o source.actions,
                              !.phase = phase]
  <2>1. Become(c, new)
    BY <1>1, <1>8 DEF EvaluateFile, Calls
  <2> HIDE DEF k, walk, source
  <2>2. phase \in {"decide", "evaluating"} /\ phase \in Phases
    BY <1>1 DEF Phases
  <2> HIDE DEF phase
  <2>3. new \in Calls
    <3>1. 0 \in Nat
      OBVIOUS
    <3> QED
      BY <1>1, <1>4, <1>6, <2>2, <3>1, CallChanges
  <2>4. /\ new.walk = walk /\ new.snapshot = k.snapshot /\ new.phase = phase
        /\ new.token = k.token /\ new.taken = k.taken /\ new.forwarded = k.forwarded
        /\ new.accepted = k.accepted
    BY <1>1 DEF Calls
  <2> HIDE DEF new
  <2>5. OnPolicy(new, installed)
    BY <1>2, <1>4, <2>4 DEF OnPolicy
  <2>6. Honest(new)
    BY <1>3, <2>2, <2>4 DEF Honest
  <2> QED
    BY <1>1, <2>1, <2>3, <2>5, <2>6, OneCall
<1> QED
  BY <1>7, <1>8
\* Only the answer of k has changed.
Answers(new, k) ==
  /\ new.walk = k.walk /\ new.snapshot = k.snapshot /\ new.token = k.token
  /\ new.req = k.req /\ new.actions = k.actions /\ new.taken = k.taken
  /\ new.forwarded = k.forwarded

LEMMA DecideStep ==
  ASSUME IInv, NEW c \in Caller, Decide(c)
  PROVE  IInv'
<1> DEFINE k == call[c]
           code == Disposition(c).code
           refuse == \/ HasUnsupportedAction(k.actions) /\ ~hostAdapter
                     \/ ~upstreamServer \/ ~k.req.envelopeOk
           blocked == [k EXCEPT !.phase = "count", !.code = code]
           deferred == [k EXCEPT !.phase = "count", !.code = 451]
           handed == [k EXCEPT !.phase = "deliver", !.code = 250]
           answer == [k EXCEPT !.phase = "count", !.accepted = TRUE, !.code = 250]
<1>1. /\ k \in Calls /\ Honest(k) /\ OnPolicy(k, installed) /\ k.phase = "decide"
      /\ policy # NoPolicy /\ UNCHANGED reloadVars
  BY CallFacts DEF Decide
<1>2. ~k.taken /\ ~k.forwarded /\ ~k.accepted /\ (hasToken => k.token = "right")
  BY <1>1 DEF Honest
<1>3. /\ code \in Nat
      /\ code = 250 =>
           \A i \in DOMAIN k.actions : ~Blocks(k.actions[i], forwardQuarantine \/ hostAdapter)
  BY DispositionOfActions DEF Disposition
<1>4. \/ code # 250 /\ Become(c, blocked)
      \/ code = 250 /\ k.req.forward /\ refuse /\ Become(c, deferred)
      \/ code = 250 /\ k.req.forward /\ ~refuse /\ Become(c, handed)
      \/ code = 250 /\ ~k.req.forward /\ Become(c, answer)
  BY DEF Decide, Refused
<1>5. 451 # 250
  OBVIOUS
<1> HIDE DEF k, code
<1>6. ASSUME NEW n \in Nat
      PROVE  /\ [k EXCEPT !.phase = "count", !.code = n] \in Calls
             /\ [k EXCEPT !.phase = "deliver", !.code = n] \in Calls
             /\ [k EXCEPT !.phase = "count", !.accepted = TRUE, !.code = n] \in Calls
  <2>1. [k EXCEPT !.phase = "count", !.code = n] \in Calls
    BY <1>1 DEF Calls, Phases
  <2>2. [k EXCEPT !.phase = "deliver", !.code = n] \in Calls
    BY <1>1 DEF Calls, Phases
  <2>3. [k EXCEPT !.phase = "count", !.accepted = TRUE, !.code = n] \in Calls
    BY <1>1 DEF Calls, Phases
  <2> QED
    BY <2>1, <2>2, <2>3
<1>7. blocked \in Calls /\ deferred \in Calls /\ handed \in Calls /\ answer \in Calls
  <2>1. blocked \in Calls
    BY <1>3, <1>6, Zenon
  <2>2. \A n \in Nat : [k EXCEPT !.phase = "count", !.code = n] \in Calls
    BY <1>6, Zenon
  <2>3. \A n \in Nat : [k EXCEPT !.phase = "deliver", !.code = n] \in Calls
    BY <1>6, Zenon
  <2>4. \A n \in Nat : [k EXCEPT !.phase = "count", !.accepted = TRUE, !.code = n] \in Calls
    BY <1>6, Zenon
  <2>5. 451 \in Nat /\ 250 \in Nat
    OBVIOUS
  <2>6. deferred \in Calls
    BY <2>2, <2>5, Zenon
  <2>7. handed \in Calls
    BY <2>3, <2>5, Zenon
  <2>8. answer \in Calls
    BY <2>4, <2>5, Zenon
  <2> QED
    BY <2>1, <2>6, <2>7, <2>8
<1>8. Answers(blocked, k) /\ Answers(deferred, k) /\ Answers(handed, k) /\ Answers(answer, k)
  BY <1>1 DEF Calls, Answers
<1>9. /\ blocked.phase = "count" /\ blocked.accepted = k.accepted /\ blocked.code = code
      /\ deferred.phase = "count" /\ deferred.accepted = k.accepted /\ deferred.code = 451
      /\ handed.phase = "deliver" /\ handed.accepted = k.accepted
      /\ answer.phase = "count" /\ answer.accepted /\ answer.code = 250
  BY <1>1 DEF Calls
<1> HIDE DEF blocked, deferred, handed, answer
<1>10. OnPolicy(blocked, installed) /\ OnPolicy(deferred, installed)
       /\ OnPolicy(handed, installed) /\ OnPolicy(answer, installed)
  BY <1>1, <1>8 DEF OnPolicy, Answers
<1>11. CASE code # 250 /\ Become(c, blocked)
  <2>1. Honest(blocked)
    BY <1>2, <1>8, <1>9, <1>11 DEF Honest, Accounted, Answers
  <2> QED
    BY <1>1, <1>7, <1>10, <1>11, <2>1, OneCall
<1>12. CASE code = 250 /\ k.req.forward /\ refuse /\ Become(c, deferred)
  <2>1. Honest(deferred)
    BY <1>2, <1>5, <1>8, <1>9 DEF Honest, Accounted, Answers
  <2> QED
    BY <1>1, <1>7, <1>10, <1>12, <2>1, OneCall
<1>13. CASE code = 250 /\ k.req.forward /\ ~refuse /\ Become(c, handed)
  <2>1. MayHandOn(handed)
    BY <1>3, <1>8, <1>13 DEF MayHandOn, Answers
  <2>2. Honest(handed)
    BY <1>2, <1>8, <1>9, <2>1 DEF Honest, Answers
  <2> QED
    BY <1>1, <1>7, <1>10, <1>13, <2>2, OneCall
<1>14. CASE code = 250 /\ ~k.req.forward /\ Become(c, answer)
  <2>1. Honest(answer)
    BY <1>2, <1>8, <1>9, <1>14 DEF Honest, Accounted, Answers
  <2> QED
    BY <1>1, <1>7, <1>10, <1>14, <2>1, OneCall
<1> QED
  BY <1>4, <1>11, <1>12, <1>13, <1>14

LEMMA DeliveryTyped ==
  ASSUME NEW d \in Deliveries
  PROVE  /\ d.taken \in BOOLEAN /\ d.code \in Nat
         /\ d.code # 0 => (d.taken <=> d.code = 250)
  BY GrpcAssumption, Zenon DEF GrpcAssumption

LEMMA DeliverStep ==
  ASSUME IInv, NEW c \in Caller, Deliver(c)
  PROVE  IInv'
<1> DEFINE k == call[c]
<1>1. /\ k \in Calls /\ Honest(k) /\ OnPolicy(k, installed) /\ k.phase = "deliver"
      /\ policy # NoPolicy /\ UNCHANGED reloadVars
  BY CallFacts DEF Deliver
<1>2. MayHandOn(k) /\ (hasToken => k.token = "right")
  BY <1>1 DEF Honest
<1>3. PICK d \in Deliveries :
        Become(c, [call[c] EXCEPT !.phase = "count", !.taken = d.taken,
                     !.forwarded = (d.code = 250), !.accepted = (d.code = 250),
                     !.code = IF d.code = 0 THEN 451 ELSE d.code])
  BY DEF Deliver
<1> DEFINE given == (d.code = 250)
           n == IF d.code = 0 THEN 451 ELSE d.code
           new == [k EXCEPT !.phase = "count", !.taken = d.taken, !.forwarded = given,
                            !.accepted = given, !.code = n]
<1>4. /\ given \in BOOLEAN /\ d.taken \in BOOLEAN /\ n \in Nat
      /\ given <=> n = 250
      /\ given => d.taken
      /\ n \in 500..599 => ~d.taken
  <2>1. /\ d.taken \in BOOLEAN /\ d.code \in Nat
        /\ d.code # 0 => (d.taken <=> d.code = 250)
    BY DeliveryTyped
  <2>2. CASE d.code = 0
    BY <2>1, <2>2
  <2>3. CASE d.code # 0
    BY <2>1, <2>3
  <2> QED
    BY <2>2, <2>3
<1>5. Become(c, new)
  BY <1>3
<1> HIDE DEF k, given, n
<1>6. new \in Calls
  <2>1. "count" \in Phases
    BY DEF Phases
  <2>2. \A ph \in Phases, t, b \in BOOLEAN :
          [k EXCEPT !.phase = ph, !.taken = t, !.forwarded = b, !.accepted = b, !.code = n] \in Calls
    BY <1>1, <1>4, CallChanges
  <2> QED
    BY <1>4, <2>1, <2>2, Zenon
<1>7. /\ new.walk = k.walk /\ new.snapshot = k.snapshot /\ new.token = k.token
      /\ new.req = k.req /\ new.actions = k.actions /\ new.phase = "count"
      /\ new.taken = d.taken /\ new.forwarded = given /\ new.accepted = given /\ new.code = n
  BY <1>1 DEF Calls
<1> HIDE DEF new
<1>8. OnPolicy(new, installed)
  BY <1>1, <1>7 DEF OnPolicy
<1>9. MayHandOn(new)
  BY <1>2, <1>7 DEF MayHandOn
<1>10. Accounted(new)
  <2>1. k.req.forward
    BY <1>2 DEF MayHandOn
  <2> QED
    BY <1>4, <1>7, <2>1 DEF Accounted
<1>11. Honest(new)
  BY <1>2, <1>7, <1>9, <1>10 DEF Honest
<1> QED
  BY <1>1, <1>5, <1>6, <1>8, <1>11, OneCall

LEMMA CountStep ==
  ASSUME IInv, NEW c \in Caller, Count(c)
  PROVE  IInv'
<1> DEFINE k == call[c]
           new == [k EXCEPT !.phase = "answered", !.code = k.code]
<1>1. /\ k \in Calls /\ Honest(k) /\ OnPolicy(k, installed) /\ k.phase = "count"
      /\ policy # NoPolicy /\ UNCHANGED reloadVars /\ Become(c, new)
  BY CallFacts DEF Count, Respond
<1> HIDE DEF k
<1>2. new \in Calls
  <2>1. k.code \in Nat /\ "answered" \in Phases
    BY <1>1 DEF Calls, Phases
  <2> QED
    BY <1>1, <2>1, CallChanges
<1>3. /\ new.walk = k.walk /\ new.snapshot = k.snapshot /\ new.token = k.token
      /\ new.req = k.req /\ new.actions = k.actions /\ new.phase = "answered"
      /\ new.taken = k.taken /\ new.forwarded = k.forwarded /\ new.accepted = k.accepted
      /\ new.code = k.code
  BY <1>1 DEF Calls
<1> HIDE DEF new
<1>4. OnPolicy(new, installed)
  BY <1>1, <1>3 DEF OnPolicy
<1>5. Accounted(k) /\ (hasToken => k.token = "right") /\ (k.taken => MayHandOn(k))
  BY <1>1 DEF Honest
<1>6. Accounted(new) /\ (MayHandOn(k) => MayHandOn(new))
  BY <1>3, <1>5 DEF Accounted, MayHandOn
<1>7. Honest(new)
  BY <1>3, <1>5, <1>6 DEF Honest
<1> QED
  BY <1>1, <1>2, <1>4, <1>7, OneCall
-----------------------------------------------------------------------------
(***************************************************************************)
(* The steps of the main loop and of the administrator.                     *)
(***************************************************************************)
\* What reloading may do to the calls: a policy in force stays or is replaced,
\* and what was published stays published.
LEMMA CallsSurvive ==
  ASSUME IInv, UNCHANGED call, installed \subseteq installed',
         policy # NoPolicy => policy' # NoPolicy
  PROVE  CallsInv'
<1> SUFFICES ASSUME NEW c \in Caller
             PROVE  /\ call[c].phase # "closed" => policy' # NoPolicy
                    /\ OnPolicy(call[c], installed') /\ Honest(call[c])
  BY DEF CallsInv
<1>1. /\ call[c].phase # "closed" => policy # NoPolicy
      /\ OnPolicy(call[c], installed) /\ Honest(call[c])
  BY DEF IInv, CallsInv
<1>2. OnPolicy(call[c], installed')
  BY <1>1 DEF OnPolicy
<1> QED
  BY <1>1, <1>2

LEMMA ReloadPolicyStep ==
  ASSUME IInv, ReloadPolicy, UNCHANGED call
  PROVE  IInv'
<1> DEFINE s == files[root]
           new == Enter(Fresh, root, s)
<1>1. reader' = new /\ UNCHANGED <<files, policy, installed>>
  BY DEF ReloadPolicy, Fresh
<1>2. root \in File /\ s \in Sources
  BY PolicyReloadAssumption DEF PolicyReloadAssumption, IInv, TypeInv
<1>3. Fresh \in Walks /\ Sound(Fresh.done) /\ Fresh.status = "reading" /\ Fresh.stack = <<>>
      /\ root \notin DOMAIN Fresh.done
  BY FreshWalk
<1> HIDE DEF s
<1>4. new \in Walks /\ (new.status \in {"reading", "complete"} => Gathering(new))
  <2>1. CASE s.ok
    <3> HIDE DEF Fresh
    <3>1. Gathering(new)
      BY <1>2, <1>3, <2>1, EnterGathers
    <3>2. new \in Walks
      BY <1>2, <1>3, <2>1, EnteredWalk
    <3> QED
      BY <3>1, <3>2
  <2>2. CASE ~s.ok
    <3>1. new = [Fresh EXCEPT !.status = "failed"]
      BY <2>2 DEF Enter
    <3> HIDE DEF Fresh, new
    <3>2. new \in Walks /\ new.status = "failed"
      BY <1>3, <3>1 DEF Walks
    <3> QED
      BY <3>2
  <2> QED
    BY <2>1, <2>2
<1> HIDE DEF new
<1>5. TypeInv' /\ ReaderInv' /\ PolicyInv'
  BY <1>1, <1>4 DEF IInv, TypeInv, ReaderInv, PolicyInv
<1>6. CallsInv'
  BY <1>1, CallsSurvive
<1> QED
  BY <1>5, <1>6 DEF IInv

LEMMA ReadModuleStep ==
  ASSUME IInv, ReadModule, UNCHANGED call
  PROVE  IInv'
<1> DEFINE next == Follow(reader, files)
           over == [next EXCEPT !.status = "failed"]
<1>1. /\ reader.status = "reading" /\ Head(reader.stack).todo # <<>>
      /\ reader' = next \/ reader' = over
      /\ UNCHANGED <<files, policy, installed>>
  BY DEF ReadModule
<1>2. reader \in Walks /\ files \in [File -> Sources] /\ Gathering(reader)
  BY <1>1 DEF IInv, TypeInv, ReaderInv
<1>3. /\ next \in Walks /\ next.status \in {"reading", "failed"}
      /\ next.status = "reading" => Gathering(next)
  BY <1>1, <1>2, FollowGathers
<1> HIDE DEF next
<1>4. over \in Walks /\ over.status = "failed"
  BY <1>3 DEF Walks
<1> HIDE DEF over
<1>5. TypeInv'
  BY <1>1, <1>3, <1>4 DEF IInv, TypeInv
<1>6. ReaderInv'
  <2>1. CASE reader' = next
    BY <1>3, <2>1 DEF ReaderInv
  <2>2. CASE reader' = over
    BY <1>4, <2>2 DEF ReaderInv
  <2> QED
    BY <1>1, <2>1, <2>2
<1>7. PolicyInv'
  BY <1>1 DEF IInv, PolicyInv
<1>8. CallsInv'
  BY <1>1, CallsSurvive
<1> QED
  BY <1>5, <1>6, <1>7, <1>8 DEF IInv

LEMMA KeepSourceStep ==
  ASSUME IInv, KeepSource, UNCHANGED call
  PROVE  IInv'
<1> DEFINE next == Leave(reader)
<1>1. /\ reader.status = "reading" /\ Head(reader.stack).todo = <<>>
      /\ reader' = next /\ UNCHANGED <<files, policy, installed>>
  BY DEF KeepSource
<1>2. reader \in Walks /\ Gathering(reader)
  BY <1>1 DEF IInv, TypeInv, ReaderInv
<1>3. next \in Walks /\ Gathering(next)
  BY <1>1, <1>2, LeaveGathers
<1> HIDE DEF next
<1>4. TypeInv' /\ ReaderInv' /\ PolicyInv'
  BY <1>1, <1>3 DEF IInv, TypeInv, ReaderInv, PolicyInv
<1>5. CallsInv'
  BY <1>1, CallsSurvive
<1> QED
  BY <1>4, <1>5 DEF IInv

LEMMA PublishStep ==
  ASSUME IInv, Publish, UNCHANGED call
  PROVE  IInv'
<1> DEFINE p == reader.done
<1>1. /\ reader.status = "complete" /\ policy' = p /\ installed' = installed \union {p}
      /\ reader' = NoWalk /\ UNCHANGED files
  BY DEF Publish
<1>2. reader \in Walks /\ Gathering(reader)
  BY <1>1 DEF IInv, TypeInv, ReaderInv
<1>3. Runnable(p)
  <2>1. p \in Modules
    BY <1>2 DEF Walks
  <2>2. Sound(p) /\ root \in DOMAIN p
    BY <1>1, <1>2 DEF Gathering
  <2> QED
    BY <2>1, <2>2 DEF Runnable
<1>4. p # NoPolicy
  <2>1. DOMAIN <<>> = {}
    OBVIOUS
  <2> QED
    BY <1>3, <2>1 DEF Runnable, NoPolicy
<1> HIDE DEF p
<1>5. NoWalk \in Walks /\ NoWalk.status = "idle"
  BY FreshWalk
<1>6. TypeInv' /\ ReaderInv'
  BY <1>1, <1>5 DEF IInv, TypeInv, ReaderInv
<1>7. PolicyInv'
  BY <1>1, <1>3 DEF IInv, PolicyInv
<1>8. CallsInv'
  BY <1>1, <1>4, CallsSurvive
<1> QED
  BY <1>6, <1>7, <1>8 DEF IInv

LEMMA RetainPreviousStep ==
  ASSUME IInv, RetainPrevious, UNCHANGED call
  PROVE  IInv'
<1> DEFINE halted == [reader EXCEPT !.status = "stopped"]
<1>1. (reader' = halted \/ reader' = NoWalk) /\ UNCHANGED <<files, policy, installed>>
  BY DEF RetainPrevious
<1>2. halted \in Walks /\ halted.status = "stopped"
  BY DEF IInv, TypeInv, Walks
<1> HIDE DEF halted
<1>3. NoWalk \in Walks /\ NoWalk.status = "idle"
  BY FreshWalk
<1>4. TypeInv' /\ ReaderInv'
  BY <1>1, <1>2, <1>3 DEF IInv, TypeInv, ReaderInv
<1>5. PolicyInv'
  BY <1>1 DEF IInv, PolicyInv
<1>6. CallsInv'
  BY <1>1, CallsSurvive
<1> QED
  BY <1>4, <1>5, <1>6 DEF IInv

LEMMA SighupStep ==
  ASSUME IInv, Sighup, UNCHANGED call
  PROVE  IInv'
<1>1. UNCHANGED <<files, reader, policy, installed>>
  BY DEF Sighup
<1>2. TypeInv' /\ ReaderInv' /\ PolicyInv'
  BY <1>1 DEF IInv, TypeInv, ReaderInv, PolicyInv
<1>3. CallsInv'
  BY <1>1, CallsSurvive
<1> QED
  BY <1>2, <1>3 DEF IInv

LEMMA EditStep ==
  ASSUME IInv, NEW f \in File, EditFile(f), UNCHANGED call
  PROVE  IInv'
<1>1. UNCHANGED <<reader, policy, installed>>
  BY DEF EditFile
<1>2. PICK v \in Versions : files' = [files EXCEPT ![f] = v[f]]
  BY DEF EditFile
<1>3. v[f] \in Sources
  BY PolicyReloadAssumption DEF PolicyReloadAssumption
<1>4. files' \in [File -> Sources]
  BY <1>2, <1>3 DEF IInv, TypeInv
<1>5. TypeInv' /\ ReaderInv' /\ PolicyInv'
  BY <1>1, <1>4 DEF IInv, TypeInv, ReaderInv, PolicyInv
<1>6. CallsInv'
  BY <1>1, CallsSurvive
<1> QED
  BY <1>5, <1>6 DEF IInv

-----------------------------------------------------------------------------
(***************************************************************************)
(* The invariant holds and what it implies.                                 *)
(***************************************************************************)
LEMMA IInvHolds ==
  Spec => []IInv
<1>1. Init => IInv
  <2> SUFFICES ASSUME Init PROVE IInv
    OBVIOUS
  <2>1. /\ files \in [File -> Sources] /\ reader = NoWalk /\ policy = NoPolicy
        /\ installed = {} /\ call = [c \in Caller |-> NoCall]
    BY PolicyReloadAssumption DEF Init, InitReload, PolicyReloadAssumption
  <2>2. NoWalk \in Walks /\ NoWalk.status = "idle"
    BY FreshWalk
  <2>3. NoCall \in Calls /\ OnPolicy(NoCall, installed) /\ Honest(NoCall)
    BY NoCallTyped
  <2>4. NoCall.phase = "closed"
    BY DEF NoCall
  <2>5. TypeInv /\ ReaderInv /\ PolicyInv
    BY <2>1, <2>2, <2>3 DEF TypeInv, ReaderInv, PolicyInv
  <2>6. CallsInv
    BY <2>1, <2>3, <2>4 DEF CallsInv
  <2> QED
    BY <2>5, <2>6 DEF IInv
<1>2. IInv /\ [Next]_vars => IInv'
  <2> SUFFICES ASSUME IInv, [Next]_vars PROVE IInv'
    OBVIOUS
  <2>1. CASE NextReload /\ UNCHANGED <<call, received, stats>>
    <3>1. NextReload /\ UNCHANGED call
      BY <2>1
    <3> QED
      BY <3>1, ReloadPolicyStep, ReadModuleStep, KeepSourceStep, PublishStep,
         RetainPreviousStep, SighupStep, EditStep DEF NextReload, MainLoop
  <2>2. ASSUME NEW c \in Caller, NEW token \in {"right", "wrong"}, Open(c, token) PROVE IInv'
    BY <2>2, OpenStep
  <2>3. ASSUME NEW c \in Caller, NEW req \in Requests, ProcessMessage(c, req) PROVE IInv'
    BY <2>3, ProcessStep
  <2>4. ASSUME NEW c \in Caller, Handle(c) PROVE IInv'
    BY <2>4, LoadStep, FileStep, DecideStep, DeliverStep, CountStep DEF Handle
  <2>5. ASSUME NEW c \in Caller, Close(c) PROVE IInv'
    BY <2>5, CloseStep
  <2>6. CASE UNCHANGED vars
    <3>1. UNCHANGED <<files, reader, policy, installed, call>>
      BY <2>6 DEF vars, reloadVars
    <3>2. CallsInv'
      BY <3>1, CallsSurvive
    <3> QED
      BY <3>1, <3>2 DEF IInv, TypeInv, ReaderInv, PolicyInv
  <2> QED
    BY <2>1, <2>2, <2>3, <2>4, <2>5, <2>6 DEF Next
<1> QED
  BY <1>1, <1>2, PTL DEF Spec

\* Every message is evaluated with one published policy: the root script and
\* every module come from the snapshot taken when its evaluation began, however
\* often the policy is reloaded meanwhile (executePolicy, thread.Load).
THEOREM OneSnapshotForEachMessage == Spec => []OnePolicyPerMessage
<1>1. IInv => OnePolicyPerMessage
  <2> SUFFICES ASSUME IInv, NEW c \in Caller
               PROVE  \E p \in installed \union {NoPolicy} :
                        /\ \A f \in DOMAIN call[c].walk.done :
                             f \in DOMAIN p /\ call[c].walk.done[f] = p[f]
                        /\ \A i \in DOMAIN call[c].walk.stack :
                             LET frame == call[c].walk.stack[i]
                             IN  frame.file \in DOMAIN p /\ frame.source = p[frame.file]
    BY DEF OnePolicyPerMessage
  <2> DEFINE w == call[c].walk
  <2>1. call[c] \in Calls /\ OnPolicy(call[c], installed)
    BY CallFacts
  <2>2. w \in Walks
    BY <2>1 DEF Calls
  <2>3. CASE w = NoWalk
    <3>1. DOMAIN w.done = {} /\ DOMAIN w.stack = {}
      <4>1. DOMAIN <<>> = {}
        OBVIOUS
      <4> QED
        BY <2>3, <4>1 DEF NoWalk
    <3> QED
      BY <3>1
  <2>4. CASE w # NoWalk
    <3>1. call[c].snapshot \in installed /\ Matches(w, call[c].snapshot)
      BY <2>1, <2>4 DEF OnPolicy, Evaluating
    <3>2. DOMAIN w.stack = 1..Len(w.stack)
      BY <2>2, WalkTyped
    <3> QED
      BY <3>1, <3>2 DEF Matches
  <2> QED
    BY <2>3, <2>4
<1> QED
  BY <1>1, IInvHolds, PTL

\* No evaluation fails for the structure of its policy: whatever is edited
\* while LoadPolicy reads, what it publishes has every module that is loaded
\* from it and no cycle.
THEOREM NothingIsAbsent == Spec => []PublishedPolicyRuns
<1>1. IInv => PublishedPolicyRuns
  <2> SUFFICES ASSUME IInv, NEW c \in Caller PROVE call[c].walk.status # "failed"
    BY DEF PublishedPolicyRuns
  <2>1. OnPolicy(call[c], installed)
    BY CallFacts
  <2>2. CASE call[c].walk = NoWalk
    BY <2>2, FreshWalk
  <2>3. CASE call[c].walk # NoWalk
    BY <2>1, <2>3 DEF OnPolicy, Evaluating
  <2> QED
    BY <2>2, <2>3
<1> QED
  BY <1>1, IInvHolds, PTL

\* ProcessMessage hands a message on only when all that must hold for it does,
\* and answers with what became of it.
THEOREM AnswersAreTrue == Spec => []AnswersAreHonest
<1>1. IInv => AnswersAreHonest
  <2> SUFFICES ASSUME IInv, NEW c \in Caller
               PROVE  /\ call[c].taken => MayHandOn(call[c]) /\ (hasToken => call[c].token = "right")
                      /\ call[c].phase = "answered" => Accounted(call[c])
    BY DEF AnswersAreHonest, MayHandOn, Accounted
  <2>1. Honest(call[c]) /\ call[c] \in Calls
    BY CallFacts
  <2>2. call[c].taken => call[c].phase \in {"count", "answered"}
    BY <2>1 DEF Honest
  <2> QED
    BY <2>1, <2>2 DEF Honest
<1> QED
  BY <1>1, IInvHolds, PTL
=============================================================================
