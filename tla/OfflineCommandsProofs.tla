----------------------- MODULE OfflineCommandsProofs -----------------------
(***************************************************************************)
(* Proofs about OfflineCommands, for any scanners, analyzers, messages,        *)
(* mailboxes and limits: an analysis tells the policy what was found, the      *)
(* report of the header checks lists what they found in its order, and each    *)
(* message of a mailbox is met once.                                        *)
(*                                                                         *)
(* The first two are about loops whose result is said by place: an element    *)
(* that is kept stands where as many kept ones come up to it (Counting,        *)
(* ThoseAt), and the sort puts each finding where as many rank ahead of it.    *)
(* The third is about where each walk has come (WalkInv).                     *)
(***************************************************************************)
EXTENDS OfflineCommands, FiniteSetTheorems, SequenceTheorems, TLAPS

(***************************************************************************)
(* The least number of a set, and induction over a set of numbers: from the   *)
(* well-foundedness of the finite sets 1..n under inclusion.                 *)
(***************************************************************************)
\* A set of natural numbers that is not empty has a least element.
LEMMA LeastNatural ==
  ASSUME NEW S \in SUBSET Nat, S # {}
  PROVE  \E n \in S : \A m \in S : n <= m
<1> DEFINE T == {1..n : n \in S}
<1>1. \A n \in Nat : 1..n \in FiniteSubsetsOf(Nat)
  <2> TAKE n \in Nat
  <2>1. IsFiniteSet(1..n)
    BY FS_Interval
  <2> QED
    BY <2>1 DEF FiniteSubsetsOf
<1>2. T \subseteq FiniteSubsetsOf(Nat) /\ T # {}
  BY <1>1
<1>3. IsWellFoundedOn(StrictSubsetOrdering(Nat), FiniteSubsetsOf(Nat))
  BY FS_StrictSubsetOrderingWellFounded
<1> HIDE DEF T
<1>4. \E x \in T : \A y \in T : ~ (<<y, x>> \in StrictSubsetOrdering(Nat))
  BY <1>2, <1>3, WFMin
<1>5. PICK n \in S : \A m \in S : ~ (<<1..m, 1..n>> \in StrictSubsetOrdering(Nat))
  BY <1>4 DEF T
<1>6. ASSUME NEW m \in S PROVE n <= m
  <2> SUFFICES ASSUME m < n PROVE FALSE
    OBVIOUS
  <2>1. 1..m \subseteq 1..n /\ 1..m # 1..n
    <3>1. n \in 1..n /\ n \notin 1..m
      OBVIOUS
    <3> QED
      BY <3>1
  <2>2. 1..m \in SUBSET Nat /\ 1..n \in SUBSET Nat
    OBVIOUS
  <2> QED
    BY <1>5, <2>1, <2>2 DEF StrictSubsetOrdering
<1> QED
  BY <1>6

\* A set that has 0 and with each number the next has all of them.
LEMMA SetInduction ==
  ASSUME NEW S \in SUBSET Nat, 0 \in S, \A n \in S : n + 1 \in S
  PROVE  S = Nat
<1> DEFINE R == Nat \ S
<1> SUFFICES ASSUME R # {} PROVE FALSE
  OBVIOUS
<1>1. R \in SUBSET Nat
  OBVIOUS
<1> HIDE DEF R
<1>2. PICK n \in R : \A m \in R : n <= m
  BY <1>1, LeastNatural
<1>3. n \in Nat /\ n # 0
  BY <1>1, <1>2 DEF R
<1>4. n - 1 \in S
  BY <1>2, <1>3 DEF R
<1> QED
  BY <1>2, <1>3, <1>4 DEF R

\* There is a function that starts from a and takes one step after another.
HasRun(A, a, len, step) ==
  \E g \in [0..len -> A] : g[0] = a /\ \A n \in 1..len : g[n] = step[<<g[n - 1], n>>]

\* A function on 0..n defined step by step exists, and has the type of the steps.
LEMMA Recursion ==
  ASSUME NEW A, NEW a \in A, NEW len \in Nat, NEW step \in [A \X (1..len) -> A]
  PROVE  HasRun(A, a, len, step)
<1> DEFINE Upto(g, m) == /\ g \in [0..m -> A] /\ g[0] = a
                         /\ \A n \in 1..m : g[n] = step[<<g[n - 1], n>>]
           S == {m \in Nat : m <= len => \E g \in [0..m -> A] : Upto(g, m)}
<1>1. 0 \in S
  <2>1. Upto([n \in 0..0 |-> a], 0)
    OBVIOUS
  <2> QED
    BY <2>1
<1>2. ASSUME NEW m \in S PROVE m + 1 \in S
  <2> SUFFICES ASSUME m + 1 <= len PROVE \E g \in [0..(m + 1) -> A] : Upto(g, m + 1)
    OBVIOUS
  <2>1. PICK g \in [0..m -> A] : Upto(g, m)
    OBVIOUS
  <2> DEFINE h == [n \in 0..(m + 1) |-> IF n <= m THEN g[n] ELSE step[<<g[m], m + 1>>]]
  <2>2. step[<<g[m], m + 1>>] \in A
    OBVIOUS
  <2>3. h \in [0..(m + 1) -> A]
    BY <2>2
  <2>4. h[0] = a
    BY <2>1
  <2>5. ASSUME NEW n \in 1..(m + 1) PROVE h[n] = step[<<h[n - 1], n>>]
    <3>1. CASE n <= m
      BY <2>1, <3>1
    <3>2. CASE n = m + 1
      <4>1. h[m] = g[m] /\ h[m + 1] = step[<<g[m], m + 1>>]
        OBVIOUS
      <4>2. n - 1 = m
        BY <3>2
      <4> QED
        BY <3>2, <4>1, <4>2
    <3> QED
      BY <3>1, <3>2
  <2> QED
    BY <2>3, <2>4, <2>5
<1> HIDE DEF S
<1>3. S = Nat
  <2>1. S \in SUBSET Nat
    BY DEF S
  <2> QED
    BY <1>1, <1>2, <2>1, SetInduction
<1>4. PICK g \in [0..len -> A] : Upto(g, len)
  <2>1. len \in S
    BY <1>3
  <2> HIDE DEF Upto
  <2> QED
    BY <2>1 DEF S
<1> QED
  BY <1>4 DEF HasRun

(***************************************************************************)
(* Subsequences.                                                            *)
(***************************************************************************)
\* There are n numbers from 1 to n.
LEMMA UpTo ==
  ASSUME NEW n \in Nat
  PROVE  IsFiniteSet(1..n) /\ Cardinality(1..n) = n
<1>1. 1 \in Int /\ n \in Int
  OBVIOUS
<1>2. IsFiniteSet(1..n) /\ Cardinality(1..n) = IF 1 > n THEN 0 ELSE n - 1 + 1
  BY <1>1, FS_Interval
<1> QED
  BY <1>2

\* The members of a set of places are counted from one, in their order, none
\* left out.
LEMMA Counting ==
  ASSUME NEW n \in Nat, NEW P \in SUBSET (1..n)
  PROVE  /\ IsFiniteSet(P) /\ Cardinality(P) \in Nat
         /\ \A i \in P : PlaceOf(P, i) \in 1..Cardinality(P)
         /\ \A i, j \in P : i < j => PlaceOf(P, i) < PlaceOf(P, j)
         /\ \A k \in 1..Cardinality(P) : \E i \in P : PlaceOf(P, i) = k
<1> DEFINE Upto(i) == {j \in P : j <= i}
<1>1. IsFiniteSet(P) /\ Cardinality(P) \in Nat
  <2>1. IsFiniteSet(1..n)
    BY FS_Interval
  <2>2. IsFiniteSet(P)
    BY <2>1, FS_Subset
  <2> QED
    BY <2>2, FS_CardinalityType
<1>2. \A i \in P : /\ IsFiniteSet(Upto(i)) /\ Cardinality(Upto(i)) <= Cardinality(P)
                   /\ Cardinality(Upto(i)) \in Nat
  BY <1>1, FS_Subset, FS_CardinalityType
<1>3. \A i \in P : PlaceOf(P, i) \in 1..Cardinality(P)
  <2> TAKE i \in P
  <2>1. Upto(i) # {}
    OBVIOUS
  <2>2. Cardinality(Upto(i)) # 0
    BY <1>2, <2>1, FS_EmptySet
  <2> QED
    BY <1>1, <1>2, <2>2 DEF PlaceOf
<1>4. ASSUME NEW i \in P, NEW j \in P, i < j
      PROVE  PlaceOf(P, i) < PlaceOf(P, j)
  <2>1. Upto(i) \subseteq Upto(j) \ {j}
    <3>1. \A k \in P : k <= i => k <= j /\ k # j
      <4> TAKE k \in P
      <4>1. k \in Nat /\ i \in Nat /\ j \in Nat
        OBVIOUS
      <4> QED
        BY <1>4, <4>1
    <3> QED
      BY <3>1
  <2>2. /\ IsFiniteSet(Upto(j) \ {j})
        /\ Cardinality(Upto(j) \ {j}) = Cardinality(Upto(j)) - 1
    <3>1. IsFiniteSet(Upto(j)) /\ j \in Upto(j)
      BY <1>2
    <3> HIDE DEF Upto
    <3> QED
      BY <3>1, FS_RemoveElement
  <2>3. Cardinality(Upto(i)) <= Cardinality(Upto(j) \ {j})
    BY <2>1, <2>2, FS_Subset
  <2> QED
    BY <1>2, <2>2, <2>3 DEF PlaceOf
<1>5. \A k \in 1..Cardinality(P) : \E i \in P : PlaceOf(P, i) = k
  <2> DEFINE f == [i \in P |-> PlaceOf(P, i)]
             C == 1..Cardinality(P)
  <2>1. f \in [P -> C]
    BY <1>3
  <2>2. \A i, j \in P : f[i] = f[j] => i = j
    <3> SUFFICES ASSUME NEW i \in P, NEW j \in P, i # j PROVE f[i] # f[j]
      OBVIOUS
    <3>1. i < j \/ j < i
      OBVIOUS
    <3> QED
      BY <1>3, <1>4, <3>1
  <2>3. f \in Injection(P, C)
    BY <2>1, <2>2 DEF Injection, IsInjective
  <2>4. IsFiniteSet(C) /\ Cardinality(C) = Cardinality(P)
    BY <1>1, FS_Interval
  <2>5. f \in Surjection(P, C)
    <3> HIDE DEF f, C
    <3> QED
      BY <2>3, <2>4, FS_Injection
  <2> QED
    BY <2>5 DEF Surjection
<1> QED
  BY <1>1, <1>3, <1>4, <1>5

\* Those(s, K) has an element for each place where s has one of K, in order.
LEMMA ThoseAt ==
  ASSUME NEW n \in Nat, NEW s, DOMAIN s = 1..n, NEW K
  PROVE  LET P == Places(s, K)
         IN  /\ P \in SUBSET (1..n) /\ Cardinality(P) \in Nat
             /\ DOMAIN Those(s, K) = 1..Cardinality(P)
             /\ \A i \in P : Those(s, K)[PlaceOf(P, i)] = s[i]
             /\ \A k \in 1..Cardinality(P) :
                  \E i \in P : k = PlaceOf(P, i) /\ Those(s, K)[k] = s[i]
<1> DEFINE P == Places(s, K)
<1>1. P \in SUBSET (1..n)
  BY DEF Places
<1> HIDE DEF P
<1>2. /\ Cardinality(P) \in Nat
      /\ \A i \in P : PlaceOf(P, i) \in 1..Cardinality(P)
      /\ \A i, j \in P : i < j => PlaceOf(P, i) < PlaceOf(P, j)
      /\ \A k \in 1..Cardinality(P) : \E i \in P : PlaceOf(P, i) = k
  BY <1>1, Counting
<1>3. Those(s, K) = [k \in 1..Cardinality(P) |-> s[CHOOSE i \in P : PlaceOf(P, i) = k]]
  BY DEF Those, P
<1>4. ASSUME NEW i \in P PROVE Those(s, K)[PlaceOf(P, i)] = s[i]
  <2> DEFINE c == CHOOSE j \in P : PlaceOf(P, j) = PlaceOf(P, i)
  <2>1. c \in P /\ PlaceOf(P, c) = PlaceOf(P, i)
    OBVIOUS
  <2> HIDE DEF c
  <2>2. c = i
    <3>1. c \in Nat /\ i \in Nat
      BY <1>1, <2>1
    <3>2. ~ (c < i) /\ ~ (i < c)
      BY <1>2, <2>1
    <3> QED
      BY <3>1, <3>2
  <2>3. Those(s, K)[PlaceOf(P, i)] = s[c]
    BY <1>2, <1>3 DEF c
  <2> QED
    BY <2>2, <2>3
<1>5. \A k \in 1..Cardinality(P) : \E i \in P : k = PlaceOf(P, i) /\ Those(s, K)[k] = s[i]
  BY <1>2, <1>4
<1>6. DOMAIN Those(s, K) = 1..Cardinality(P)
  BY <1>3
<1> QED
  BY <1>1, <1>2, <1>4, <1>5, <1>6 DEF P

\* A subsequence is a sequence of the same type, of elements of K.
LEMMA ThoseType ==
  ASSUME NEW T, NEW s \in Seq(T), NEW K
  PROVE  /\ Those(s, K) \in Seq(T) /\ Len(Those(s, K)) = Cardinality(Places(s, K))
         /\ \A i \in DOMAIN Those(s, K) : Those(s, K)[i] \in K
<1> DEFINE P == Places(s, K)
           t == Those(s, K)
<1>1. Len(s) \in Nat /\ DOMAIN s = 1..Len(s) /\ \A i \in 1..Len(s) : s[i] \in T
  BY LenProperties, ElementOfSeq
<1>2. /\ P \in SUBSET (1..Len(s)) /\ Cardinality(P) \in Nat
      /\ DOMAIN t = 1..Cardinality(P)
      /\ \A k \in 1..Cardinality(P) : \E i \in P : t[k] = s[i]
  BY <1>1, ThoseAt
<1>3. \A k \in 1..Cardinality(P) : t[k] \in T /\ t[k] \in K
  BY <1>1, <1>2 DEF Places
<1>4. t = [k \in 1..Cardinality(P) |-> t[k]]
  BY <1>2 DEF Those
<1> HIDE DEF t, P
<1>5. t \in [1..Cardinality(P) -> T]
  BY <1>3, <1>4
<1>6. t \in Seq(T)
  BY <1>2, <1>5, SeqDef
<1>7. Len(t) = Cardinality(P)
  BY <1>2, <1>6, LenProperties
<1> QED
  BY <1>2, <1>3, <1>6, <1>7 DEF t, P

\* If the elements of K come first, the subsequence is a prefix.
LEMMA ThosePrefix ==
  ASSUME NEW n \in Nat, NEW s, DOMAIN s = 1..n, NEW K, NEW c \in 0..n,
         Places(s, K) = 1..c
  PROVE  Those(s, K) = [k \in 1..c |-> s[k]]
<1> DEFINE P == Places(s, K)
<1>1. Cardinality(P) = c
  BY FS_Interval
<1>2. /\ DOMAIN Those(s, K) = 1..c
      /\ \A i \in P : Those(s, K)[PlaceOf(P, i)] = s[i]
  BY <1>1, ThoseAt
<1>3. ASSUME NEW i \in 1..c PROVE PlaceOf(P, i) = i
  <2>1. {j \in P : j <= i} = 1..i
    OBVIOUS
  <2>2. Cardinality(1..i) = i
    BY FS_Interval
  <2> QED
    BY <2>1, <2>2 DEF PlaceOf
<1>4. \A i \in 1..c : Those(s, K)[i] = s[i]
  BY <1>2, <1>3
<1>5. Those(s, K) = [k \in DOMAIN Those(s, K) |-> Those(s, K)[k]]
  BY DEF Those
<1> QED
  BY <1>2, <1>4, <1>5

\* What s does not have comes from what is appended to it.
LEMMA ThoseAppended ==
  ASSUME NEW T, NEW s \in Seq(T), NEW t \in Seq(T), NEW K,
         \A i \in 1..Len(s) : s[i] \notin K, \A i \in 1..Len(t) : t[i] \in K
  PROVE  Those(s \o t, K) = t
<1> DEFINE u == s \o t
           P == Places(u, K)
           m == Len(s)
<1>1. /\ u \in Seq(T) /\ Len(u) = m + Len(t) /\ m \in Nat /\ Len(t) \in Nat
      /\ DOMAIN u = 1..(m + Len(t)) /\ DOMAIN t = 1..Len(t)
      /\ \A i \in 1..(m + Len(t)) : u[i] = IF i <= m THEN s[i] ELSE t[i - m]
  BY ConcatProperties, LenProperties
<1> HIDE DEF u
<1>2. P = (m + 1)..(m + Len(t))
  BY <1>1 DEF Places
<1>3. Cardinality(P) = Len(t)
  <2>1. m + 1 \in Int /\ m + Len(t) \in Int
    BY <1>1
  <2>2. Cardinality((m + 1)..(m + Len(t))) =
          IF m + 1 > m + Len(t) THEN 0 ELSE (m + Len(t)) - (m + 1) + 1
    <3> DEFINE a == m + 1
               b == m + Len(t)
    <3> HIDE DEF a, b
    <3>1. a \in Int /\ b \in Int
      BY <2>1 DEF a, b
    <3>2. Cardinality(a..b) = IF a > b THEN 0 ELSE b - a + 1
      BY <3>1, FS_Interval
    <3> QED
      BY <3>2 DEF a, b
  <2> QED
    BY <1>1, <1>2, <2>2
<1>4. ASSUME NEW i \in P PROVE PlaceOf(P, i) = i - m
  <2>1. {j \in P : j <= i} = (m + 1)..i
    BY <1>1, <1>2
  <2>2. Cardinality((m + 1)..i) = i - m
    BY <1>1, <1>2, FS_Interval
  <2> QED
    BY <2>1, <2>2 DEF PlaceOf
<1>5. /\ DOMAIN Those(u, K) = 1..Len(t)
      /\ \A i \in P : Those(u, K)[PlaceOf(P, i)] = u[i]
  BY <1>1, <1>3, ThoseAt
<1>6. ASSUME NEW k \in 1..Len(t) PROVE Those(u, K)[k] = t[k]
  <2>1. k + m \in P /\ PlaceOf(P, k + m) = k
    <3> HIDE DEF P, m
    <3>1. m \in Nat /\ Len(t) \in Nat /\ k \in Nat /\ k >= 1 /\ k <= Len(t)
      BY <1>1
    <3>2. k + m \in P
      BY <1>2, <3>1
    <3>3. PlaceOf(P, k + m) = (k + m) - m
      BY <1>4, <3>2
    <3> QED
      BY <3>1, <3>2, <3>3
  <2>2. u[k + m] = t[k]
    <3> HIDE DEF m
    <3>1. m \in Nat /\ Len(t) \in Nat /\ k \in Nat /\ k >= 1 /\ k <= Len(t)
      BY <1>1
    <3>2. k + m \in 1..(m + Len(t)) /\ ~(k + m <= m) /\ (k + m) - m = k
      BY <3>1
    <3> QED
      BY <1>1, <3>2
  <2> QED
    BY <1>5, <2>1, <2>2
<1>7. Those(u, K) \in Seq(T) /\ Len(Those(u, K)) = Len(t)
  BY <1>1, <1>3, ThoseType
<1> QED
  BY <1>6, <1>7, SeqEqual DEF u

\* What a longer sequence began with is in it.
LEMMA LogKeeps ==
  ASSUME NEW T, NEW s \in Seq(T), NEW t \in Seq(T)
  PROVE  ToSet(s) \subseteq ToSet(s \o t)
<1> SUFFICES ASSUME NEW e \in ToSet(s) PROVE e \in ToSet(s \o t)
  OBVIOUS
<1>1. DOMAIN s = 1..Len(s)
  BY LenProperties
<1>2. PICK i \in 1..Len(s) : e = s[i]
  BY <1>1 DEF ToSet
<1>3. /\ Len(s) \in Nat /\ Len(t) \in Nat /\ Len(s \o t) = Len(s) + Len(t)
      /\ \A j \in 1..Len(s) : (s \o t)[j] = s[j]
  BY LenProperties, ConcatProperties
<1>4. s \o t \in Seq(T)
  BY ConcatProperties
<1>5. i \in DOMAIN (s \o t) /\ (s \o t)[i] = e
  BY <1>2, <1>3, <1>4, LenProperties
<1> QED
  BY <1>5 DEF ToSet

\* The first element of a sequence is in it.
LEMMA Begun ==
  ASSUME NEW T, NEW e \in T
  PROVE  /\ <<>> \in Seq(T) /\ Append(<<>>, e) \in Seq(T)
         /\ e \in ToSet(Append(<<>>, e))
<1>1. <<>> \in Seq(T) /\ Len(<<>>) = 0
  BY EmptySeq
<1> DEFINE s == Append(<<>>, e)
<1>2. s \in Seq(T) /\ Len(s) = 1 /\ s[1] = e
  BY <1>1, AppendProperties
<1>3. DOMAIN s = 1..1
  BY <1>2, LenProperties
<1> HIDE DEF s
<1>4. e \in ToSet(s)
  BY <1>2, <1>3 DEF ToSet
<1> QED
  BY <1>1, <1>2, <1>4 DEF s

(***************************************************************************)
(* Scanning.                                                                *)
(***************************************************************************)
ScannerLines == {Unavailable("clamav"), Unavailable("yara")}

IsOutcome(o) ==
  o = NoOutcome \/ o = Error \/ (o.state = "result" /\ o.verdict \in Verdicts /\ o.score \in 0..100)

\* How far the context has come, by scan.
ContextInv ==
  /\ ctx = [virusStatus |-> ctx.virusStatus, avAvailable |-> ctx.avAvailable,
            yaraAvailable |-> ctx.yaraAvailable, yaraMatches |-> ctx.yaraMatches,
            analyzerResults |-> ctx.analyzerResults, log |-> ctx.log,
            resolver |-> ctx.resolver, verified |-> ctx.verified]
  /\ scan \in {"idle", "start", "refused", "clamav"} => ctx = NewMessageContext /\ clamdSaid = ""
  /\ scan \in {"yara", "analyzers"} => ctx.log \in Seq(ScannerLines)

OutcomesInv ==
  /\ scan \in {"idle", "start", "refused", "clamav", "yara", "analyzers", "done"}
  /\ scan = "idle" => config.clamav = FALSE
  /\ scan # "idle" => config.analyzers \in Seq(STRING)
  /\ scan \in {"analyzers", "done"} => /\ DOMAIN outcomes = 1..Len(config.analyzers)
                                       /\ outcomes = [i \in DOMAIN outcomes |-> outcomes[i]]
                                       /\ \A i \in DOMAIN outcomes : IsOutcome(outcomes[i])

ScanInv == OutcomesInv /\ ContextInv /\ CleanMeansScanned /\ AnalysisInOrder

\* Of the verdicts analyzers may give, any collection has a most severe one.
LEMMA WorstVerdict ==
  ASSUME NEW V \in SUBSET Verdicts, V # {}
  PROVE  \E v \in V : \A w \in V : verdictRank(w) <= verdictRank(v)
<1> USE DEF verdictRank, Verdicts
<1>1. CASE "malicious" \in V
  BY <1>1
<1>2. CASE "malicious" \notin V /\ "suspicious" \in V
  BY <1>2
<1>3. CASE "malicious" \notin V /\ "suspicious" \notin V /\ "unknown" \in V
  BY <1>3
<1>4. CASE V = {"clean"}
  BY <1>4
<1> QED
  BY <1>1, <1>2, <1>3, <1>4

\* Of the scores, the highest is found.
LEMMA HighestScore ==
  ASSUME NEW S \in SUBSET (0..100), S # {}
  PROVE  Max(S) \in S /\ \A x \in S : x <= Max(S)
<1> DEFINE T == {100 - x : x \in S}
<1>1. T \in SUBSET Nat /\ T # {}
  <2>1. \A x \in S : 100 - x \in Nat
    OBVIOUS
  <2> QED
    BY <2>1
<1> HIDE DEF T
<1>2. PICK n \in T : \A m \in T : n <= m
  BY <1>1, LeastNatural
<1>3. PICK x \in S : n = 100 - x
  BY <1>2 DEF T
<1>4. \A y \in S : x >= y
  <2> TAKE y \in S
  <2>1. 100 - y \in T
    BY DEF T
  <2> QED
    BY <1>2, <1>3, <2>1
<1> QED
  BY <1>4 DEF Max

\* What applyAnalyzers leaves is in the order of the flags, whatever order the
\* analyzers finished in.
LEMMA AppliedInOrder ==
  ASSUME OutcomesInv, ContextInv, applyAnalyzers
  PROVE  AnalysisInOrder' /\ ToSet(ctx.log) \subseteq ToSet(ctx'.log)
<1> DEFINE n == Len(config.analyzers)
           ids == [i \in DOMAIN outcomes |-> i]
           F == {i \in DOMAIN outcomes : outcomes[i] = Error}
           G == {i \in DOMAIN outcomes : outcomes[i] # Error}
           failed == Those(ids, F)
           lines == [i \in DOMAIN failed |-> AnalyzerUnavailable(config.analyzers[failed[i]])]
           given == ToSet(outcomes) \ {Error}
           ordered == Those(outcomes, given)
           named == {AnalyzerUnavailable(name) : name \in ToSet(config.analyzers)}
<1>1. /\ n \in Nat /\ DOMAIN config.analyzers = 1..n
      /\ \A i \in 1..n : config.analyzers[i] \in STRING
      /\ DOMAIN outcomes = 1..n
      /\ \A i \in 1..n : IsOutcome(outcomes[i]) /\ outcomes[i] # NoOutcome
  <2>1. config.analyzers \in Seq(STRING)
    BY DEF applyAnalyzers, OutcomesInv
  <2>2. n \in Nat /\ DOMAIN config.analyzers = 1..n
    BY <2>1, LenProperties
  <2>3. \A i \in 1..n : config.analyzers[i] \in STRING
    BY <2>1, ElementOfSeq
  <2> QED
    BY <2>2, <2>3 DEF applyAnalyzers, OutcomesInv
<1>2. /\ ctx'.log = ctx.log \o lines /\ ctx'.analyzerResults = ordered
      /\ config' = config /\ outcomes' = outcomes
  BY DEF applyAnalyzers, ContextInv
<1>3. /\ F \in SUBSET (1..n) /\ Cardinality(F) \in Nat
      /\ failed = [k \in 1..Cardinality(F) |-> failed[k]]
      /\ \A i \in F : PlaceOf(F, i) \in 1..Cardinality(F) /\ failed[PlaceOf(F, i)] = i
      /\ \A k \in 1..Cardinality(F) : failed[k] \in F
  <2>1. Places(ids, F) = F /\ DOMAIN ids = 1..n /\ \A i \in 1..n : ids[i] = i
    BY <1>1 DEF Places
  <2> HIDE DEF ids
  <2>2. /\ F \in SUBSET (1..n) /\ Cardinality(F) \in Nat
        /\ DOMAIN failed = 1..Cardinality(F)
        /\ \A i \in F : failed[PlaceOf(F, i)] = ids[i]
        /\ \A k \in 1..Cardinality(F) : \E i \in F : failed[k] = ids[i]
    <3> HIDE DEF F
    <3> QED
      BY <1>1, <2>1, ThoseAt
  <2>3. \A i \in F : PlaceOf(F, i) \in 1..Cardinality(F)
    <3> HIDE DEF F
    <3> QED
      BY <1>1, <2>2, Counting
  <2>4. failed = [k \in DOMAIN failed |-> failed[k]]
    BY DEF Those
  <2>5. \A i \in F : ids[i] = i
    BY <2>1, <2>2
  <2> HIDE DEF failed, F
  <2> QED
    BY <2>2, <2>3, <2>4, <2>5
<1>4. /\ G \in SUBSET (1..n) /\ Cardinality(G) \in Nat
      /\ DOMAIN ordered = 1..Cardinality(G) /\ Len(ordered) = Cardinality(G)
      /\ \A i \in G : PlaceOf(G, i) \in 1..Cardinality(G) /\ ordered[PlaceOf(G, i)] = outcomes[i]
      /\ \A k \in 1..Cardinality(G) : \E i \in G : ordered[k] = outcomes[i]
  <2>1. Places(outcomes, given) = G
    BY <1>1 DEF Places, ToSet
  <2>2. outcomes \in Seq(ToSet(outcomes))
    <3>1. outcomes \in [1..n -> ToSet(outcomes)]
      <4>1. outcomes = [i \in 1..n |-> outcomes[i]]
        BY <1>1 DEF applyAnalyzers, OutcomesInv
      <4> QED
        BY <1>1, <4>1 DEF ToSet
    <3> QED
      BY <1>1, <3>1, SeqDef
  <2> HIDE DEF given, G
  <2>3. Len(ordered) = Cardinality(G)
    BY <2>1, <2>2, ThoseType
  <2>4. /\ G \in SUBSET (1..n) /\ Cardinality(G) \in Nat
        /\ DOMAIN ordered = 1..Cardinality(G)
        /\ \A i \in G : ordered[PlaceOf(G, i)] = outcomes[i]
        /\ \A k \in 1..Cardinality(G) : \E i \in G : ordered[k] = outcomes[i]
    BY <1>1, <2>1, ThoseAt
  <2>5. \A i \in G : PlaceOf(G, i) \in 1..Cardinality(G)
    BY <1>1, <2>4, Counting
  <2> QED
    BY <2>3, <2>4, <2>5
<1>5. lines \in Seq(named) /\ Len(lines) = Cardinality(F)
  <2>1. ASSUME NEW k \in 1..Cardinality(F)
        PROVE  AnalyzerUnavailable(config.analyzers[failed[k]]) \in named
    <3>1. failed[k] \in 1..n
      BY <1>3
    <3>2. config.analyzers[failed[k]] \in ToSet(config.analyzers)
      BY <1>1, <3>1 DEF ToSet
    <3> QED
      BY <3>2
  <2>2. DOMAIN failed = 1..Cardinality(F)
    BY <1>3
  <2> HIDE DEF failed, F, named
  <2>3. lines \in [1..Cardinality(F) -> named]
    BY <2>1, <2>2
  <2>4. lines \in Seq(named)
    BY <1>3, <2>3, SeqDef
  <2> QED
    BY <1>3, <2>2, <2>4, LenProperties
<1>6. Those(ctx'.log, named) = lines /\ ToSet(ctx.log) \subseteq ToSet(ctx'.log)
  <2> DEFINE T == ScannerLines \union named
  <2>1. ctx.log \in Seq(ScannerLines)
    BY DEF applyAnalyzers, ContextInv
  <2>2. ASSUME NEW l \in ScannerLines PROVE l \notin named
    <3>1. l[1] = "clamav" \/ l[1] = "yara"
      <4>1. l = <<"clamav", "">> \/ l = <<"yara", "">>
        BY DEF ScannerLines, Unavailable
      <4>2. <<"clamav", "">>[1] = "clamav" /\ <<"yara", "">>[1] = "yara"
        OBVIOUS
      <4> QED
        BY <4>1, <4>2, Zenon
    <3>2. \A line \in named : line[1] = "analyzer"
      BY DEF AnalyzerUnavailable
    <3> HIDE DEF named
    <3> QED
      BY <3>1, <3>2
  <2> HIDE DEF lines, named, n
  <2>3. \A i \in 1..Len(ctx.log) : ctx.log[i] \notin named
    BY <2>1, <2>2, ElementOfSeq
  <2>4. \A i \in 1..Len(lines) : lines[i] \in named
    BY <1>5, ElementOfSeq
  <2>5. ctx.log \in Seq(T) /\ lines \in Seq(T)
    BY <1>5, <2>1, SeqMonotonic
  <2> HIDE DEF T
  <2> QED
    <3>1. Those(ctx.log \o lines, named) = lines
      BY <2>3, <2>4, <2>5, ThoseAppended
    <3>2. ToSet(ctx.log) \subseteq ToSet(ctx.log \o lines)
      BY <2>5, LogKeeps
    <3> QED
      BY <1>2, <3>1, <3>2
<1>7. Cardinality(G) + Cardinality(F) = n
  <2>1. G = (1..n) \ F /\ (1..n) \cap F = F
    BY <1>1
  <2>2. IsFiniteSet(1..n) /\ Cardinality(1..n) = n
    BY <1>1, UpTo
  <2> HIDE DEF F, G
  <2>3. Cardinality((1..n) \ F) = Cardinality(1..n) - Cardinality((1..n) \cap F)
    <3> DEFINE E == 1..n
    <3> HIDE DEF E, n
    <3>1. IsFiniteSet(E)
      BY <2>2 DEF E
    <3>2. Cardinality(E \ F) = Cardinality(E) - Cardinality(E \cap F)
      BY <3>1, FS_Difference
    <3> QED
      BY <3>2 DEF E
  <2>4. Cardinality(G) = n - Cardinality(F)
    BY <2>1, <2>2, <2>3
  <2>5. n \in Int /\ Cardinality(F) \in Int
    BY <1>1, <1>3
  <2> HIDE DEF n
  <2> QED
    BY <2>4, <2>5
<1>8. ASSUME NEW i \in 1..n
      PROVE  LET Given(j) == outcomes[j] # Error
                 Place == Cardinality({j \in 1..i : Given(j) = Given(i)})
             IN  IF Given(i) THEN ordered[Place] = outcomes[i]
                 ELSE lines[Place] = AnalyzerUnavailable(config.analyzers[i])
  <2> DEFINE Given(j) == outcomes[j] # Error
             Same == {j \in 1..i : Given(j) = Given(i)}
  <2>1. CASE outcomes[i] # Error
    <3>1. Same = {j \in G : j <= i}
      BY <1>1, <2>1
    <3>2. i \in G
      BY <1>1, <2>1
    <3>3. ordered[PlaceOf(G, i)] = outcomes[i]
      BY <1>4, <3>2
    <3> HIDE DEF ordered, lines, G, Same
    <3> QED
      BY <2>1, <3>1, <3>3 DEF PlaceOf, Same
  <2>2. CASE outcomes[i] = Error
    <3>1. Same = {j \in F : j <= i}
      BY <1>1, <2>2
    <3>2. i \in F
      BY <1>1, <2>2
    <3>3. lines[PlaceOf(F, i)] = AnalyzerUnavailable(config.analyzers[i])
      BY <1>3, <3>2
    <3> HIDE DEF ordered, lines, F, Same
    <3> QED
      BY <2>2, <3>1, <3>3 DEF PlaceOf, Same
  <2> QED
    BY <2>1, <2>2
<1>9. \A r \in ToSet(ordered) : r.verdict \in Verdicts /\ r.score \in 0..100
  <2>1. \A i \in G : outcomes[i].verdict \in Verdicts /\ outcomes[i].score \in 0..100
    BY <1>1 DEF IsOutcome
  <2> HIDE DEF G, ordered
  <2> TAKE r \in ToSet(ordered)
  <2>2. PICK k \in 1..Cardinality(G) : r = ordered[k]
    BY <1>4 DEF ToSet
  <2>3. PICK i \in G : r = outcomes[i]
    BY <1>4, <2>2
  <2> QED
    BY <2>1, <2>3
<1>10. /\ \A r \in ToSet(ordered) : /\ verdictRank(r.verdict) <= verdictRank(ThreatVerdict')
                                    /\ r.score <= ThreatScore'
       /\ ordered # <<>> => \E r \in ToSet(ordered) : r.verdict = ThreatVerdict'
  <2> DEFINE verdicts == {r.verdict : r \in ToSet(ordered)}
             scores == {0} \union {r.score : r \in ToSet(ordered)}
  <2>1. ThreatVerdict' = IF verdicts = {} THEN "unknown"
                         ELSE CHOOSE v \in verdicts : \A w \in verdicts : verdictRank(w) <= verdictRank(v)
    BY <1>2 DEF ThreatVerdict
  <2>2. ThreatScore' = Max(scores)
    BY <1>2 DEF ThreatScore
  <2>3. verdicts \in SUBSET Verdicts /\ scores \in SUBSET (0..100) /\ scores # {}
    BY <1>9
  <2>4. \A x \in scores : x <= Max(scores)
    <3> HIDE DEF scores
    <3> QED
      BY <2>3, HighestScore
  <2>5. verdicts # {} => /\ ThreatVerdict' \in verdicts
                         /\ \A w \in verdicts : verdictRank(w) <= verdictRank(ThreatVerdict')
    <3> HIDE DEF verdicts
    <3> QED
      BY <2>1, <2>3, WorstVerdict
  <2>6. ordered # <<>> => verdicts # {}
    <3> SUFFICES ASSUME ordered # <<>> PROVE verdicts # {}
      OBVIOUS
    <3>1. Cardinality(G) # 0
      <4> SUFFICES ASSUME Cardinality(G) = 0 PROVE ordered = <<>>
        OBVIOUS
      <4>1. ordered = [k \in DOMAIN ordered |-> ordered[k]]
        BY DEF Those
      <4> HIDE DEF ordered
      <4> QED
        BY <1>4, <4>1
    <3>2. 1 \in DOMAIN ordered
      BY <1>4, <3>1
    <3> QED
      BY <3>2 DEF ToSet
  <2> QED
    BY <2>2, <2>4, <2>5, <2>6
<1>11. DOMAIN config.analyzers = 1..n
  BY <1>1
<1> HIDE DEF ordered, lines, named, n, F, G
<1>12. /\ Len(ordered) + Len(lines) = n
  BY <1>1, <1>3, <1>4, <1>5, <1>7
<1> QED
  BY <1>2, <1>6, <1>8, <1>10, <1>11, <1>12 DEF AnalysisInOrder, named, n

\* apply begins with an empty context, and reads the outcomes of the analyzers
\* only when each of them has one.
LEMMA ScanInitially == (InitScan \/ IdleScan) => ScanInv
<1>1. CASE InitScan
  <2>1. config.analyzers \in Seq(STRING)
    BY <1>1, ScanningAssumption DEF InitScan
  <2>2. OutcomesInv
    BY <1>1, <2>1 DEF InitScan, OutcomesInv
  <2>3. ContextInv
    BY <1>1 DEF InitScan, ContextInv, NewMessageContext
  <2>4. CleanMeansScanned
    BY <1>1 DEF InitScan, CleanMeansScanned, NewMessageContext
  <2>5. AnalysisInOrder
    BY <1>1 DEF InitScan, AnalysisInOrder
  <2> QED
    BY <2>2, <2>3, <2>4, <2>5 DEF ScanInv
<1>2. CASE IdleScan
  <2>1. OutcomesInv
    BY <1>2 DEF IdleScan, OutcomesInv
  <2>2. ContextInv
    BY <1>2 DEF IdleScan, ContextInv, NewMessageContext
  <2>3. CleanMeansScanned
    BY <1>2 DEF IdleScan, CleanMeansScanned, NewMessageContext
  <2>4. AnalysisInOrder
    BY <1>2 DEF IdleScan, AnalysisInOrder
  <2> QED
    BY <2>1, <2>2, <2>3, <2>4 DEF ScanInv
<1> QED
  BY <1>1, <1>2

\* A step that leaves the scan alone.
LEMMA ScanUnchanged ==
  ASSUME ScanInv, UNCHANGED scanVars
  PROVE  ScanInv'
<1> USE DEF scanVars
<1>1. OutcomesInv'
  BY DEF ScanInv, OutcomesInv
<1>2. ContextInv'
  BY DEF ScanInv, ContextInv
<1>3. CleanMeansScanned'
  BY DEF ScanInv, CleanMeansScanned
<1>4. ThreatVerdict' = ThreatVerdict /\ ThreatScore' = ThreatScore
  BY DEF ThreatVerdict, ThreatScore
<1>5. AnalysisInOrder'
  BY <1>4 DEF ScanInv, AnalysisInOrder
<1> QED
  BY <1>1, <1>2, <1>3, <1>5 DEF ScanInv

LEMMA ScanPreserved ==
  ASSUME ScanInv, NextScan
  PROVE  ScanInv'
<1> USE DEF ScanInv
<1>1. CASE buildRuntime
  <2> USE <1>1 DEF buildRuntime
  <2>1. OutcomesInv'
    BY DEF OutcomesInv
  <2>2. ContextInv'
    BY DEF ContextInv
  <2>3. CleanMeansScanned'
    BY DEF ContextInv, CleanMeansScanned, NewMessageContext
  <2>4. AnalysisInOrder'
    BY DEF AnalysisInOrder
  <2> QED
    BY <2>1, <2>2, <2>3, <2>4
<1>2. CASE ScanClamAV
  <2> USE <1>2 DEF ScanClamAV
  <2>1. OutcomesInv'
    BY DEF OutcomesInv
  <2>2. ctx = NewMessageContext
    BY DEF ContextInv
  <2>3. Equipped = [NewMessageContext EXCEPT !.resolver = Equipped.resolver]
    BY <2>2 DEF Equipped, NewMessageContext
  <2>4. CASE ~config.clamav
    <3>1. ctx' = Equipped /\ clamdSaid' = clamdSaid /\ config' = config
      BY <2>4
    <3>2. ContextInv'
      <4>1. <<>> \in Seq(ScannerLines)
        BY Begun DEF ScannerLines
      <4> QED
        BY <2>3, <3>1, <4>1 DEF ContextInv, NewMessageContext
    <3>3. CleanMeansScanned'
      BY <2>3, <2>4, <3>1 DEF CleanMeansScanned, NewMessageContext
    <3> QED
      BY <2>1, <3>2, <3>3 DEF AnalysisInOrder
  <2>5. CASE config.clamav
    <3>1. PICK reply : /\ reply # Failed => "clamav" \notin oversized
                       /\ clamdSaid' = reply
                       /\ ctx' = IF (IF reply = Failed THEN Failed ELSE parseClamdReply(reply)) = Failed
                                 THEN Log([Equipped EXCEPT !.virusStatus = "unknown"], Unavailable("clamav"))
                                 ELSE [Equipped EXCEPT
                                         !.virusStatus = IF reply = Failed THEN Failed ELSE parseClamdReply(reply),
                                         !.avAvailable = TRUE]
      BY <2>5
    <3>2. CASE (IF reply = Failed THEN Failed ELSE parseClamdReply(reply)) = Failed
      <4>1. ctx' = [Equipped EXCEPT !.virusStatus = "unknown",
                                    !.log = Append(<<>>, Unavailable("clamav"))]
        BY <2>3, <3>1, <3>2 DEF Log, NewMessageContext
      <4>2. Unavailable("clamav") \in ScannerLines
        BY DEF ScannerLines
      <4>3. Append(<<>>, Unavailable("clamav")) \in Seq(ScannerLines)
        BY <4>2, Begun
      <4>4. Unavailable("clamav") \in ToSet(Append(<<>>, Unavailable("clamav")))
        BY <4>2, Begun
      <4> HIDE DEF ScanClamAV
      <4>5. ContextInv'
        BY <1>2, <2>3, <4>1, <4>3 DEF ScanClamAV, ContextInv, NewMessageContext
      <4>6. /\ ctx'.virusStatus = "unknown" /\ ctx'.avAvailable = FALSE
            /\ ctx'.log = Append(<<>>, Unavailable("clamav"))
        BY <2>3, <4>1 DEF NewMessageContext
      <4>7. CleanMeansScanned'
        BY <4>4, <4>6 DEF CleanMeansScanned
      <4> QED
        BY <1>2, <2>1, <4>5, <4>7 DEF ScanClamAV, AnalysisInOrder
    <3>3. CASE (IF reply = Failed THEN Failed ELSE parseClamdReply(reply)) # Failed
      <4>1. ctx' = [Equipped EXCEPT !.virusStatus = parseClamdReply(reply), !.avAvailable = TRUE]
        BY <3>1, <3>3
      <4>2. /\ reply # Failed /\ "clamav" \notin oversized
            /\ \/ reply = "OK" /\ parseClamdReply(reply) = "clean"
               \/ reply = "FOUND" /\ parseClamdReply(reply) = "infected"
        BY <3>1, <3>3 DEF parseClamdReply
      <4> HIDE DEF ScanClamAV
      <4>3. ContextInv'
        <5>1. <<>> \in Seq(ScannerLines)
          BY Begun DEF ScannerLines
        <5> QED
          BY <1>2, <2>3, <4>1, <5>1 DEF ScanClamAV, ContextInv, NewMessageContext
      <4>4. ctx'.virusStatus = parseClamdReply(reply) /\ ctx'.avAvailable = TRUE
        BY <2>3, <4>1 DEF NewMessageContext
      <4>5. config' = config /\ oversized' = oversized
        BY <1>2 DEF ScanClamAV
      <4>6. CleanMeansScanned'
        BY <2>5, <3>1, <4>2, <4>4, <4>5 DEF CleanMeansScanned
      <4> QED
        BY <1>2, <2>1, <4>3, <4>6 DEF ScanClamAV, AnalysisInOrder
    <3> QED
      BY <3>2, <3>3
  <2> QED
    BY <2>4, <2>5
<1>3. CASE ScanYARA
  <2>1. /\ scan = "yara" /\ scan' = "analyzers" /\ config' = config /\ oversized' = oversized
        /\ clamdSaid' = clamdSaid /\ outcomes' = [i \in DOMAIN config.analyzers |-> NoOutcome]
    BY <1>3 DEF ScanYARA
  <2>2. OutcomesInv'
    <3>1. config.analyzers \in Seq(STRING)
      BY <2>1 DEF OutcomesInv
    <3>2. DOMAIN config.analyzers = 1..Len(config.analyzers)
      BY <3>1, LenProperties
    <3> QED
      BY <2>1, <3>1, <3>2 DEF OutcomesInv, IsOutcome
  <2>3. \/ ctx' = ctx
        \/ ctx' = Log(ctx, Unavailable("yara"))
        \/ \E answer : ctx' = [ctx EXCEPT !.yaraAvailable = TRUE, !.yaraMatches = uniqueTrimmed(answer)]
    BY <1>3 DEF ScanYARA
  <2>4. ctx.log \in Seq(ScannerLines)
    BY <2>1 DEF ContextInv
  <2>5. /\ ContextInv' /\ ToSet(ctx.log) \subseteq ToSet(ctx'.log)
        /\ ctx'.virusStatus = ctx.virusStatus /\ ctx'.avAvailable = ctx.avAvailable
    <3>1. CASE ctx' = ctx
      BY <2>1, <2>4, <3>1 DEF ContextInv
    <3>2. CASE ctx' = Log(ctx, Unavailable("yara"))
      <4>1. ctx' = [ctx EXCEPT !.log = Append(ctx.log, Unavailable("yara"))]
        BY <3>2 DEF Log
      <4>2. Append(ctx.log, Unavailable("yara")) \in Seq(ScannerLines)
        BY <2>4, AppendProperties DEF ScannerLines
      <4>3. Append(ctx.log, Unavailable("yara")) = ctx.log \o <<Unavailable("yara")>>
        BY <2>4, AppendIsConcat DEF ScannerLines
      <4>4. <<Unavailable("yara")>> \in Seq(ScannerLines)
        BY DEF ScannerLines
      <4>5. ToSet(ctx.log) \subseteq ToSet(Append(ctx.log, Unavailable("yara")))
        BY <2>4, <4>3, <4>4, LogKeeps
      <4> QED
        BY <2>1, <4>1, <4>2, <4>5 DEF ContextInv
    <3>3. ASSUME NEW answer,
                 ctx' = [ctx EXCEPT !.yaraAvailable = TRUE, !.yaraMatches = uniqueTrimmed(answer)]
          PROVE  /\ ContextInv' /\ ToSet(ctx.log) \subseteq ToSet(ctx'.log)
                 /\ ctx'.virusStatus = ctx.virusStatus /\ ctx'.avAvailable = ctx.avAvailable
      BY <2>1, <2>4, <3>3 DEF ContextInv
    <3> QED
      BY <2>3, <3>1, <3>2, <3>3
  <2>6. CleanMeansScanned'
    BY <2>1, <2>5 DEF CleanMeansScanned
  <2> QED
    BY <2>1, <2>2, <2>5, <2>6 DEF AnalysisInOrder
<1>4. ASSUME NEW i \in DOMAIN outcomes, analyze(i)
      PROVE  ScanInv'
  <2>1. /\ scan = "analyzers" /\ scan' = scan /\ config' = config /\ oversized' = oversized
        /\ clamdSaid' = clamdSaid /\ ctx' = ctx
    BY <1>4 DEF analyze
  <2>2. PICK answer : outcomes' = [outcomes EXCEPT ![i] =
                        IF answer = Failed THEN Error
                        ELSE normalizeAnalyzerResult(config.analyzers[i], answer)]
    BY <1>4 DEF analyze
  <2>3. IsOutcome(IF answer = Failed THEN Error
                  ELSE normalizeAnalyzerResult(config.analyzers[i], answer))
    BY DEF IsOutcome, normalizeAnalyzerResult, Error
  <2>4. OutcomesInv'
    BY <2>1, <2>2, <2>3 DEF OutcomesInv
  <2>5. ContextInv' /\ CleanMeansScanned'
    BY <2>1 DEF ContextInv, CleanMeansScanned
  <2> QED
    BY <2>1, <2>4, <2>5 DEF AnalysisInOrder
<1>5. CASE applyAnalyzers
  <2>1. AnalysisInOrder' /\ ToSet(ctx.log) \subseteq ToSet(ctx'.log)
    BY <1>5, AppliedInOrder
  <2>2. /\ scan = "analyzers" /\ scan' = "done" /\ UNCHANGED <<config, oversized, outcomes, clamdSaid>>
    BY <1>5 DEF applyAnalyzers
  <2>3. OutcomesInv'
    BY <2>2 DEF OutcomesInv
  <2>4. ContextInv'
    BY <1>5, <2>2 DEF ContextInv, applyAnalyzers
  <2>5. ctx'.virusStatus = ctx.virusStatus /\ ctx'.avAvailable = ctx.avAvailable
    BY <1>5 DEF ContextInv, applyAnalyzers
  <2>6. CleanMeansScanned'
    BY <2>1, <2>2, <2>5 DEF CleanMeansScanned
  <2> QED
    BY <2>1, <2>3, <2>4, <2>6
<1> QED
  BY <1>1, <1>2, <1>3, <1>4, <1>5 DEF NextScan

\* What the policy is told is what was found (apply, parseClamdReply,
\* applyAnalyzers, ThreatVerdict, ThreatScore), whatever the scanners and analyzers
\* are and in whatever order the analyzers finish.
THEOREM AnalysisHonest == Spec => []AnalysisIsHonest
<1>1. Init => ScanInv
  BY ScanInitially DEF Init
<1>2. ScanInv /\ [Next]_vars => ScanInv'
  <2> SUFFICES ASSUME ScanInv, [Next]_vars PROVE ScanInv'
    OBVIOUS
  <2>1. CASE NextScan
    BY <2>1, ScanPreserved
  <2>2. CASE UNCHANGED scanVars
    BY <2>2, ScanUnchanged
  <2> QED
    BY <2>1, <2>2 DEF Next, runInspect, vars
<1>3. ScanInv => AnalysisIsHonest
  BY DEF ScanInv, AnalysisIsHonest
<1> QED
  BY <1>1, <1>2, <1>3, PTL DEF Spec

(***************************************************************************)
(* Header findings: what each check finds is a sequence of findings with a     *)
(* severity.                                                                *)
(***************************************************************************)
HaveSeverity(T) == \A f \in T : f.severity \in ToSet(Severities)

Reported(s) == s \in Seq(ToSet(s)) /\ HaveSeverity(ToSet(s))

\* Every severity has a rank.
LEMMA Severe ==
  /\ "info" \in ToSet(Severities) /\ "low" \in ToSet(Severities)
  /\ "medium" \in ToSet(Severities) /\ "high" \in ToSet(Severities)
  /\ "critical" \in ToSet(Severities)
  /\ \A s \in ToSet(Severities) : severityRank(s) \in 1..5
<1>1. DOMAIN Severities = 1..5
  BY DEF Severities
<1>2. ASSUME NEW s \in ToSet(Severities) PROVE severityRank(s) \in 1..5
  <2>1. \E i \in DOMAIN Severities : Severities[i] = s
    BY DEF ToSet
  <2> QED
    BY <1>1, <2>1 DEF severityRank
<1>3. ToSet(Severities) = {Severities[i] : i \in 1..5}
  BY <1>1 DEF ToSet
<1>4. {Severities[i] : i \in 1..5} = {"info", "low", "medium", "high", "critical"}
  BY DEF Severities
<1> QED
  BY <1>2, <1>3, <1>4

\* A sequence of what has a severity.
LEMMA ReportedIn ==
  ASSUME NEW T, HaveSeverity(T), NEW s \in Seq(T)
  PROVE  Reported(s)
<1>1. Len(s) \in Nat /\ s \in [1..Len(s) -> T] /\ DOMAIN s = 1..Len(s)
  BY LenProperties
<1>2. ToSet(s) \subseteq T
  BY <1>1 DEF ToSet
<1>3. s \in [1..Len(s) -> ToSet(s)]
  BY <1>1 DEF ToSet
<1>4. s \in Seq(ToSet(s))
  BY <1>1, <1>3, SeqDef
<1> QED
  BY <1>2, <1>4 DEF Reported, HaveSeverity

\* Two reports, one after the other.
LEMMA Then ==
  ASSUME NEW s, NEW t, Reported(s), Reported(t)
  PROVE  Reported(s \o t)
<1> DEFINE T == ToSet(s) \union ToSet(t)
<1>1. s \in Seq(T) /\ t \in Seq(T)
  BY SeqMonotonic DEF Reported
<1>2. HaveSeverity(T)
  BY DEF Reported, HaveSeverity
<1> HIDE DEF T
<1>3. s \o t \in Seq(T)
  BY <1>1, ConcatProperties
<1> QED
  BY <1>2, <1>3, ReportedIn

\* A finding alone, and one that there is when a condition holds.
LEMMA Told ==
  ASSUME NEW code, NEW severity \in ToSet(Severities), NEW header
  PROVE  /\ Reported(<<>>)
         /\ Reported(<<Finding(code, severity, header)>>)
         /\ \A condition \in BOOLEAN : Reported(When(condition, code, severity, header))
<1> DEFINE f == Finding(code, severity, header)
           T == {f}
<1>1. HaveSeverity(T)
  BY DEF HaveSeverity, Finding
<1>2. f \in T
  OBVIOUS
<1> HIDE DEF f, T
<1>3. <<f>> \in Seq(T) /\ <<>> \in Seq(T)
  BY <1>2
<1>4. Reported(<<f>>) /\ Reported(<<>>)
  BY <1>1, <1>3, ReportedIn
<1> QED
  BY <1>4 DEF When, f

\* Checks that look at fields one by one.
LEMMA FieldFindingsReported ==
  ASSUME NEW h
  PROVE  Reported(FieldFindings(h))
<1>1. CASE h.name = ""
  BY <1>1, Told, Severe DEF FieldFindings
<1>2. CASE h.name # ""
  <2> DEFINE K == {f \in ToSet(FieldDefects) : f.code \in h.defects}
             found == Those(FieldDefects, K)
             T == {[e EXCEPT !.header = h.name] : e \in ToSet(FieldDefects)}
             named == [i \in DOMAIN found |-> [found[i] EXCEPT !.header = h.name]]
  <2>1. DOMAIN FieldDefects = 1..6
    BY DEF FieldDefects
  <2>2. ASSUME NEW e \in ToSet(FieldDefects)
        PROVE  [e EXCEPT !.header = h.name].severity \in ToSet(Severities)
    <3>1. PICK i \in 1..6 : e = FieldDefects[i]
      BY <2>1 DEF ToSet
    <3>2. CASE i = 1
      <4>1. e = [code |-> "HDR_NAME_INVALID", severity |-> "high", header |-> ""]
        BY <3>1, <3>2 DEF FieldDefects, Finding
      <4> QED
        BY <4>1, Severe
    <3>3. CASE i = 2
      <4>1. e = [code |-> "HDR_INJECTION", severity |-> "critical", header |-> ""]
        BY <3>1, <3>3 DEF FieldDefects, Finding
      <4> QED
        BY <4>1, Severe
    <3>4. CASE i = 3
      <4>1. e = [code |-> "HDR_LINE_TOO_LONG", severity |-> "low", header |-> ""]
        BY <3>1, <3>4 DEF FieldDefects, Finding
      <4> QED
        BY <4>1, Severe
    <3>5. CASE i = 4
      <4>1. e = [code |-> "HDR_8BIT_UNENCODED", severity |-> "medium", header |-> ""]
        BY <3>1, <3>5 DEF FieldDefects, Finding
      <4> QED
        BY <4>1, Severe
    <3>6. CASE i = 5
      <4>1. e = [code |-> "HDR_INVALID_UTF8", severity |-> "medium", header |-> ""]
        BY <3>1, <3>6 DEF FieldDefects, Finding
      <4> QED
        BY <4>1, Severe
    <3>7. CASE i = 6
      <4>1. e = [code |-> "HDR_2047_MALFORMED", severity |-> "low", header |-> ""]
        BY <3>1, <3>7 DEF FieldDefects, Finding
      <4> QED
        BY <4>1, Severe
    <3> QED
      BY <3>1, <3>2, <3>3, <3>4, <3>5, <3>6, <3>7
  <2>3. HaveSeverity(T)
    BY <2>2 DEF HaveSeverity
  <2>4. FieldDefects \in Seq(ToSet(FieldDefects))
    <3>1. FieldDefects = [i \in 1..6 |-> FieldDefects[i]]
      BY DEF FieldDefects
    <3>2. FieldDefects \in [1..6 -> ToSet(FieldDefects)]
      BY <2>1, <3>1 DEF ToSet
    <3> QED
      BY <3>2, SeqDef
  <2>5. found \in Seq(ToSet(FieldDefects))
    BY <2>4, ThoseType
  <2> HIDE DEF found
  <2>6. /\ Len(found) \in Nat /\ DOMAIN found = 1..Len(found)
        /\ \A i \in 1..Len(found) : found[i] \in ToSet(FieldDefects)
    BY <2>5, LenProperties, ElementOfSeq
  <2>7. named \in [1..Len(found) -> T]
    BY <2>6
  <2> HIDE DEF T
  <2>8. named \in Seq(T)
    BY <2>6, <2>7, SeqDef
  <2>9. Reported(named)
    BY <2>3, <2>8, ReportedIn
  <2> QED
    BY <1>2, <2>9 DEF FieldFindings, found
<1> QED
  BY <1>1, <1>2

LEMMA FieldsFindingsReported ==
  ASSUME NEW X, NEW fields \in Seq(X)
  PROVE  Reported(FieldsFindings(fields))
<1> DEFINE len == Len(fields)
           T == UNION {ToSet(FieldFindings(fields[n])) : n \in 1..len}
           A == Seq(T)
           step == [x \in A \X (1..len) |-> x[1] \o FieldFindings(fields[x[2]])]
           Runs(g) == g = [n \in 0..len |-> IF n = 0 THEN <<>>
                                            ELSE g[n - 1] \o FieldFindings(fields[n])]
           found == CHOOSE g : Runs(g)
<1>1. len \in Nat
  BY LenProperties
<1>2. HaveSeverity(T)
  BY FieldFindingsReported DEF Reported, HaveSeverity
<1>3. ASSUME NEW n \in 1..len PROVE FieldFindings(fields[n]) \in A
  <2>1. ToSet(FieldFindings(fields[n])) \subseteq T
    OBVIOUS
  <2>2. FieldFindings(fields[n]) \in Seq(ToSet(FieldFindings(fields[n])))
    BY FieldFindingsReported DEF Reported
  <2> HIDE DEF T
  <2> QED
    BY <2>1, <2>2, SeqMonotonic
<1> HIDE DEF T
<1>4. <<>> \in A /\ \A s \in A, n \in 1..len : s \o FieldFindings(fields[n]) \in A
  BY <1>3, EmptySeq, ConcatProperties
<1>5. step \in [A \X (1..len) -> A]
  BY <1>4
<1>6. \E g : Runs(g)
  <2> HIDE DEF A, step, len
  <2>1. PICK g \in [0..len -> A] : g[0] = <<>> /\ \A n \in 1..len : g[n] = step[<<g[n - 1], n>>]
    <3>1. <<>> \in A
      BY <1>4
    <3>2. HasRun(A, <<>>, len, step)
      BY <1>1, <1>5, <3>1, Recursion
    <3> QED
      BY <3>2 DEF HasRun
  <2>2. \A n \in 1..len : step[<<g[n - 1], n>>] = g[n - 1] \o FieldFindings(fields[n])
    <3> TAKE n \in 1..len
    <3>1. g[n - 1] \in A
      BY <1>1, <2>1
    <3> QED
      BY <3>1 DEF step
  <2>3. \A n \in 0..len : g[n] = IF n = 0 THEN <<>> ELSE g[n - 1] \o FieldFindings(fields[n])
    <3> TAKE n \in 0..len
    <3>1. n # 0 => n \in 1..len
      BY <1>1
    <3> QED
      BY <2>1, <2>2, <3>1
  <2>4. DOMAIN g = 0..len /\ g = [n \in 0..len |-> g[n]]
    BY <2>1
  <2> QED
    BY <2>3, <2>4
<1>7. Runs(found)
  BY <1>6
<1> HIDE DEF found, A
<1> DEFINE S == {n \in Nat : n <= len => found[n] \in A}
<1>8. 0 \in S
  BY <1>1, <1>4, <1>7
<1>9. ASSUME NEW n \in S PROVE n + 1 \in S
  <2> SUFFICES ASSUME n + 1 <= len PROVE found[n + 1] \in A
    OBVIOUS
  <2>1. found[n + 1] = found[n] \o FieldFindings(fields[n + 1])
    <3>1. n + 1 \in 0..len /\ n + 1 # 0 /\ (n + 1) - 1 = n
      BY <1>1
    <3> QED
      BY <1>7, <3>1
  <2>2. found[n] \in A /\ n + 1 \in 1..len
    BY <1>1
  <2> QED
    BY <1>4, <2>1, <2>2
<1> HIDE DEF S
<1>10. S = Nat
  <2>1. S \in SUBSET Nat
    BY DEF S
  <2> QED
    BY <1>8, <1>9, <2>1, SetInduction
<1>11. len \in S
  BY <1>1, <1>10
<1>12. found[len] \in Seq(T)
  BY <1>1, <1>11 DEF S, A
<1>13. Reported(found[len])
  BY <1>2, <1>12, ReportedIn
<1> QED
  BY <1>13 DEF FieldsFindings, found

LEMMA ChecksReported ==
  ASSUME NEW m, IsMessage(m)
  PROVE  /\ Reported(checkStructure(m)) /\ Reported(checkRequiredFields(m))
         /\ Reported(checkSpoofing(m)) /\ Reported(checkDate(m))
         /\ Reported(checkMessageID(m)) /\ Reported(checkMIME(m))
         /\ Reported(checkReceivedChain(m)) /\ Reported(checkAuthentication(m))
<1>1. Reported(checkStructure(m))
  <2> DEFINE a == When("count" \in m.excess, "HDR_COUNT_EXCESSIVE", "low", "")
             b == When("size" \in m.excess, "HDR_SIZE_EXCESSIVE", "low", "")
             c == FieldsFindings(m.fields)
  <2>1. Reported(a) /\ Reported(b)
    BY Told, Severe DEF When
  <2>2. Reported(c)
    BY FieldsFindingsReported DEF IsMessage
  <2> HIDE DEF a, b, c
  <2>3. Reported(a \o b \o c)
    BY <2>1, <2>2, Then
  <2> QED
    BY <2>3 DEF checkStructure, a, b, c
<1>2. Reported(checkRequiredFields(m))
  <2> DEFINE a == When(~Has(m, "From"), "HDR_FROM_MISSING", "high", "From")
             b == When(~Has(m, "Date"), "HDR_DATE_MISSING", "medium", "Date")
             c == When(~Has(m, "Message-ID"), "HDR_MSGID_MISSING", "low", "Message-ID")
             d == When("control" \in m.subject, "HDR_SUBJECT_CONTROL", "medium", "Subject")
             e == When("long" \in m.subject, "HDR_SUBJECT_TOO_LONG", "low", "Subject")
  <2>1. Reported(a) /\ Reported(b) /\ Reported(c) /\ Reported(d) /\ Reported(e)
    BY Told, Severe DEF When
  <2> HIDE DEF a, b, c, d, e
  <2>2. Reported(a \o b \o c \o d \o e)
    BY <2>1, Then
  <2> QED
    BY <2>2 DEF checkRequiredFields, a, b, c, d, e
<1>3. Reported(checkSpoofing(m))
  <2> DEFINE from == m.from[1]
             a == When(from.claims # "",
                       "SPOOF_DISPLAY_NAME_ADDR",
                       IF SameOrgDomain(from.claims, from.domain) THEN "medium" ELSE "high",
                       "From")
             b == When("name" \in from.mixed, "SPOOF_DISPLAY_NAME_MIXED_SCRIPT", "medium",
                       "From")
             c == When("domain" \in from.mixed, "SPOOF_DOMAIN_MIXED_SCRIPT", "high", "From")
             d == When(Unrelated(m.replyTo, from.domain), "SPOOF_REPLYTO_MISMATCH", "medium",
                       "Reply-To")
             e == When(Unrelated(m.envelope, from.domain) /\ ~isListMail(m),
                       "SPOOF_ENVELOPE_MISMATCH", "low", "From")
             f == When(Unrelated(m.sender, from.domain), "SPOOF_SENDER_MISMATCH", "low",
                       "Sender")
             g == When(Len(m.from) > 1, "SPOOF_MULTIPLE_FROM_ADDRS", "medium", "From")
  <2>1. /\ Reported(a) /\ Reported(b) /\ Reported(c) /\ Reported(d)
        /\ Reported(e) /\ Reported(f) /\ Reported(g)
    BY Told, Severe DEF When
  <2> HIDE DEF a, b, c, d, e, f, g
  <2>2. Reported(a \o b \o c \o d \o e \o f \o g)
    BY <2>1, Then
  <2> QED
    BY <2>2, Told, Severe DEF checkSpoofing, a, b, c, d, e, f, g
<1>4. Reported(checkDate(m))
  BY Told, Then, Severe DEF checkDate
<1>5. Reported(checkMessageID(m))
  BY Told, Then, Severe DEF checkMessageID
<1>6. Reported(checkMIME(m))
  BY Told, Then, Severe DEF checkMIME
<1>7. Reported(checkReceivedChain(m))
  <2> DEFINE hops == m.hops
             a == When("hops" \in m.excess, "RCVD_EXCESSIVE", "low", "Received")
             b == When(TimeReversed(hops), "RCVD_TIME_REVERSED", "medium", "Received")
             c == When(Last(hops).private /\ Len(hops) > 1, "RCVD_PRIVATE_ORIGIN", "low",
                       "Received")
             d == When(\A i \in DOMAIN hops : ~hops[i].parsed, "RCVD_UNPARSEABLE", "low",
                       "Received")
  <2>1. Reported(a) /\ Reported(b) /\ Reported(c) /\ Reported(d)
    BY Told, Severe DEF When
  <2> HIDE DEF a, b, c, d
  <2>2. Reported(a \o b \o c \o d)
    BY <2>1, Then
  <2> QED
    BY <2>2, Told, Severe DEF checkReceivedChain, a, b, c, d
<1>8. Reported(checkAuthentication(m))
  <2> DEFINE ar == m.auth
             header == "Authentication-Results"
             a == When(ar.spf = "fail", "AUTH_SPF_FAIL", "high", header)
             b == When(ar.spf = "softfail", "AUTH_SPF_SOFTFAIL", "low", header)
             c == When(ar.spf \in {"permerror", "temperror"}, "AUTH_SPF_ERROR", "low", header)
             d == When(ar.dkim = "fail", "AUTH_DKIM_FAIL", "medium", header)
             e == When(ar.signed /\ ar.dkim = "", "AUTH_DKIM_UNVERIFIED", "info",
                       "DKIM-Signature")
             f == When(ar.dmarc = "fail", "AUTH_DMARC_FAIL",
                       IF ar.policy = "none" THEN "medium" ELSE "high", header)
             g == When(ar.dmarc \notin {"fail", "pass"} /\ ar.spf = "pass" /\ ~ar.aligned,
                       "AUTH_NO_ALIGNMENT", "medium", "")
  <2>1. /\ Reported(a) /\ Reported(b) /\ Reported(c) /\ Reported(d)
        /\ Reported(e) /\ Reported(f) /\ Reported(g)
    BY Told, Severe DEF When
  <2> HIDE DEF a, b, c, d, e, f, g
  <2>2. Reported(a \o b \o c \o d \o e \o f \o g)
    BY <2>1, Then
  <2> QED
    BY <2>2, Told, Severe DEF checkAuthentication, a, b, c, d, e, f, g
<1> QED
  BY <1>1, <1>2, <1>3, <1>4, <1>5, <1>6, <1>7, <1>8

\* A report on each of some things.
LEMMA EachReported ==
  ASSUME NEW s, HaveSeverity(ToSet(s)), NEW n \in Nat, s = [i \in 1..n |-> s[i]]
  PROVE  Reported(s)
<1>1. s \in [1..n -> ToSet(s)]
  BY DEF ToSet
<1>2. s \in Seq(ToSet(s))
  BY <1>1, SeqDef
<1> QED
  BY <1>2 DEF Reported

LEMMA DuplicatesReported == \A m : Reported(checkDuplicates(m))
<1> TAKE m
<1> DEFINE K == {name \in ToSet(singletonHeaders) : Count(m, name) > 1}
           twice == Those(singletonHeaders, K)
           n == Cardinality(Places(singletonHeaders, K))
           s == checkDuplicates(m)
<1>1. n \in Nat /\ DOMAIN twice = 1..n
  <2> DEFINE len == 14
  <2>1. DOMAIN singletonHeaders = 1..len /\ len \in Nat
    BY DEF singletonHeaders
  <2> HIDE DEF K, len
  <2> QED
    BY <2>1, ThoseAt
<1> HIDE DEF twice, n
<1>2. s = [i \in 1..n |->
             Finding("HDR_DUP",
                     IF twice[i] \in {"From", "Sender", "Reply-To"} THEN "high" ELSE "medium",
                     twice[i])]
  BY <1>1 DEF checkDuplicates, twice
<1>3. s = [i \in 1..n |-> s[i]]
  BY <1>2
<1>4. ASSUME NEW i \in 1..n PROVE s[i].severity \in ToSet(Severities)
  BY <1>2, Severe DEF Finding
<1> HIDE DEF s
<1>5. HaveSeverity(ToSet(s))
  BY <1>3, <1>4 DEF HaveSeverity, ToSet
<1>6. Reported(s)
  BY <1>1, <1>3, <1>5, EachReported
<1> QED
  BY <1>6 DEF s

LEMMA AddressesReported ==
  ASSUME NEW m, IsMessage(m)
  PROVE  Reported(checkAddresses(m))
<1> DEFINE bad == Those(AddressFields, m.unparseable)
           K == {a \in ToSet(m.from) : a.domain = NoDomain}
           bare == Those(m.from, K)
           p == Cardinality(Places(AddressFields, m.unparseable))
           q == Cardinality(Places(m.from, K))
           s == [i \in DOMAIN bad |-> Finding("HDR_ADDR_INVALID", "medium", bad[i])]
           t == [i \in DOMAIN bare |-> Finding("HDR_FROM_NO_DOMAIN", "high", "From")]
<1>1. p \in Nat /\ DOMAIN bad = 1..p
  <2>1. PICK n : n = 6
    OBVIOUS
  <2>2. n \in Nat /\ DOMAIN AddressFields = 1..n
    BY <2>1 DEF AddressFields
  <2>3. PICK f, u : f = AddressFields /\ u = m.unparseable
    OBVIOUS
  <2>4. DOMAIN f = 1..n
    BY <2>2, <2>3
  <2>5. Cardinality(Places(f, u)) \in Nat /\ DOMAIN Those(f, u) = 1..Cardinality(Places(f, u))
    BY <2>2, <2>4, ThoseAt
  <2> QED
    BY <2>3, <2>5
<1>2. q \in Nat /\ DOMAIN bare = 1..q
  <2>1. Len(m.from) \in Nat /\ DOMAIN m.from = 1..Len(m.from)
    BY LenProperties DEF IsMessage
  <2> HIDE DEF K
  <2> QED
    BY <2>1, ThoseAt
<1> HIDE DEF bad, bare, p, q
<1>3. s = [i \in 1..p |-> s[i]] /\ t = [i \in 1..q |-> t[i]]
  BY <1>1, <1>2
<1>4. \A i \in 1..p : s[i].severity \in ToSet(Severities)
  BY <1>1, Severe DEF Finding
<1>5. \A i \in 1..q : t[i].severity \in ToSet(Severities)
  BY <1>2, Severe DEF Finding
<1> HIDE DEF s, t
<1>6. HaveSeverity(ToSet(s)) /\ HaveSeverity(ToSet(t))
  BY <1>3, <1>4, <1>5 DEF HaveSeverity, ToSet
<1>7. Reported(s) /\ Reported(t)
  BY <1>1, <1>2, <1>3, <1>6, EachReported
<1>8. Reported(s \o t)
  BY <1>7, Then
<1> QED
  BY <1>8 DEF checkAddresses, bad, bare, s, t

LEMMA DiscoveredReported ==
  ASSUME NEW m, IsMessage(m)
  PROVE  Reported(Discovered(m))
<1>1. /\ Reported(checkStructure(m)) /\ Reported(checkRequiredFields(m))
      /\ Reported(checkSpoofing(m)) /\ Reported(checkDate(m))
      /\ Reported(checkMessageID(m)) /\ Reported(checkMIME(m))
      /\ Reported(checkReceivedChain(m)) /\ Reported(checkAuthentication(m))
  BY ChecksReported
<1>2. Reported(checkDuplicates(m)) /\ Reported(checkAddresses(m))
  BY DuplicatesReported, AddressesReported
<1> QED
  BY <1>1, <1>2, Then DEF Discovered

(***************************************************************************)
(* The sort: a finding's place is the number of those ahead of it, itself      *)
(* among them.                                                              *)
(***************************************************************************)
Ranks(found) == [i \in 1..Len(found) |-> severityRank(found[i].severity)]

IsAhead(rank, i, j) == rank[i] > rank[j] \/ (rank[i] = rank[j] /\ i <= j)

PlaceIn(rank, n, i) == Cardinality({j \in 1..n : IsAhead(rank, j, i)})

\* s has the first n findings, each at its place.
SortedBy(s, found, rank, n) ==
  /\ DOMAIN s = 1..n
  /\ \A i \in 1..n : PlaceIn(rank, n, i) \in 1..n /\ s[PlaceIn(rank, n, i)] = found[i]
  /\ \A k \in 1..n : \E i \in 1..n : PlaceIn(rank, n, i) = k

\* Sets of numbers, one within the other.
LEMMA Smaller ==
  ASSUME NEW n \in Nat, NEW B \in SUBSET (1..n), NEW A \in SUBSET B
  PROVE  /\ Cardinality(A) \in Nat /\ Cardinality(B) \in 0..n
         /\ Cardinality(A) <= Cardinality(B)
         /\ \A x \in B \ A : Cardinality(A) + 1 <= Cardinality(B)
         /\ \A x \in (1..n) \ A : Cardinality(A \union {x}) = Cardinality(A) + 1
<1>1. IsFiniteSet(1..n) /\ Cardinality(1..n) = n
  BY UpTo
<1>2. IsFiniteSet(B) /\ Cardinality(B) <= n
  BY <1>1, FS_Subset
<1>3. /\ IsFiniteSet(A) /\ Cardinality(A) <= Cardinality(B)
      /\ Cardinality(B) = Cardinality(A) => B = A
  BY <1>2, FS_Subset
<1>4. Cardinality(A) \in Nat /\ Cardinality(B) \in Nat
  BY <1>2, <1>3, FS_CardinalityType
<1>5. \A x \in (1..n) \ A : Cardinality(A \union {x}) = Cardinality(A) + 1
  BY <1>3, FS_AddElement
<1> QED
  BY <1>2, <1>3, <1>4, <1>5

\* What is inserted leaves those ahead of it where they are, and moves the others
\* one on.
LEMMA PlacesAfter ==
  ASSUME NEW len \in Nat, NEW rank \in [1..len -> Nat], NEW n \in Nat, n + 1 <= len
  PROVE  LET c == PlaceIn(rank, n, n + 1)
         IN  /\ c \in 0..n /\ PlaceIn(rank, n + 1, n + 1) = c + 1
             /\ \A i \in 1..n :
                  /\ PlaceIn(rank, n, i) \in 1..n
                  /\ IsAhead(rank, i, n + 1) =>
                       PlaceIn(rank, n, i) <= c /\ PlaceIn(rank, n + 1, i) = PlaceIn(rank, n, i)
                  /\ ~IsAhead(rank, i, n + 1) =>
                       PlaceIn(rank, n, i) > c /\ PlaceIn(rank, n + 1, i) = PlaceIn(rank, n, i) + 1
<1> DEFINE C == {j \in 1..n : IsAhead(rank, j, n + 1)}
           N == n + 1
           c == PlaceIn(rank, n, N)
<1>1. N \in Nat /\ N \in 1..len /\ C \in SUBSET (1..n) /\ 1..N = (1..n) \union {N}
  OBVIOUS
<1>2. c = Cardinality(C) /\ c \in 0..n
  BY <1>1, Smaller DEF PlaceIn
<1>3. PlaceIn(rank, N, N) = c + 1
  <2>1. {j \in 1..N : IsAhead(rank, j, N)} = C \union {N}
    BY <1>1 DEF IsAhead
  <2>2. C \in SUBSET (1..N) /\ N \in (1..N) \ C
    OBVIOUS
  <2> HIDE DEF C, N
  <2>3. Cardinality(C \union {N}) = Cardinality(C) + 1
    BY <1>1, <2>2, Smaller
  <2> QED
    BY <1>2, <2>1, <2>3 DEF PlaceIn
<1>4. ASSUME NEW i \in 1..n
      PROVE  /\ PlaceIn(rank, n, i) \in 1..n
             /\ IsAhead(rank, i, N) =>
                  PlaceIn(rank, n, i) <= c /\ PlaceIn(rank, N, i) = PlaceIn(rank, n, i)
             /\ ~IsAhead(rank, i, N) =>
                  PlaceIn(rank, n, i) > c /\ PlaceIn(rank, N, i) = PlaceIn(rank, n, i) + 1
  <2> DEFINE I == {j \in 1..n : IsAhead(rank, j, i)}
             J == {j \in 1..N : IsAhead(rank, j, i)}
             E == {}
  <2>1. I \in SUBSET (1..n) /\ i \in I /\ PlaceIn(rank, n, i) = Cardinality(I)
    BY DEF PlaceIn, IsAhead
  <2>2. Cardinality(I) \in 1..n
    <3>1. E \in SUBSET I /\ i \in I \ E
      BY <2>1
    <3> HIDE DEF I, E
    <3>2. /\ Cardinality(E) \in Nat /\ Cardinality(I) \in 0..n
          /\ Cardinality(E) + 1 <= Cardinality(I)
      BY <2>1, <3>1, Smaller
    <3> QED
      BY <3>2
  <2>3. CASE IsAhead(rank, i, N)
    <3>1. I \in SUBSET C
      BY <1>1, <2>3 DEF IsAhead
    <3>2. J = I
      BY <1>1, <2>3 DEF IsAhead
    <3> HIDE DEF I, J, C
    <3>3. Cardinality(I) <= Cardinality(C)
      BY <1>1, <3>1, Smaller
    <3> QED
      BY <1>2, <2>1, <2>2, <2>3, <3>2, <3>3 DEF PlaceIn, J
  <2>4. CASE ~IsAhead(rank, i, N)
    <3>1. C \in SUBSET I /\ i \in I \ C
      BY <1>1, <2>1, <2>4 DEF IsAhead
    <3>2. J = I \union {N} /\ I \in SUBSET (1..N) /\ N \in (1..N) \ I
      BY <1>1, <2>4 DEF IsAhead
    <3> HIDE DEF I, J, C, N
    <3>3. Cardinality(C) + 1 <= Cardinality(I)
      BY <2>1, <3>1, Smaller
    <3>4. Cardinality(J) = Cardinality(I) + 1
      BY <1>1, <3>2, Smaller
    <3> QED
      BY <1>2, <2>1, <2>2, <2>4, <3>3, <3>4 DEF PlaceIn, J
  <2> QED
    BY <2>1, <2>2, <2>3, <2>4
<1> QED
  BY <1>2, <1>3, <1>4

\* A finding that is inserted among those before it goes to its place, and they
\* keep theirs.
LEMMA Inserted ==
  ASSUME NEW T, NEW found \in Seq(T), NEW rank \in [1..Len(found) -> Nat],
         rank = Ranks(found),
         NEW n \in Nat, n + 1 <= Len(found), NEW s \in Seq(T), SortedBy(s, found, rank, n)
  PROVE  /\ InsertFinding(s, found[n + 1]) \in Seq(T)
         /\ SortedBy(InsertFinding(s, found[n + 1]), found, rank, n + 1)
<1> DEFINE N == n + 1
           f == found[N]
           c == PlaceIn(rank, n, N)
           before == {i \in DOMAIN s : severityRank(s[i].severity) >= severityRank(f.severity)}
           head == SubSeq(s, 1, c)
           tail == SubSeq(s, c + 1, n)
           t == head \o <<f>> \o tail
           Place(i) == PlaceIn(rank, n, i)
           NewPlace(i) == PlaceIn(rank, N, i)
<1>1. Len(found) \in Nat /\ f \in T /\ N \in 1..Len(found)
  <2>1. Len(found) \in Nat /\ \A i \in 1..Len(found) : found[i] \in T
    BY LenProperties, ElementOfSeq
  <2> QED
    BY <2>1
<1>2. /\ c \in 0..n /\ NewPlace(N) = c + 1
      /\ \A i \in 1..n : /\ Place(i) \in 1..n
                         /\ IsAhead(rank, i, N) => Place(i) <= c /\ NewPlace(i) = Place(i)
                         /\ ~IsAhead(rank, i, N) => Place(i) > c /\ NewPlace(i) = Place(i) + 1
  BY <1>1, PlacesAfter
<1>3. /\ DOMAIN s = 1..n /\ Len(s) = n
      /\ \A i \in 1..n : s[Place(i)] = found[i]
      /\ \A k \in 1..n : \E i \in 1..n : Place(i) = k
  <2>1. DOMAIN s = 1..n /\ Len(s) \in Nat /\ DOMAIN s = 1..Len(s)
    BY LenProperties DEF SortedBy
  <2>2. Len(s) = n
    <3>1. \A k \in Nat : k \in 1..n <=> k \in 1..Len(s)
      BY <2>1
    <3>2. n <= Len(s) /\ Len(s) <= n
      <4>1. n = 0 \/ n \in 1..n
        OBVIOUS
      <4>2. Len(s) = 0 \/ Len(s) \in 1..Len(s)
        BY <2>1
      <4> QED
        BY <2>1, <3>1, <4>1, <4>2
    <3> QED
      BY <2>1, <3>2
  <2>3. /\ \A i \in 1..n : s[Place(i)] = found[i]
        /\ \A k \in 1..n : \E i \in 1..n : Place(i) = k
    BY DEF SortedBy
  <2> QED
    BY <2>1, <2>2, <2>3
<1>4. before = 1..c
  <2>1. ASSUME NEW k \in 1..n PROVE k \in before <=> k <= c
    <3>1. PICK i \in 1..n : Place(i) = k
      BY <1>3
    <3>2. s[k] = found[i]
      BY <1>3, <3>1
    <3>3. rank[i] = severityRank(found[i].severity) /\ rank[N] = severityRank(f.severity)
      BY <1>1 DEF Ranks
    <3>4. k \in before <=> rank[i] >= rank[N]
      BY <1>3, <3>2, <3>3
    <3>5. rank[i] >= rank[N] <=> IsAhead(rank, i, N)
      BY <1>1 DEF IsAhead
    <3> HIDE DEF before, Place, NewPlace, c
    <3> QED
      BY <1>2, <3>1, <3>4, <3>5
  <2>2. before \subseteq 1..n
    BY <1>3
  <2> HIDE DEF c, before
  <2>3. \A k \in 1..c : k \in 1..n /\ k <= c
    BY <1>2
  <2>4. \A k \in 1..n : k <= c => k \in 1..c
    BY <1>2
  <2> QED
    BY <2>1, <2>2, <2>3, <2>4
<1>5. InsertFinding(s, f) = t
  <2>1. Cardinality(before) = c
    <3> HIDE DEF before, c
    <3> QED
      BY <1>2, <1>4, UpTo
  <2> QED
    BY <1>3, <2>1 DEF InsertFinding
<1> HIDE DEF before, c, f
<1>6. /\ head \in Seq(T) /\ Len(head) = c /\ \A k \in 1..c : head[k] = s[k]
      /\ tail \in Seq(T) /\ Len(tail) = n - c /\ \A k \in 1..(n - c) : tail[k] = s[c + k]
  <2>1. \A i \in 1..n : s[i] \in T
    BY <1>3, ElementOfSeq
  <2>2. c \in Int /\ c + 1 \in Int /\ n \in Int /\ 1 \in Int
    BY <1>2
  <2>3. (\A i \in 1..c : s[i] \in T) /\ (\A i \in (c + 1)..n : s[i] \in T)
    BY <1>2, <2>1
  <2>4. /\ head \in Seq(T) /\ Len(head) = IF 1 <= c THEN c - 1 + 1 ELSE 0
        /\ \A k \in 1..(c - 1 + 1) : head[k] = s[1 + k - 1]
    BY <2>2, <2>3, SubSeqProperties
  <2>5. /\ tail \in Seq(T) /\ Len(tail) = IF c + 1 <= n THEN n - (c + 1) + 1 ELSE 0
        /\ \A k \in 1..(n - (c + 1) + 1) : tail[k] = s[(c + 1) + k - 1]
    BY <2>2, <2>3, SubSeqProperties
  <2> HIDE DEF head, tail
  <2>6. \A k \in 1..(n - c) : tail[k] = s[c + k]
    <3> TAKE k \in 1..(n - c)
    <3>1. k \in 1..(n - (c + 1) + 1) /\ (c + 1) + k - 1 = c + k
      BY <1>2
    <3> QED
      BY <2>5, <3>1
  <2>7. \A k \in 1..c : head[k] = s[k]
    <3> TAKE k \in 1..c
    <3>1. k \in 1..(c - 1 + 1) /\ 1 + k - 1 = k
      BY <1>2
    <3> QED
      BY <2>4, <3>1
  <2> QED
    BY <1>2, <2>4, <2>5, <2>6, <2>7
<1> HIDE DEF head, tail
<1>7. /\ t \in Seq(T) /\ Len(t) = N /\ DOMAIN t = 1..N
      /\ \A k \in 1..c : t[k] = s[k]
      /\ t[c + 1] = f
      /\ \A k \in (c + 1)..n : t[k + 1] = s[k]
  <2> DEFINE u == head \o <<f>>
  <2>1. <<f>> \in Seq(T) /\ Len(<<f>>) = 1 /\ <<f>>[1] = f
    BY <1>1
  <2>2. /\ u \in Seq(T) /\ Len(u) = c + 1
        /\ \A k \in 1..(c + 1) : u[k] = IF k <= c THEN head[k] ELSE <<f>>[k - c]
    BY <1>2, <1>6, <2>1, ConcatProperties
  <2>3. (\A k \in 1..c : u[k] = s[k]) /\ u[c + 1] = f
    <3>1. \A k \in 1..c : k \in 1..(c + 1) /\ k <= c
      BY <1>2
    <3>2. c + 1 \in 1..(c + 1) /\ ~(c + 1 <= c) /\ (c + 1) - c = 1
      BY <1>2
    <3> HIDE DEF u
    <3>3. u[c + 1] = <<f>>[1]
      BY <2>2, <3>2
    <3> QED
      BY <1>6, <2>1, <2>2, <3>1, <3>3
  <2> HIDE DEF u
  <2>4. /\ u \o tail \in Seq(T) /\ Len(u \o tail) = Len(u) + Len(tail)
        /\ \A k \in 1..(Len(u) + Len(tail)) :
             (u \o tail)[k] = IF k <= Len(u) THEN u[k] ELSE tail[k - Len(u)]
    <3>1. u \in Seq(T) /\ tail \in Seq(T)
      BY <1>6, <2>2
    <3> QED
      BY <3>1, ConcatProperties
  <2>5. t = u \o tail
    BY DEF u
  <2> HIDE DEF t
  <2>6. Len(t) = N /\ t \in Seq(T)
    <3>1. Len(u) + Len(tail) = N
      BY <1>2, <1>6, <2>2
    <3> QED
      BY <2>4, <2>5, <3>1
  <2>7. \A k \in 1..c : t[k] = s[k]
    BY <1>2, <1>6, <2>2, <2>3, <2>4, <2>5
  <2>8. t[c + 1] = f
    BY <1>2, <1>6, <2>2, <2>3, <2>4, <2>5
  <2>9. \A k \in (c + 1)..n : t[k + 1] = s[k]
    <3> TAKE k \in (c + 1)..n
    <3>1. k + 1 \in 1..(Len(u) + Len(tail)) /\ ~(k + 1 <= Len(u)) /\ (k + 1) - Len(u) = k - c
      BY <1>2, <1>6, <2>2
    <3>2. t[k + 1] = tail[k - c]
      BY <2>4, <2>5, <3>1
    <3>3. k - c \in 1..(n - c) /\ c + (k - c) = k
      BY <1>2
    <3> QED
      BY <1>6, <3>2, <3>3
  <2>10. DOMAIN t = 1..N
    BY <2>6, LenProperties
  <2> QED
    BY <2>6, <2>7, <2>8, <2>9, <2>10
<1> HIDE DEF t, Place, NewPlace
<1>8. ASSUME NEW i \in 1..N PROVE NewPlace(i) \in 1..N /\ t[NewPlace(i)] = found[i]
  <2>1. CASE i = N
    BY <1>2, <1>7, <2>1 DEF f
  <2>2. CASE i \in 1..n /\ IsAhead(rank, i, N)
    BY <1>2, <1>3, <1>7, <2>2
  <2>3. CASE i \in 1..n /\ ~IsAhead(rank, i, N)
    <3>1. Place(i) \in (c + 1)..n /\ NewPlace(i) = Place(i) + 1
      BY <1>2, <2>3
    <3>2. PICK k \in (c + 1)..n : k = Place(i)
      BY <3>1
    <3>3. t[k + 1] = s[k]
      BY <1>7
    <3>4. k + 1 \in 1..N
      BY <1>2
    <3> QED
      BY <1>3, <2>3, <3>1, <3>2, <3>3, <3>4
  <2> QED
    BY <2>1, <2>2, <2>3
<1>9. ASSUME NEW k \in 1..N PROVE \E i \in 1..N : NewPlace(i) = k
  <2>1. CASE k <= c
    <3>1. PICK i \in 1..n : Place(i) = k
      <4>1. k \in 1..n
        BY <1>2, <2>1
      <4> QED
        BY <1>3, <4>1
    <3>2. NewPlace(i) = k
      BY <1>2, <2>1, <3>1
    <3> QED
      BY <3>2
  <2>2. CASE k = c + 1
    <3>1. N \in 1..N
      BY <1>1
    <3> QED
      BY <1>2, <2>2, <3>1
  <2>3. CASE k > c + 1
    <3>1. k - 1 \in 1..n
      BY <1>2, <2>3
    <3>2. PICK i \in 1..n : Place(i) = k - 1
      BY <1>3, <3>1
    <3>3. ~(Place(i) <= c) /\ (k - 1) + 1 = k
      BY <1>2, <2>3, <3>2
    <3>4. NewPlace(i) = k
      BY <1>2, <3>2, <3>3
    <3> QED
      BY <3>4
  <2> QED
    BY <1>2, <2>1, <2>2, <2>3
<1>10. SortedBy(t, found, rank, N)
  BY <1>7, <1>8, <1>9 DEF SortedBy, NewPlace
<1> QED
  BY <1>5, <1>7, <1>10 DEF f

\* The sort leaves every finding at its place.
LEMMA SortPlaces ==
  ASSUME NEW found, Reported(found)
  PROVE  /\ Ranks(found) \in [1..Len(found) -> Nat]
         /\ Sort(found) \in Seq(ToSet(found))
         /\ SortedBy(Sort(found), found, Ranks(found), Len(found))
<1> DEFINE T == ToSet(found)
           len == Len(found)
           rank == Ranks(found)
           A == Seq(T)
           Good(s, n) == s \in A /\ SortedBy(s, found, rank, n)
           step == [x \in A \X (1..len) |->
                      IF Good(x[1], x[2] - 1) THEN InsertFinding(x[1], found[x[2]]) ELSE <<>>]
           Runs(g) == g = [n \in 0..len |-> IF n = 0 THEN <<>> ELSE InsertFinding(g[n - 1], found[n])]
           sorted == CHOOSE g : Runs(g)
<1>1. found \in Seq(T) /\ HaveSeverity(T)
  BY DEF Reported
<1> HIDE DEF T
<1>2. len \in Nat /\ \A i \in 1..len : found[i] \in T
  BY <1>1, LenProperties, ElementOfSeq
<1>3. rank \in [1..len -> Nat] /\ rank = Ranks(found)
  <2>1. \A i \in 1..len : severityRank(found[i].severity) \in Nat
    BY <1>1, <1>2, Severe DEF HaveSeverity
  <2> QED
    BY <2>1 DEF Ranks
<1> HIDE DEF rank
<1>4. Good(<<>>, 0)
  <2>1. <<>> \in A /\ Len(<<>>) = 0 /\ DOMAIN <<>> = 1..0
    BY EmptySeq
  <2> QED
    BY <2>1 DEF SortedBy
<1>5. ASSUME NEW n \in Nat, n + 1 <= len, NEW s, Good(s, n)
      PROVE  Good(InsertFinding(s, found[n + 1]), n + 1)
  <2> HIDE DEF len
  <2> QED
    BY <1>1, <1>3, <1>5, Inserted DEF len
<1>6. \E g : Runs(g)
  <2>1. ASSUME NEW s \in A, NEW n \in 1..len, Good(s, n - 1)
        PROVE  Good(InsertFinding(s, found[n]), n)
    <3>1. n - 1 \in Nat /\ (n - 1) + 1 = n /\ (n - 1) + 1 <= len
      BY <1>2
    <3> HIDE DEF Good
    <3>2. Good(InsertFinding(s, found[(n - 1) + 1]), (n - 1) + 1)
      BY <1>5, <2>1, <3>1
    <3> QED
      BY <3>1, <3>2
  <2>2. step \in [A \X (1..len) -> A]
    <3>1. ASSUME NEW x \in A \X (1..len)
          PROVE  (IF Good(x[1], x[2] - 1) THEN InsertFinding(x[1], found[x[2]]) ELSE <<>>) \in A
      <4>1. x[1] \in A /\ x[2] \in 1..len
        OBVIOUS
      <4>2. <<>> \in A
        BY <1>4
      <4> QED
        BY <2>1, <4>1, <4>2
    <3> QED
      BY <3>1
  <2>3. <<>> \in A
    BY <1>4
  <2> HIDE DEF A, len, Good
  <2>4. HasRun(A, <<>>, len, step)
    <3> HIDE DEF step
    <3> QED
      BY <1>2, <2>2, <2>3, Recursion
  <2>5. PICK g \in [0..len -> A] : g[0] = <<>> /\ \A n \in 1..len : g[n] = step[<<g[n - 1], n>>]
    <3> HIDE DEF step
    <3> QED
      BY <2>4 DEF HasRun
  <2>6. \A n \in 1..len : g[n - 1] \in A
    BY <1>2, <2>5
  <2>7. \A n \in 1..len : g[n] = IF Good(g[n - 1], n - 1) THEN InsertFinding(g[n - 1], found[n]) ELSE <<>>
    BY <2>5, <2>6
  <2> HIDE DEF step
  <2> DEFINE S == {n \in Nat : n <= len => Good(g[n], n)}
  <2>8. 0 \in S
    BY <1>4, <2>5
  <2>9. ASSUME NEW n \in S PROVE n + 1 \in S
    <3> SUFFICES ASSUME n + 1 <= len PROVE Good(g[n + 1], n + 1)
      OBVIOUS
    <3>1. n + 1 \in 1..len /\ (n + 1) - 1 = n /\ Good(g[n], n)
      BY <1>2
    <3>2. g[n + 1] = InsertFinding(g[n], found[n + 1])
      BY <2>7, <3>1
    <3> QED
      BY <1>5, <3>1, <3>2
  <2> HIDE DEF S
  <2>10. S = Nat
    <3>1. S \in SUBSET Nat
      BY DEF S
    <3> QED
      BY <2>8, <2>9, <3>1, SetInduction
  <2>11. \A n \in 1..len : g[n] = InsertFinding(g[n - 1], found[n])
    <3> TAKE n \in 1..len
    <3>1. n - 1 \in S /\ n - 1 <= len
      BY <1>2, <2>10
    <3> QED
      BY <2>7, <3>1 DEF S
  <2>12. \A n \in 0..len : g[n] = IF n = 0 THEN <<>> ELSE InsertFinding(g[n - 1], found[n])
    <3> TAKE n \in 0..len
    <3>1. n # 0 => n \in 1..len
      BY <1>2
    <3> QED
      BY <2>5, <2>11, <3>1
  <2>13. g = [n \in 0..len |-> g[n]]
    BY <2>5
  <2> QED
    BY <2>12, <2>13
<1>7. Runs(sorted)
  BY <1>6
<1> HIDE DEF sorted, Good
<1> DEFINE S == {n \in Nat : n <= len => Good(sorted[n], n)}
<1>8. 0 \in S
  BY <1>2, <1>4, <1>7
<1>9. ASSUME NEW n \in S PROVE n + 1 \in S
  <2> SUFFICES ASSUME n + 1 <= len PROVE Good(sorted[n + 1], n + 1)
    OBVIOUS
  <2>1. n + 1 \in 0..len /\ n + 1 # 0 /\ (n + 1) - 1 = n /\ Good(sorted[n], n)
    BY <1>2
  <2>2. sorted[n + 1] = InsertFinding(sorted[n], found[n + 1])
    BY <1>7, <2>1
  <2> QED
    BY <1>5, <2>1, <2>2
<1> HIDE DEF S
<1>10. S = Nat
  <2>1. S \in SUBSET Nat
    BY DEF S
  <2> QED
    BY <1>8, <1>9, <2>1, SetInduction
<1>11. Good(sorted[len], len)
  <2>1. len \in S
    BY <1>2, <1>10
  <2> QED
    BY <1>2, <2>1 DEF S
<1>12. Sort(found) = sorted[len]
  BY DEF Sort, sorted
<1> QED
  BY <1>3, <1>11, <1>12 DEF Good, T

\* findings has those of found that rank t or more, each at its place among them.
ListsInOrder(findings, found, t) ==
  LET asked == {i \in DOMAIN found : severityRank(found[i].severity) >= t}
  IN  /\ Len(findings) = Cardinality(asked)
      /\ \A i \in asked :
           findings[Cardinality({j \in asked : IsAhead(Ranks(found), j, i)})] = found[i]

\* The report is what the sort begins with.
LEMMA ReportInOrder ==
  ASSUME NEW found, Reported(found), NEW t \in Nat, NEW findings,
         findings = Those(Sort(found), {f \in ToSet(Sort(found)) : severityRank(f.severity) >= t})
  PROVE  ListsInOrder(findings, found, t)
<1> DEFINE s == Sort(found)
           len == Len(found)
           rank == Ranks(found)
           T == ToSet(found)
           K == {f \in ToSet(s) : severityRank(f.severity) >= t}
           asked == {i \in DOMAIN found : severityRank(found[i].severity) >= t}
           c == Cardinality(asked)
           Place(i) == PlaceIn(rank, len, i)
           Upto(i) == {j \in 1..len : IsAhead(rank, j, i)}
<1>1. len \in Nat /\ DOMAIN found = 1..len
  BY LenProperties DEF Reported
<1>2. /\ rank \in [1..len -> Nat] /\ \A i \in 1..len : rank[i] = severityRank(found[i].severity)
      /\ s \in Seq(T) /\ DOMAIN s = 1..len
      /\ \A i \in 1..len : Place(i) \in 1..len /\ s[Place(i)] = found[i]
      /\ \A k \in 1..len : \E i \in 1..len : Place(i) = k
  BY SortPlaces DEF SortedBy, Ranks
<1> HIDE DEF s, rank, T, len
<1>3. /\ asked = {i \in 1..len : rank[i] >= t} /\ asked \in SUBSET (1..len)
      /\ \A i \in asked : rank[i] >= t
  BY <1>1, <1>2
<1>4. c \in 0..len
  <2> HIDE DEF asked
  <2> QED
    BY <1>1, <1>3, Smaller
<1>5. ASSUME NEW i \in 1..len
      PROVE  /\ i \in asked => Place(i) <= c /\ Upto(i) = {j \in asked : IsAhead(rank, j, i)}
             /\ i \notin asked => Place(i) > c
  <2>1. Upto(i) \in SUBSET (1..len) /\ i \in Upto(i) /\ Place(i) = Cardinality(Upto(i))
    BY <1>2 DEF IsAhead, PlaceIn
  <2>2. CASE i \in asked
    <3>1. Upto(i) \in SUBSET asked
      <4> SUFFICES ASSUME NEW j \in 1..len, IsAhead(rank, j, i) PROVE j \in asked
        OBVIOUS
      <4>1. rank[j] \in Nat /\ rank[i] \in Nat /\ rank[i] >= t
        BY <1>2, <1>3, <2>2
      <4> HIDE DEF asked
      <4> QED
        BY <1>3, <4>1 DEF IsAhead
    <3>2. Upto(i) = {j \in asked : IsAhead(rank, j, i)}
      BY <1>3, <3>1
    <3> DEFINE U == Upto(i)
    <3> HIDE DEF U, asked
    <3>3. Cardinality(U) <= c
      BY <1>1, <1>3, <3>1, Smaller DEF U
    <3> QED
      BY <2>1, <2>2, <3>2, <3>3 DEF U
  <2>3. CASE i \notin asked
    <3>1. asked \in SUBSET Upto(i) /\ i \in Upto(i) \ asked
      <4>1. ASSUME NEW j \in asked PROVE j \in Upto(i)
        <5>1. j \in 1..len /\ rank[j] \in Nat /\ rank[i] \in Nat /\ rank[j] >= t /\ ~(rank[i] >= t)
          <6> HIDE DEF asked
          <6> QED
            BY <1>2, <1>3, <2>3
        <5> QED
          BY <5>1 DEF IsAhead
      <4> QED
        BY <2>1, <2>3, <4>1
    <3> DEFINE U == Upto(i)
    <3> HIDE DEF asked
    <3>2. U \in SUBSET (1..len) /\ asked \in SUBSET U /\ i \in U \ asked
      BY <2>1, <3>1
    <3> HIDE DEF U
    <3>3. c + 1 <= Cardinality(U) /\ Cardinality(U) \in 0..len
      BY <1>1, <3>2, Smaller
    <3> QED
      BY <1>4, <2>1, <2>3, <3>3 DEF U
  <2> QED
    BY <2>2, <2>3
<1> HIDE DEF Upto
<1>6. Places(s, K) = 1..c
  <2>1. ASSUME NEW k \in 1..len PROVE s[k] \in K <=> k <= c
    <3>1. PICK i \in 1..len : Place(i) = k
      BY <1>2
    <3>2. s[k] = found[i] /\ s[k] \in ToSet(s)
      BY <1>2, <3>1 DEF ToSet
    <3>3. s[k] \in K <=> i \in asked
      BY <1>2, <1>3, <3>2
    <3> HIDE DEF K, asked, Place
    <3> QED
      BY <1>4, <1>5, <3>1, <3>3
  <2> HIDE DEF K, c
  <2> QED
    BY <1>1, <1>2, <1>4, <2>1 DEF Places
<1>7. findings = [k \in 1..c |-> s[k]]
  <2>1. findings = Those(s, K)
    BY DEF s, K
  <2>2. DOMAIN s = 1..len
    BY <1>2
  <2> HIDE DEF K, c, asked, Place
  <2> QED
    BY <1>1, <1>4, <1>6, <2>1, <2>2, ThosePrefix
<1>8. Len(findings) = c
  <2> HIDE DEF c
  <2> QED
    BY <1>4, <1>7
<1>9. ASSUME NEW i \in asked
      PROVE  findings[Cardinality({j \in asked : IsAhead(rank, j, i)})] = found[i]
  <2>1. i \in 1..len /\ Place(i) \in 1..c
    <3> HIDE DEF asked, Place
    <3> QED
      BY <1>2, <1>3, <1>4, <1>5
  <2>2. Place(i) = Cardinality({j \in asked : IsAhead(rank, j, i)})
    <3> HIDE DEF asked
    <3> QED
      BY <1>5, <2>1 DEF PlaceIn, Upto
  <2> HIDE DEF c, asked, Place
  <2> QED
    BY <1>2, <1>7, <2>1, <2>2
<1> QED
  BY <1>8, <1>9 DEF rank, ListsInOrder

\* The report of inspect lists what the checks found from the most severe down to
\* the level asked for, what is equally severe in the order it was found
\* (ValidateHeaders, filterFindings), whatever the message.
THEOREM ReportHonest == Spec => []FindingsInOrder
<1>1. Init => FindingsInOrder
  BY DEF Init, FindingsInOrder
<1>2. FindingsInOrder /\ [Next]_vars => FindingsInOrder'
  <2> SUFFICES ASSUME FindingsInOrder, [Next]_vars PROVE FindingsInOrder'
    OBVIOUS
  <2>1. CASE runInspect
    <3>1. PICK m \in Samples, s \in ToSet(Severities) \union {"other"} :
            report' = [message |-> m, minSeverity |-> s,
                       findings |-> filterFindings(ValidateHeaders(m), s)]
      BY <2>1 DEF runInspect
    <3> DEFINE found == Discovered(m)
               t == threshold(s)
               findings == filterFindings(ValidateHeaders(m), s)
    <3>2. Reported(found)
      BY SamplesAssumption, DiscoveredReported
    <3>3. t \in Nat
      BY Severe DEF threshold
    <3>4. findings = Those(Sort(found), {f \in ToSet(Sort(found)) : severityRank(f.severity) >= t})
      BY DEF filterFindings, ValidateHeaders
    <3>5. /\ report'.message = m /\ report'.minSeverity = s /\ report'.findings = findings
      BY <3>1
    <3> HIDE DEF found, t, findings
    <3> DEFINE Rank(i) == severityRank(found[i].severity)
               asked == {i \in DOMAIN found : Rank(i) >= t}
               Ahead(i, j) == Rank(i) > Rank(j) \/ (Rank(i) = Rank(j) /\ i <= j)
    <3>6. /\ Len(findings) = Cardinality(asked)
          /\ \A i \in asked :
               findings[Cardinality({j \in asked : IsAhead(Ranks(found), j, i)})] = found[i]
      <4>1. ListsInOrder(findings, found, t)
        BY <3>2, <3>3, <3>4, ReportInOrder
      <4> QED
        BY <4>1 DEF ListsInOrder
    <3>7. ASSUME NEW i \in asked
          PROVE  {j \in asked : IsAhead(Ranks(found), j, i)} = {j \in asked : Ahead(j, i)}
      <4>1. DOMAIN found = 1..Len(found)
        BY <3>2, LenProperties DEF Reported
      <4> QED
        BY <4>1 DEF IsAhead, Ranks
    <3>8. \A i \in asked : findings[Cardinality({j \in asked : Ahead(j, i)})] = found[i]
      BY <3>6, <3>7
    <3> QED
      BY <3>5, <3>6, <3>8 DEF FindingsInOrder, found, t
  <2>2. CASE UNCHANGED report
    BY <2>2 DEF FindingsInOrder
  <2> QED
    BY <2>1, <2>2 DEF Next, vars
<1> QED
  BY <1>1, <1>2, PTL DEF Spec

-----------------------------------------------------------------------------
(***************************************************************************)
(* The commands that walk mailboxes.  EveryMessageOnce looks at what was met;  *)
(* a step may meet more, so the invariant also says where each command is:    *)
(* what the buffer holds of the mbox, what is left of the Maildir's listing,   *)
(* and which documents are of the source that is read.                        *)
(***************************************************************************)
SourcesInv ==
  /\ sources \in Seq(ToSet(sources))
  /\ \A s \in DOMAIN sources : IsMbox(sources[s]) \/ IsMaildir(sources[s])
  /\ command \notin {"process", "train"} => sources = <<>>
  /\ command = "train" => Len(sources) > 1
  /\ limit \in Nat

WalkTypes ==
  /\ at \in [source : Nat \ {0}, pos : Nat \ {0}, before : 0..Len(corpus)]
  /\ listing \in [open : BOOLEAN, names : SUBSET Nat]
  /\ ~listing.open => listing.names = {}
  /\ results \in [DOMAIN sources -> Seq(Seq(Nat))]
  /\ corpus \in Seq([source : DOMAIN sources, of : Seq(Nat)])
  /\ buffer \in Seq(Nat)
  /\ \A s \in DOMAIN sources : s > at.source => results[s] = <<>>

\* The lines of the current mbox so far: the buffer is what was read since the last
\* From line, and all the text before it was met.
MboxSoFar ==
  LET lines == sources[at.source].lines
      met == results[at.source]
      start == at.pos - Len(buffer)
  IN  /\ start >= 1 /\ at.pos <= Len(lines) + 1 /\ listing = Unlisted
      /\ \A j \in DOMAIN buffer : buffer[j] = start + j - 1 /\ lines[buffer[j]] = "text"
      /\ start = 1 \/ lines[start - 1] = "From"
      /\ \A i \in DOMAIN met : Last(met[i]) < start
      /\ \A n \in 1..(start - 1) :
           lines[n] = "text" => \E i \in DOMAIN met : n \in ToSet(met[i])

\* What is met in a Maildir is a directory and a file of it, or one that is now in cur.
MaildirMet(s) ==
  \A i \in DOMAIN results[s] :
    LET d == results[s][i][1]
        f == results[s][i][2] IN
    /\ results[s][i] = <<d, f>> /\ d \in 1..Directories /\ f \in Nat \ sources[s].sub
    /\ sources[s].dir[SubDirs[d]] = "readable"
    /\ f \in sources[s].files[SubDirs[d]] \/ (moved /\ d = 2 /\ f \in sources[s].files["cur"])

\* The directories of the current Maildir so far: what is left of the listing comes
\* after what was met of it, and has nothing that was met.
MaildirSoFar ==
  LET src == sources[at.source]
      met == results[at.source]
      In(d) == IF src.dir[SubDirs[d]] = "readable" THEN src.files[SubDirs[d]] ELSE {}
  IN  /\ at.pos <= Directories + 1 /\ buffer = <<>>
      /\ listing.open => at.pos <= Directories /\ src.dir[SubDirs[at.pos]] = "readable"
      /\ \A n \in listing.names :
           \/ n \in src.sub \/ n \in src.files[SubDirs[at.pos]]
           \/ moved /\ at.pos = 2 /\ n \in src.files["cur"]
      /\ \A i \in DOMAIN met :
           /\ met[i][1] <= at.pos /\ met[i][2] \notin listing.names
           /\ met[i][1] = at.pos => listing.open /\ \A n \in listing.names : met[i][2] < n
      /\ limit = 0 /\ ~moved =>
           /\ \A d \in 1..(at.pos - 1) : \A f \in In(d) : <<d, f>> \in ToSet(met)
           /\ listing.open => \A f \in In(at.pos) \ listing.names : <<at.pos, f>> \in ToSet(met)

SourceInv(s) ==
  IF sources[s].kind = "mbox"
  THEN MboxIsSplit(s) /\ (s = at.source => MboxSoFar)
  ELSE MaildirOnce(s) /\ MaildirMet(s) /\ (s = at.source => MaildirSoFar)

LimitInv ==
  /\ command # "train" => corpus = <<>>
  /\ \A i \in DOMAIN corpus : /\ corpus[i].source <= at.source
                              /\ i <= at.before <=> corpus[i].source < at.source
  /\ \A s \in DOMAIN sources : WithinLimit(s)
  /\ limit > 0 /\ at.source \in DOMAIN sources =>
       IF command = "process" THEN Len(results[at.source]) <= limit
       ELSE /\ Len(corpus) - at.before <= limit
            /\ sources[at.source].kind = "mbox" => Len(corpus) - at.before < limit

FitInv ==
  /\ status = "fitting" => Len(corpus) > 0
  /\ CorpusIsSplit

InboxInv ==
  /\ command = "daemon monitor" /\ ~moved => inbox \in Seq(Nat) /\ lastCount \in 0..Len(inbox)
  /\ arrived \in Nat
  /\ MonitorKeepsUp

WalkInv ==
  /\ SourcesInv /\ WalkTypes /\ FitInv /\ InboxInv
  /\ status # "failed" =>
       LimitInv /\ CorpusIsMet /\ \A s \in DOMAIN sources : SourceInv(s)


\* The directories of a Maildir, by name.
LEMMA SubDirNames ==
  /\ ToSet(SubDirs) = {"cur", "new", "."}
  /\ SubDirs[1] = "cur" /\ SubDirs[2] = "new" /\ SubDirs[3] = "."
<1>1. DOMAIN SubDirs = 1..3
  BY DEF SubDirs
<1>2. ToSet(SubDirs) = {SubDirs[i] : i \in 1..3}
  BY <1>1 DEF ToSet
<1>3. SubDirs[1] = "cur" /\ SubDirs[2] = "new" /\ SubDirs[3] = "."
  BY DEF SubDirs
<1>4. {SubDirs[i] : i \in 1..3} = {SubDirs[1], SubDirs[2], SubDirs[3]}
  OBVIOUS
<1> QED
  BY <1>2, <1>3, <1>4

\* What is known of a source, by its kind.
LEMMA Shapes ==
  ASSUME NEW src, IsMbox(src) \/ IsMaildir(src)
  PROVE  /\ src.kind = "mbox" => /\ Len(src.lines) \in Nat
                                 /\ DOMAIN src.lines = 1..Len(src.lines)
                                 /\ \A n \in 1..Len(src.lines) : src.lines[n] \in {"From", "text"}
         /\ src.kind # "mbox" =>
              /\ src.kind = "maildir" /\ IsMaildir(src)
              /\ src.sub \in SUBSET Nat
              /\ \A d \in ToSet(SubDirs) :
                   /\ src.dir[d] \in {"absent", "unreadable", "readable"}
                   /\ src.files[d] \in SUBSET Nat /\ src.files[d] \intersect src.sub = {}
                   /\ \A c \in ToSet(SubDirs) : c # d => src.files[c] \intersect src.files[d] = {}
<1>1. CASE IsMbox(src)
  <2>1. src.kind = "mbox" /\ src.lines \in Seq({"From", "text"})
    BY <1>1 DEF IsMbox
  <2> QED
    BY <2>1, LenProperties, ElementOfSeq
<1>2. CASE IsMaildir(src)
  BY <1>2 DEF IsMaildir
<1> QED
  BY <1>1, <1>2

\* The first name of a listing.
LEMMA LeastName ==
  ASSUME NEW S \in SUBSET Nat, S # {}
  PROVE  Min(S) \in S /\ \A n \in S : Min(S) <= n
<1>1. \E n \in S : \A m \in S : n <= m
  BY LeastNatural
<1> QED
  BY <1>1 DEF Min

\* A sequence, one longer.
LEMMA OneLonger ==
  ASSUME NEW T, NEW s \in Seq(T), NEW e \in T
  PROVE  /\ Append(s, e) \in Seq(T) /\ Len(s) \in Nat /\ DOMAIN s = 1..Len(s)
         /\ DOMAIN Append(s, e) = 1..(Len(s) + 1) /\ Len(Append(s, e)) = Len(s) + 1
         /\ \A i \in 1..Len(s) : Append(s, e)[i] = s[i]
         /\ Append(s, e)[Len(s) + 1] = e
<1>1. Len(s) \in Nat /\ DOMAIN s = 1..Len(s)
  BY LenProperties
<1>2. /\ Append(s, e) \in Seq(T) /\ Len(Append(s, e)) = Len(s) + 1
      /\ \A i \in 1..Len(s) : Append(s, e)[i] = s[i]
      /\ Append(s, e)[Len(s) + 1] = e
  BY AppendProperties
<1>3. \A t \in Seq(T) : DOMAIN t = 1..Len(t)
  BY LenProperties
<1> QED
  BY <1>1, <1>2, <1>3

\* A step that reads: something may be met, and the place moves on, if it does, to
\* the next position or the next source.
Moves(of) ==
  /\ status = "reading" /\ at.source \in DOMAIN sources
  /\ Steady /\ UNCHANGED <<status, split, modelFile>>
  /\ of \in Seq(Nat)
  /\ MeetNone \/ MeetWhole(of) \/ (Meet(of) /\ UNCHANGED corpus)
  /\ \/ NextSource /\ buffer' = <<>> /\ listing' = Unlisted
     \/ NextPosition \/ UNCHANGED at
  /\ buffer' \in Seq(Nat)
  /\ listing' \in [open : BOOLEAN, names : SUBSET Nat] /\ (~listing'.open => listing'.names = {})

\* What it does to what is met and learned.
LEMMA MeetEffect ==
  ASSUME WalkTypes, NEW of, Moves(of)
  PROVE  /\ \A s \in DOMAIN sources : s # at.source => results'[s] = results[s]
         /\ \/ results'[at.source] = results[at.source] /\ corpus' = corpus
            \/ results'[at.source] = Append(results[at.source], of) /\ corpus' = corpus
            \/ /\ results'[at.source] = Append(results[at.source], of) /\ command = "train"
               /\ corpus' = Append(corpus, [source |-> at.source, of |-> of])
         /\ results' \in [DOMAIN sources -> Seq(Seq(Nat))]
         /\ corpus' \in Seq([source : DOMAIN sources, of : Seq(Nat)])
         /\ Len(corpus) \in Nat /\ Len(corpus') \in Nat /\ Len(corpus) <= Len(corpus')
         /\ Len(corpus') <= Len(corpus) + 1
<1> DEFINE D == DOMAIN sources
           R == Seq(Seq(Nat))
           Docs == [source : D, of : Seq(Nat)]
           doc == [source |-> at.source, of |-> of]
<1>1. /\ at.source \in D /\ of \in Seq(Nat) /\ doc \in Docs
      /\ results \in [D -> R] /\ corpus \in Seq(Docs)
  BY DEF WalkTypes, Moves
<1>2. Append(results[at.source], of) \in R
  BY <1>1, AppendProperties
<1> HIDE DEF Docs
<1>3. /\ Append(corpus, doc) \in Seq(Docs)
      /\ Len(corpus) \in Nat /\ Len(Append(corpus, doc)) = Len(corpus) + 1
  BY <1>1, OneLonger
<1> HIDE DEF D, R, doc
<1>4. \/ results' = results /\ corpus' = corpus
      \/ results' = [results EXCEPT ![at.source] = Append(results[at.source], of)] /\ corpus' = corpus
      \/ /\ results' = [results EXCEPT ![at.source] = Append(results[at.source], of)]
         /\ command = "train" /\ corpus' = Append(corpus, doc)
  BY DEF Moves, MeetNone, MeetWhole, Meet, Learn, doc
<1>5. CASE results' = results /\ corpus' = corpus
  BY <1>1, <1>3, <1>5 DEF D, R, Docs
<1>6. CASE results' = [results EXCEPT ![at.source] = Append(results[at.source], of)] /\ corpus' = corpus
  BY <1>1, <1>2, <1>3, <1>6 DEF D, R, Docs
<1>7. CASE /\ results' = [results EXCEPT ![at.source] = Append(results[at.source], of)]
           /\ command = "train" /\ corpus' = Append(corpus, doc)
  <2>1. Len(corpus') = Len(corpus) + 1 /\ corpus' \in Seq(Docs)
    BY <1>3, <1>7
  <2> QED
    BY <1>1, <1>2, <1>3, <1>7, <2>1 DEF D, R, Docs, doc
<1> QED
  BY <1>4, <1>5, <1>6, <1>7

LEMMA MovesTypes ==
  ASSUME SourcesInv, WalkTypes, NEW of, Moves(of)
  PROVE  SourcesInv' /\ WalkTypes'
<1>1. /\ command' = command /\ sources' = sources /\ limit' = limit
      /\ at.source \in DOMAIN sources
      /\ buffer' \in Seq(Nat) /\ listing' \in [open : BOOLEAN, names : SUBSET Nat]
      /\ ~listing'.open => listing'.names = {}
  BY DEF Moves, Steady
<1>2. SourcesInv'
  BY <1>1 DEF SourcesInv
<1>3. at \in [source : Nat \ {0}, pos : Nat \ {0}, before : 0..Len(corpus)]
  BY DEF WalkTypes
<1>4. /\ \A s \in DOMAIN sources : s # at.source => results'[s] = results[s]
      /\ results' \in [DOMAIN sources -> Seq(Seq(Nat))]
      /\ corpus' \in Seq([source : DOMAIN sources, of : Seq(Nat)])
      /\ Len(corpus) \in Nat /\ Len(corpus') \in Nat /\ Len(corpus) <= Len(corpus')
  BY MeetEffect
<1>5. /\ at' \in [source : Nat \ {0}, pos : Nat \ {0}, before : 0..Len(corpus')]
      /\ at'.source >= at.source
  <2>1. CASE NextSource
    BY <1>3, <1>4, <2>1 DEF NextSource
  <2>2. CASE NextPosition
    <3>1. at'.source = at.source /\ at'.before = at.before /\ at'.pos = at.pos + 1
          /\ at' = [source |-> at.source, pos |-> at.pos + 1, before |-> at.before]
      BY <1>3, <2>2 DEF NextPosition
    <3> QED
      BY <1>3, <1>4, <3>1
  <2>3. CASE UNCHANGED at
    BY <1>3, <1>4, <2>3
  <2> QED
    BY <2>1, <2>2, <2>3 DEF Moves
<1>6. DOMAIN sources \subseteq Nat
  <2>1. DOMAIN sources = 1..Len(sources)
    BY LenProperties DEF SourcesInv
  <2> QED
    BY <2>1
<1>7. \A s \in DOMAIN sources : s > at'.source => results'[s] = <<>>
  <2> TAKE s \in DOMAIN sources
  <2> HAVE s > at'.source
  <2>1. s \in Nat /\ at.source \in Nat /\ at'.source \in Nat /\ s > at.source
    BY <1>3, <1>5, <1>6
  <2>2. results[s] = <<>>
    BY <2>1 DEF WalkTypes
  <2> QED
    BY <1>4, <2>1, <2>2
<1> QED
  BY <1>1, <1>2, <1>4, <1>5, <1>7 DEF WalkTypes

\* The sources that are not being read are as they were.
LEMMA OtherSources ==
  ASSUME SourcesInv, WalkTypes, NEW of, Moves(of), NEW s \in DOMAIN sources,
         s # at.source, SourceInv(s)
  PROVE  SourceInv(s)'
<1>1. /\ command' = command /\ sources' = sources /\ limit' = limit /\ moved' = moved
      /\ results'[s] = results[s]
  BY MeetEffect DEF Moves, Steady
<1>2. s \in Nat /\ s # 0
  <2>1. DOMAIN sources = 1..Len(sources)
    BY LenProperties DEF SourcesInv
  <2> QED
    BY <2>1
<1>3. at.source \in Nat /\ at'.source \in {at.source, at.source + 1}
      /\ (at'.source = at.source + 1 => at'.pos = 1 /\ buffer' = <<>> /\ listing' = Unlisted)
  BY DEF WalkTypes, Moves, NextSource, NextPosition
<1>4. at'.source > s <=> at.source > s
  BY <1>2, <1>3
<1>5. CASE sources[s].kind = "mbox"
  <2>1. MboxIsSplit(s)'
    <3>1. MboxIsSplit(s)
      BY <1>5 DEF SourceInv
    <3> QED
      BY <1>1, <1>4, <3>1 DEF MboxIsSplit
  <2>2. ASSUME s = at'.source PROVE MboxSoFar'
    <3>1. at'.pos = 1 /\ buffer' = <<>> /\ listing' = Unlisted
      BY <1>3, <2>2
    <3>2. s > at.source
      BY <1>2, <1>3, <2>2
    <3>3. results'[s] = <<>>
      BY <1>1, <3>2 DEF WalkTypes
    <3>4. Len(sources[s].lines) \in Nat
      BY <1>5, Shapes DEF SourcesInv
    <3>5. Len(<<>>) = 0 /\ DOMAIN <<>> = {}
      OBVIOUS
    <3> QED
      BY <1>1, <2>2, <3>1, <3>3, <3>4, <3>5 DEF MboxSoFar, Unlisted
  <2> QED
    BY <1>1, <1>5, <2>1, <2>2 DEF SourceInv
<1>6. CASE sources[s].kind # "mbox"
  <2>1. MaildirOnce(s) /\ MaildirMet(s)
    BY <1>6 DEF SourceInv
  <2>2. Directories' = Directories
    BY <1>1 DEF Directories
  <2>3. MaildirOnce(s)'
    BY <1>1, <1>4, <2>1, <2>2 DEF MaildirOnce
  <2>4. MaildirMet(s)'
    BY <1>1, <2>1, <2>2 DEF MaildirMet
  <2>5. ASSUME s = at'.source PROVE MaildirSoFar'
    <3>1. at'.pos = 1 /\ buffer' = <<>> /\ listing' = Unlisted
      BY <1>3, <2>5
    <3>2. s > at.source
      BY <1>2, <1>3, <2>5
    <3>3. results'[s] = <<>>
      BY <1>1, <3>2 DEF WalkTypes
    <3>4. DOMAIN <<>> = {} /\ 1..0 = {}
      OBVIOUS
    <3>5. Directories \in {2, 3}
      BY DEF Directories
    <3> QED
      BY <1>1, <2>2, <2>5, <3>1, <3>3, <3>4, <3>5 DEF MaildirSoFar, Unlisted
  <2> QED
    BY <1>1, <1>6, <2>3, <2>4, <2>5 DEF SourceInv
<1> QED
  BY <1>5, <1>6

\* A message that was not met before makes a new document.
LEMMA MovesCorpus ==
  ASSUME WalkTypes, NEW of, Moves(of), CorpusIsMet,
         MeetNone \/ of \notin ToSet(results[at.source])
  PROVE  CorpusIsMet'
<1> DEFINE Docs == [source : DOMAIN sources, of : Seq(Nat)]
           doc == [source |-> at.source, of |-> of]
<1>1. corpus \in Seq(Docs) /\ results \in [DOMAIN sources -> Seq(Seq(Nat))]
      /\ at.source \in DOMAIN sources /\ of \in Seq(Nat)
  BY DEF WalkTypes, Moves
<1>2. ASSUME NEW s \in DOMAIN sources
      PROVE  ToSet(results[s]) \subseteq ToSet(results'[s])
  <2>1. CASE results'[s] = results[s]
    BY <2>1
  <2>2. CASE s = at.source /\ results'[s] = Append(results[s], of)
    <3>1. results[s] \in Seq(Seq(Nat))
      BY <1>1
    <3>2. /\ DOMAIN results[s] = 1..Len(results[s]) /\ Len(results[s]) \in Nat
          /\ DOMAIN results'[s] = 1..(Len(results[s]) + 1)
          /\ \A i \in 1..Len(results[s]) : results'[s][i] = results[s][i]
      BY <1>1, <2>2, <3>1, OneLonger
    <3>3. \A i \in DOMAIN results[s] : i \in DOMAIN results'[s] /\ results'[s][i] = results[s][i]
      BY <3>2
    <3> QED
      BY <3>3 DEF ToSet
  <2> QED
    BY <2>1, <2>2, MeetEffect
<1>3. CASE corpus' = corpus
  <2>1. \A d \in ToSet(corpus) : d \in Docs
    <3> HIDE DEF Docs
    <3>1. corpus \in [1..Len(corpus) -> Docs]
      BY <1>1, LenProperties
    <3> QED
      BY <3>1 DEF ToSet
  <2> QED
    BY <1>2, <1>3, <2>1 DEF CorpusIsMet
<1>4. CASE /\ results'[at.source] = Append(results[at.source], of)
           /\ corpus' = Append(corpus, doc) /\ ~MeetNone
  <2>1. doc \in Docs
    BY <1>1
  <2> HIDE DEF Docs
  <2>2. /\ Len(corpus) \in Nat /\ DOMAIN corpus = 1..Len(corpus)
        /\ DOMAIN corpus' = 1..(Len(corpus) + 1)
        /\ \A i \in 1..Len(corpus) : corpus'[i] = corpus[i]
        /\ corpus'[Len(corpus) + 1] = doc
    BY <1>1, <1>4, <2>1, OneLonger
  <2>9. \A i \in 1..Len(corpus) : corpus[i] \in Docs
    BY <1>1, ElementOfSeq
  <2>3. \A i \in 1..Len(corpus) : corpus[i].source \in DOMAIN sources
    BY <2>9 DEF Docs
  <2>4. \A i \in 1..Len(corpus) : corpus[i].of \in ToSet(results[corpus[i].source])
    BY <2>2 DEF CorpusIsMet, ToSet
  <2>5. \A i \in 1..Len(corpus) : corpus[i] # doc
    BY <1>4, <2>4
  <2>6. IsInjective(corpus')
    <3> SUFFICES ASSUME NEW i \in 1..(Len(corpus) + 1), NEW j \in 1..(Len(corpus) + 1),
                        corpus'[i] = corpus'[j]
                 PROVE  i = j
      BY <2>2 DEF IsInjective
    <3>1. CASE i \in 1..Len(corpus) /\ j \in 1..Len(corpus)
      BY <2>2, <3>1 DEF CorpusIsMet, IsInjective
    <3>2. CASE i = Len(corpus) + 1 /\ j = Len(corpus) + 1
      BY <3>2
    <3>3. CASE i = Len(corpus) + 1 /\ j \in 1..Len(corpus)
      BY <2>2, <2>5, <3>3
    <3>4. CASE i \in 1..Len(corpus) /\ j = Len(corpus) + 1
      BY <2>2, <2>5, <3>4
    <3> QED
      BY <2>2, <3>1, <3>2, <3>3, <3>4
  <2>7. of \in ToSet(results'[at.source])
    <3>1. results[at.source] \in Seq(Seq(Nat))
      BY <1>1
    <3>2. /\ Len(results[at.source]) + 1 \in DOMAIN results'[at.source]
          /\ results'[at.source][Len(results[at.source]) + 1] = of
      BY <1>1, <1>4, <3>1, OneLonger
    <3> QED
      BY <3>2 DEF ToSet
  <2>8. \A i \in 1..(Len(corpus) + 1) : corpus'[i].of \in ToSet(results'[corpus'[i].source])
    <3> TAKE i \in 1..(Len(corpus) + 1)
    <3>1. CASE i \in 1..Len(corpus)
      BY <1>2, <2>2, <2>3, <2>4, <3>1
    <3>2. CASE i = Len(corpus) + 1
      BY <2>2, <2>7, <3>2
    <3> QED
      BY <2>2, <3>1, <3>2
  <2>10. \A d \in ToSet(corpus') : d.of \in ToSet(results'[d.source])
    <3> TAKE d \in ToSet(corpus')
    <3>1. PICK i \in 1..(Len(corpus) + 1) : d = corpus'[i]
      BY <2>2 DEF ToSet
    <3> QED
      BY <2>8, <3>1
  <2> QED
    BY <2>6, <2>10 DEF CorpusIsMet
<1>5. corpus' = corpus \/ ~MeetNone
  BY DEF MeetNone
<1>6. \/ corpus' = corpus
      \/ /\ results'[at.source] = Append(results[at.source], of)
         /\ corpus' = Append(corpus, doc)
  BY MeetEffect
<1> QED
  BY <1>3, <1>4, <1>5, <1>6
\* The last element of a sequence that is not empty.
LEMMA LastOf ==
  ASSUME NEW T, NEW q \in Seq(T), q # <<>>
  PROVE  Len(q) \in Nat /\ Len(q) >= 1 /\ DOMAIN q = 1..Len(q) /\ Last(q) = q[Len(q)]
<1>1. Len(q) \in Nat /\ DOMAIN q = 1..Len(q)
  BY LenProperties
<1>2. Len(q) # 0
  BY EmptySeq
<1> QED
  BY <1>1, <1>2 DEF Last

\* The line an mbox is at.
LEMMA LineAt ==
  ASSUME SourcesInv, WalkTypes, at.source \in DOMAIN sources, Source.kind = "mbox", MboxSoFar
  PROVE  /\ Len(Source.lines) \in Nat /\ DOMAIN Source.lines = 1..Len(Source.lines)
         /\ at.pos \in 1..(Len(Source.lines) + 1)
         /\ Line \in {"From", "text", "nothing"}
         /\ Line = "nothing" <=> at.pos = Len(Source.lines) + 1
         /\ Line # "nothing" => at.pos \in 1..Len(Source.lines) /\ Source.lines[at.pos] = Line
<1>1. IsMbox(Source) \/ IsMaildir(Source)
  BY DEF SourcesInv, Source
<1>2. /\ Len(Source.lines) \in Nat /\ DOMAIN Source.lines = 1..Len(Source.lines)
      /\ \A n \in 1..Len(Source.lines) : Source.lines[n] \in {"From", "text"}
  BY <1>1, Shapes
<1>3. at.pos \in Nat /\ at.pos # 0 /\ at.pos <= Len(Source.lines) + 1
  BY DEF WalkTypes, MboxSoFar, Source
<1>4. CASE at.pos <= Len(Source.lines)
  <2>1. Line = Source.lines[at.pos] /\ at.pos \in 1..Len(Source.lines)
    BY <1>2, <1>3, <1>4 DEF Line
  <2> QED
    BY <1>2, <1>3, <1>4, <2>1
<1>5. CASE at.pos = Len(Source.lines) + 1
  BY <1>2, <1>3, <1>5 DEF Line
<1> QED
  BY <1>2, <1>3, <1>4, <1>5

\* What is collected when an mbox's line is looked at.
LEMMA CollectedLines ==
  ASSUME SourcesInv, WalkTypes, at.source \in DOMAIN sources, Source.kind = "mbox", MboxSoFar,
         NEW start, start = at.pos - Len(buffer), NEW len, len = Len(Collected)
  PROVE  /\ Collected \in Seq(Nat) /\ len \in Nat /\ DOMAIN Collected = 1..len
         /\ start \in Nat /\ start >= 1
         /\ \A j \in 1..len : Collected[j] = start + j - 1 /\ Source.lines[Collected[j]] = "text"
         /\ start + len = (IF Line = "text" THEN at.pos + 1 ELSE at.pos)
         /\ Collected # <<>> <=> len # 0
         /\ Collected # <<>> => Collected[1] = start /\ Last(Collected) = start + len - 1
<1>1. /\ buffer \in Seq(Nat) /\ at.pos \in Nat /\ at.pos # 0
      /\ \A j \in DOMAIN buffer : buffer[j] = start + j - 1 /\ Source.lines[buffer[j]] = "text"
      /\ start >= 1
  BY DEF WalkTypes, MboxSoFar, Source
<1>2. Len(buffer) \in Nat /\ DOMAIN buffer = 1..Len(buffer)
  BY <1>1, LenProperties
<1>0. at.pos \in Int /\ Len(buffer) \in Int /\ start >= 1
  BY <1>1, <1>2
<1>3. start \in Nat /\ start + Len(buffer) = at.pos
  <2>1. start \in Int /\ start + Len(buffer) = at.pos
    BY <1>0
  <2> QED
    BY <1>0, <2>1
<1>4. /\ Collected \in Seq(Nat) /\ len \in Nat /\ DOMAIN Collected = 1..len
      /\ \A j \in 1..len : Collected[j] = start + j - 1 /\ Source.lines[Collected[j]] = "text"
      /\ start + len = (IF Line = "text" THEN at.pos + 1 ELSE at.pos)
  <2>1. CASE Line = "text"
    <3>1. /\ Collected \in Seq(Nat) /\ len = Len(buffer) + 1 /\ DOMAIN Collected = 1..len
          /\ \A j \in 1..Len(buffer) : Collected[j] = buffer[j]
          /\ Collected[len] = at.pos
      BY <1>1, <2>1, OneLonger DEF Collected
    <3>2. Source.lines[at.pos] = "text"
      BY <2>1, LineAt
    <3>3. \A j \in 1..len : Collected[j] = start + j - 1 /\ Source.lines[Collected[j]] = "text"
      <4> TAKE j \in 1..len
      <4>1. CASE j \in 1..Len(buffer)
        BY <1>1, <1>2, <3>1, <4>1
      <4>2. CASE j = len
        BY <1>1, <1>2, <3>1, <3>2, <4>2
      <4> QED
        BY <1>2, <3>1, <4>1, <4>2
    <3>6. len = Len(buffer) + 1
      BY <3>1
    <3>4. start + len = at.pos + 1
      <4>1. start + len = start + (Len(buffer) + 1)
        BY <3>6
      <4>2. start \in Int /\ Len(buffer) \in Int /\ start + Len(buffer) = at.pos
        BY <1>0, <1>3
      <4>3. start + (Len(buffer) + 1) = (start + Len(buffer)) + 1
        BY <4>2
      <4> QED
        BY <4>1, <4>2, <4>3
    <3>5. len \in Nat
      BY <1>2, <3>1
    <3> QED
      BY <2>1, <3>1, <3>3, <3>4, <3>5
  <2>2. CASE Line # "text"
    <3>1. Collected = buffer
      BY <2>2 DEF Collected
    <3>2. len = Len(buffer)
      BY <3>1
    <3>3. start + len = at.pos
      BY <1>1, <1>2, <3>2
    <3> QED
      BY <1>1, <1>2, <2>2, <3>1, <3>2, <3>3
  <2> QED
    BY <2>1, <2>2
<1>5. Collected # <<>> => len >= 1 /\ Last(Collected) = Collected[len]
  BY <1>4, LastOf
<1>6. Collected = <<>> => len = 0
  BY EmptySeq
<1>7. Collected # <<>> => Collected[1] = start /\ Collected[len] = start + len - 1
  <2> HAVE Collected # <<>>
  <2>1. 1 \in 1..len /\ len \in 1..len
    BY <1>4, <1>5
  <2>2. Collected[1] = start + 1 - 1 /\ Collected[len] = start + len - 1
    BY <1>4, <2>1
  <2> QED
    BY <1>3, <2>2
<1>8. Collected # <<>> <=> len # 0
  BY <1>4, <1>5, <1>6
<1> QED
  BY <1>1, <1>3, <1>4, <1>5, <1>7, <1>8

\* A line of an mbox: what it does to the mbox that is read.
MboxLine ==
  LET whole == Collected # <<>> /\ (Line = "From" \/ AtEOF) IN
  /\ Moves(Collected)
  /\ \/ whole /\ results'[at.source] = Append(results[at.source], Collected)
     \/ /\ results'[at.source] = results[at.source]
        /\ whole => limit > 0 /\ NextSource
  /\ buffer' = IF whole THEN <<>> ELSE Collected
  /\ listing' = Unlisted
  /\ \/ NextPosition /\ ~AtEOF
     \/ NextSource /\ (limit = 0 => AtEOF)
  /\ ~MeetNone => whole
LEMMA LinesOfMbox ==
  ASSUME SourcesInv, WalkTypes, at.source \in DOMAIN sources, Source.kind = "mbox", MboxSoFar,
         ProcessMboxLine \/ TrainMboxLine
  PROVE  MboxLine
<1> DEFINE whole == Collected # <<>> /\ (Line = "From" \/ AtEOF)
<1>1. /\ Collected \in Seq(Nat) /\ results \in [DOMAIN sources -> Seq(Seq(Nat))]
      /\ listing = Unlisted
  BY CollectedLines DEF WalkTypes, MboxSoFar
<1>2. Line = "text" => Collected # <<>>
  <2> HAVE Line = "text"
  <2>1. Collected \in Seq(Nat) /\ Collected = Append(buffer, at.pos) /\ buffer \in Seq(Nat)
        /\ at.pos \in Nat
    BY <1>1 DEF Collected, WalkTypes
  <2>2. Len(Collected) = Len(buffer) + 1 /\ Len(buffer) \in Nat
    BY <2>1, OneLonger
  <2> QED
    BY <2>2, EmptySeq
<1>3. AtEOF => whole \/ Collected = <<>>
  OBVIOUS
<1>4. /\ Read("mbox") /\ listing' = listing
      /\ buffer' = IF whole THEN <<>> ELSE Collected
      /\ \/ whole /\ MeetWhole(Collected)
         \/ MeetNone /\ (whole => limit > 0 /\ NextSource)
      /\ \/ NextPosition /\ ~AtEOF
         \/ NextSource /\ (AtEOF \/ (Line = "From" /\ limit > 0))
  <2>1. CASE ProcessMboxLine
    BY <2>1 DEF ProcessMboxLine
  <2>2. CASE TrainMboxLine
    BY <2>2 DEF TrainMboxLine
  <2> QED
    BY <2>1, <2>2
<1>5. NextSource => buffer' = <<>>
  <2> HAVE NextSource
  <2>1. at' # at
    <3>1. at.source \in Nat /\ at'.source = at.source + 1
      BY DEF NextSource, WalkTypes
    <3> QED
      BY <3>1
  <2>2. ~NextPosition
    <3>1. at.source \in Nat /\ at'.source = at.source + 1
      BY DEF NextSource, WalkTypes
    <3>2. ASSUME NextPosition PROVE at'.source = at.source
      BY <3>2 DEF NextPosition, WalkTypes
    <3> QED
      BY <3>1, <3>2
  <2>3. AtEOF \/ Line = "From"
    BY <1>4, <2>2
  <2> QED
    BY <1>4, <2>3
<1>6. Moves(Collected)
  <2>1. /\ status = "reading" /\ Steady /\ UNCHANGED <<status, split, modelFile>>
    BY <1>4 DEF Read
  <2>2. listing' = Unlisted /\ listing' \in [open : BOOLEAN, names : SUBSET Nat]
        /\ listing'.names = {}
    BY <1>1, <1>4 DEF Unlisted
  <2>3. buffer' \in Seq(Nat)
    BY <1>1, <1>4, EmptySeq
  <2> QED
    BY <1>1, <1>4, <1>5, <2>1, <2>2, <2>3 DEF Moves
<1>7. MeetWhole(Collected) => results'[at.source] = Append(results[at.source], Collected)
  BY <1>1 DEF MeetWhole, Meet
<1>8. MeetNone => results'[at.source] = results[at.source]
  BY DEF MeetNone
<1>9. listing' = Unlisted
  BY <1>1, <1>4
<1> HIDE DEF whole
<1>10. /\ \/ whole /\ results'[at.source] = Append(results[at.source], Collected)
          \/ /\ results'[at.source] = results[at.source]
             /\ whole => limit > 0 /\ NextSource
       /\ buffer' = IF whole THEN <<>> ELSE Collected
       /\ \/ NextPosition /\ ~AtEOF
          \/ NextSource /\ (limit = 0 => AtEOF)
       /\ ~MeetNone => whole
  <2>1. limit > 0 => limit # 0
    BY DEF SourcesInv
  <2> QED
    BY <1>4, <1>7, <1>8, <2>1
<1> QED
  BY <1>6, <1>9, <1>10 DEF MboxLine, whole
\* Where a step that reads leaves it.
LEMMA PlaceAfter ==
  ASSUME WalkTypes
  PROVE  /\ at.source \in Nat /\ at.pos \in Nat /\ at.source # 0 /\ at.pos # 0
         /\ NextPosition => at'.source = at.source /\ at'.pos = at.pos + 1 /\ at'.before = at.before
         /\ NextSource => /\ at'.source = at.source + 1 /\ at'.source # at.source
                          /\ at'.pos = 1 /\ at'.before = Len(corpus')
<1>1. at \in [source : Nat \ {0}, pos : Nat \ {0}, before : 0..Len(corpus)]
  BY DEF WalkTypes
<1>2. NextPosition => at' = [source |-> at.source, pos |-> at.pos + 1, before |-> at.before]
  BY <1>1 DEF NextPosition
<1> QED
  BY <1>1, <1>2 DEF NextSource

\* A line of an mbox leaves it split as it should be.
LEMMA MboxKept ==
  ASSUME SourcesInv, WalkTypes, at.source \in DOMAIN sources, Source.kind = "mbox",
         NEW s \in DOMAIN sources, s = at.source, SourceInv(s), MboxLine
  PROVE  /\ SourceInv(s)'
         /\ MeetNone \/ Collected \notin ToSet(results[at.source])
<1>17. PICK start : start = at.pos - Len(buffer)
  OBVIOUS
<1>18. PICK c : c = Len(Collected)
  OBVIOUS
<1> DEFINE lines == sources[s].lines
           met == results[s]
           C == Collected
           whole == C # <<>> /\ (Line = "From" \/ AtEOF)
           L == Len(lines)
           m == Len(met)
<1>1. MboxIsSplit(s) /\ MboxSoFar /\ sources[s].kind = "mbox" /\ Source = sources[s]
  BY DEF SourceInv, Source
<1>2. /\ L \in Nat /\ DOMAIN lines = 1..L
      /\ at.pos \in 1..(L + 1) /\ at.pos \in Nat
      /\ Line \in {"From", "text", "nothing"}
      /\ Line = "nothing" <=> at.pos = L + 1
      /\ Line # "nothing" => at.pos \in 1..L /\ lines[at.pos] = Line
  BY <1>1, LineAt
<1>3. /\ C \in Seq(Nat) /\ c \in Nat /\ DOMAIN C = 1..c
      /\ start \in Nat /\ start >= 1
      /\ \A j \in 1..c : C[j] = start + j - 1 /\ lines[C[j]] = "text"
      /\ start + c = (IF Line = "text" THEN at.pos + 1 ELSE at.pos)
      /\ C # <<>> <=> c # 0
      /\ C # <<>> => C[1] = start /\ Last(C) = start + c - 1
  BY <1>1, <1>17, <1>18, CollectedLines
<1>4. /\ met \in Seq(Seq(Nat)) /\ m \in Nat /\ DOMAIN met = 1..m
      /\ command' = command /\ sources' = sources /\ limit' = limit /\ moved' = moved
      /\ limit \in Nat
  <2>1. met \in Seq(Seq(Nat))
    BY DEF WalkTypes
  <2>2. m \in Nat /\ DOMAIN met = 1..m
    BY <2>1, LenProperties
  <2> QED
    BY <2>1, <2>2 DEF MboxLine, Moves, Steady, SourcesInv
<1>5. /\ start = 1 \/ lines[start - 1] = "From"
      /\ \A i \in 1..m : Last(met[i]) < start
      /\ \A n \in 1..(start - 1) : lines[n] = "text" => \E i \in 1..m : n \in ToSet(met[i])
  BY <1>1, <1>4, <1>17 DEF MboxSoFar
<1>6. AtEOF <=> at.pos = L + 1 \/ (at.pos = L /\ ~sources[s].terminated)
  BY <1>1, <1>2 DEF AtEOF
<1> HIDE DEF lines, met, C, L, m
<1>7. C # <<>> => C \notin ToSet(met)
  <2> HAVE C # <<>>
  <2>1. Last(C) = start + c - 1 /\ c \in Nat /\ c # 0
    BY <1>3
  <2>2. \A i \in 1..m : met[i] # C
    <3> TAKE i \in 1..m
    <3>1. Last(C) >= start
      BY <1>3, <2>1
    <3>2. Last(met[i]) < start
      BY <1>5
    <3>3. start \in Nat
      BY <1>3
    <3> QED
      BY <2>1, <3>1, <3>2, <3>3
  <2> QED
    BY <1>4, <2>2 DEF ToSet
<1>8. whole => IsRun(lines, C)
  <2> HAVE whole
  <2>1. c >= 1 /\ C[1] = start /\ Last(C) = start + c - 1
    BY <1>3
  <2>2. \A j \in DOMAIN C : C[j] = C[1] + j - 1 /\ lines[C[j]] = "text"
    BY <1>3, <2>1
  <2>3. start = 1 \/ lines[start - 1] = "From"
    BY <1>5
  <2>4. Last(C) = L \/ lines[Last(C) + 1] = "From"
    <3>1. CASE Line = "From"
      <4>1. start + c = at.pos /\ lines[at.pos] = "From"
        BY <1>2, <1>3, <3>1
      <4>2. Last(C) + 1 = at.pos
        BY <1>3, <2>1, <4>1
      <4> QED
        BY <4>1, <4>2
    <3>2. CASE Line # "From" /\ AtEOF
      <4>1. CASE Line = "text"
        <5>1. start + c = at.pos + 1 /\ at.pos = L
          BY <1>2, <1>3, <1>6, <3>2, <4>1
        <5> QED
          BY <1>2, <1>3, <2>1, <5>1
      <4>2. CASE Line = "nothing"
        <5>1. start + c = at.pos /\ at.pos = L + 1
          BY <1>2, <1>3, <4>2
        <5> QED
          BY <1>2, <1>3, <2>1, <5>1
      <4> QED
        BY <1>2, <3>2, <4>1, <4>2
    <3> QED
      BY <3>1, <3>2
  <2> QED
    BY <2>1, <2>2, <2>3, <2>4 DEF IsRun, L
\* The text before a line n that was read and is not being collected was met.
<1>9. \A n \in 1..L : lines[n] = "text" /\ n < start => \E i \in 1..m : n \in ToSet(met[i])
  BY <1>3, <1>5
<1>10. \A n \in 1..L : start <= n /\ n < start + c => n \in ToSet(C)
  <2> TAKE n \in 1..L
  <2> HAVE start <= n /\ n < start + c
  <2>1. n - start + 1 \in 1..c /\ start + (n - start + 1) - 1 = n
    BY <1>2, <1>3
  <2>2. C[n - start + 1] = n
    BY <1>3, <2>1
  <2> QED
    BY <1>3, <2>1, <2>2 DEF ToSet
\* At the end of the file, all text is met or collected.
<1>11. AtEOF => \A n \in 1..L : lines[n] = "text" => n < start + c
  <2> SUFFICES ASSUME AtEOF, NEW n \in 1..L, lines[n] = "text", ~(n < start + c) PROVE FALSE
    OBVIOUS
  <2>1. n >= start + c /\ start + c >= at.pos /\ n \in Nat
    BY <1>2, <1>3
  <2>2. at.pos = L /\ n = L /\ Line # "text"
    BY <1>2, <1>3, <1>6, <2>1
  <2> QED
    BY <1>2, <2>2
<1> DEFINE met1 == results'[s]
           m1 == Len(met1)
<1>12. /\ \/ whole /\ met1 = Append(met, C)
          \/ met1 = met /\ (whole => limit > 0 /\ NextSource)
       /\ \/ NextPosition /\ ~AtEOF
          \/ NextSource /\ (limit = 0 => AtEOF)
       /\ buffer' = (IF whole THEN <<>> ELSE C) /\ listing' = Unlisted
  BY DEF MboxLine, C, met
<1>13. /\ m1 \in Nat /\ DOMAIN met1 = 1..m1 /\ m <= m1
       /\ \A i \in 1..m : met1[i] = met[i]
       /\ whole /\ met1 = Append(met, C) => m1 = m + 1 /\ met1[m1] = C
       /\ ~whole \/ met1 = met => m1 = m
  <2>1. CASE met1 = met
    <3>1. whole => met1 # Append(met, C)
      BY <1>3, <1>4, <2>1, OneLonger
    <3>2. m1 = m
      BY <2>1 DEF m
    <3> HIDE DEF m1, met1
    <3> QED
      BY <1>4, <2>1, <3>1, <3>2
  <2>2. CASE whole /\ met1 = Append(met, C)
    <3>1. /\ DOMAIN met1 = 1..(m + 1) /\ m1 = m + 1 /\ m \in Nat
          /\ \A i \in 1..m : met1[i] = met[i]
          /\ met1[m + 1] = C
      BY <1>3, <1>4, <2>2, OneLonger DEF m
    <3> QED
      BY <2>2, <3>1
  <2> QED
    BY <1>12, <2>1, <2>2
<1> HIDE DEF met1, m1
\* All the text that the properties ask for is met now.
<1>14. ASSUME NEW n \in 1..L, lines[n] = "text", n < start \/ (whole /\ met1 = Append(met, C) /\ n < start + c)
       PROVE  \E i \in 1..m1 : n \in ToSet(met1[i])
  <2>1. CASE n < start
    <3>1. PICK i \in 1..m : n \in ToSet(met[i])
      BY <1>9, <1>14, <2>1
    <3>2. i \in 1..m1 /\ met1[i] = met[i]
      BY <1>4, <1>13
    <3> QED
      BY <3>1, <3>2
  <2>2. CASE ~(n < start)
    <3>1. n \in ToSet(C)
      BY <1>2, <1>3, <1>10, <1>14, <2>2
    <3>2. m1 \in 1..m1 /\ met1[m1] = C
      BY <1>4, <1>13, <1>14, <2>2
    <3> QED
      BY <3>1, <3>2
  <2> QED
    BY <2>1, <2>2
<1>15. MboxIsSplit(s)'
  <2>1. \A i \in 1..m : IsRun(lines, met[i])
    BY <1>1, <1>4 DEF MboxIsSplit, lines, met
  <2>2. \A i \in 1..m1 : IsRun(lines, met1[i])
    <3> TAKE i \in 1..m1
    <3>1. CASE i \in 1..m
      BY <1>13, <2>1, <3>1
    <3>2. CASE i \notin 1..m
      <4>1. i = m1 /\ whole /\ met1[m1] = C
        BY <1>4, <1>12, <1>13, <3>2
      <4> QED
        BY <1>8, <4>1
    <3> QED
      BY <3>1, <3>2
  <2>3. \A i, j \in 1..m1 : i < j => Last(met1[i]) < met1[j][1]
    <3> TAKE i, j \in 1..m1
    <3> HAVE i < j
    <3>1. CASE j \in 1..m
      <4>1. i \in 1..m
        BY <1>4, <1>13, <3>1
      <4>2. Last(met[i]) < met[j][1]
        BY <1>1, <1>4, <3>1, <4>1 DEF MboxIsSplit, met
      <4> QED
        BY <1>13, <3>1, <4>1, <4>2
    <3>2. CASE j \notin 1..m
      <4>1. j = m1 /\ whole /\ met1[m1] = C /\ m1 = m + 1
        BY <1>4, <1>12, <1>13, <3>2
      <4>2. i \in 1..m /\ met1[i] = met[i]
        BY <1>4, <1>13, <4>1
      <4>3. Last(met[i]) < start /\ C[1] = start
        BY <1>3, <1>5, <4>1, <4>2
      <4> QED
        BY <4>1, <4>2, <4>3
    <3> QED
      BY <3>1, <3>2
  <2>4. ASSUME NEW n \in 1..L, lines[n] = "text",
               (at'.source > s /\ limit = 0) \/ \E i \in 1..m1 : n < met1[i][1]
        PROVE  \E i \in 1..m1 : n \in ToSet(met1[i])
    <3>1. CASE at'.source > s /\ limit = 0
      <4>2. ~NextPosition
        BY <3>1, PlaceAfter
      <4>3. AtEOF
        BY <1>12, <3>1, <4>2
      <4>4. n < start + c
        BY <1>11, <2>4, <4>3
      <4>5. CASE whole
        <5>1. met1 = Append(met, C)
          BY <1>12, <3>1, <4>5
        <5> QED
          BY <1>14, <2>4, <4>4, <4>5, <5>1
      <4>6. CASE ~whole
        <5>1. c = 0
          BY <1>3, <4>3, <4>6
        <5>2. n < start
          BY <1>3, <4>4, <5>1
        <5> QED
          BY <1>14, <2>4, <5>2
      <4> QED
        BY <4>5, <4>6
    <3>2. ASSUME NEW i \in 1..m1, n < met1[i][1]
          PROVE  \E k \in 1..m1 : n \in ToSet(met1[k])
      <4>1. CASE i \in 1..m
        <5>1. n < met[i][1]
          BY <1>13, <3>2, <4>1
        <5>2. PICK k \in 1..m : n \in ToSet(met[k])
          BY <1>1, <1>2, <1>4, <2>4, <4>1, <5>1 DEF MboxIsSplit, lines, met
        <5>3. k \in 1..m1 /\ met1[k] = met[k]
          BY <1>4, <1>13
        <5> QED
          BY <5>2, <5>3
      <4>2. CASE i \notin 1..m
        <5>1. i = m1 /\ whole /\ met1[m1] = C
          BY <1>4, <1>12, <1>13, <4>2
        <5>2. n < start
          BY <1>3, <3>2, <5>1
        <5> QED
          BY <1>14, <2>4, <5>2
      <4> QED
        BY <4>1, <4>2
    <3> QED
      BY <2>4, <3>1, <3>2
  <2> QED
    BY <1>2, <1>4, <1>13, <2>2, <2>3, <2>4 DEF MboxIsSplit, lines, met1
<1>16. ASSUME s = at'.source PROVE MboxSoFar'
  <2>1. NextPosition /\ ~AtEOF
    <3>2. ~NextSource
      BY <1>16, PlaceAfter
    <3> QED
      BY <1>12, <3>2
  <2>2. at'.pos = at.pos + 1
    BY <2>1, PlaceAfter
  <2>3. at.pos \in 1..L /\ Line \in {"From", "text"} /\ lines[at.pos] = Line
    BY <1>2, <1>6, <2>1
  <2> DEFINE start1 == at'.pos - Len(buffer')
  <2>4. CASE Line = "text"
    <3>1. ~whole /\ buffer' = C /\ met1 = met
      BY <1>12, <2>1, <2>4
    <3>2. start1 = start
      <4>1. Len(buffer') = c /\ start + c = at.pos + 1 /\ at.pos \in Int /\ start \in Int /\ c \in Int
        BY <1>2, <1>3, <1>18, <2>4, <3>1 DEF C
      <4> QED
        BY <2>2, <4>1
    <3> HIDE DEF start1
    <3>3. /\ start1 >= 1 /\ at'.pos <= L + 1
          /\ \A j \in DOMAIN buffer' : buffer'[j] = start1 + j - 1 /\ lines[buffer'[j]] = "text"
          /\ start1 = 1 \/ lines[start1 - 1] = "From"
          /\ \A i \in DOMAIN met1 : Last(met1[i]) < start1
          /\ \A n \in 1..(start1 - 1) : lines[n] = "text" => \E i \in DOMAIN met1 : n \in ToSet(met1[i])
      <4>1. start1 >= 1 /\ at'.pos <= L + 1
        BY <1>2, <1>3, <2>2, <2>3, <3>2
      <4>2. \A j \in DOMAIN buffer' : buffer'[j] = start1 + j - 1 /\ lines[buffer'[j]] = "text"
        BY <1>3, <3>1, <3>2
      <4>3. start1 = 1 \/ lines[start1 - 1] = "From"
        BY <1>5, <3>2
      <4>4. DOMAIN met1 = 1..m
        BY <1>4, <3>1
      <4> QED
        BY <1>5, <3>1, <3>2, <4>1, <4>2, <4>3, <4>4
    <3> QED
      BY <1>4, <1>12, <1>16, <3>3 DEF MboxSoFar, start1, lines, met1, L
  <2>5. CASE Line = "From"
    <3>1. buffer' = <<>> /\ Len(buffer') = 0 /\ DOMAIN buffer' = {} /\ start + c = at.pos
      <4>1. buffer' = <<>>
        BY <1>12, <2>5
      <4> QED
        BY <1>3, <2>5, <4>1
    <3>2. start1 = at.pos + 1
      BY <1>2, <2>2, <3>1
    <3>3. whole => met1 = Append(met, C)
      <4>1. ~NextSource
        BY <1>16, PlaceAfter
      <4> QED
        BY <1>12, <4>1
    <3> HIDE DEF start1
    <3>4. \A i \in 1..m1 : Last(met1[i]) < start1
      <4> TAKE i \in 1..m1
      <4>1. CASE i \in 1..m
        <5>1. Last(met[i]) < start /\ met1[i] = met[i]
          BY <1>5, <1>13, <4>1
        <5>2. Last(met[i]) \in Int
          <6>1. IsRun(lines, met[i])
            BY <1>1, <1>4, <4>1 DEF MboxIsSplit, lines, met
          <6>2. met[i] \in Seq(Nat) /\ met[i] # <<>>
            BY <1>4, <4>1, <6>1, ElementOfSeq DEF IsRun, m
          <6>3. Last(met[i]) \in Nat
            BY <6>2, LastOf, ElementOfSeq
          <6> QED
            BY <6>3
        <5>3. start <= start1
          BY <1>2, <1>3, <3>1, <3>2
        <5>4. start \in Int /\ start1 \in Int
          BY <1>2, <1>3, <3>2
        <5> QED
          BY <5>1, <5>2, <5>3, <5>4
      <4>2. CASE i \notin 1..m
        <5>1. i = m1 /\ whole /\ met1[m1] = C
          BY <1>4, <1>12, <1>13, <4>2
        <5>2. Last(C) = at.pos - 1
          BY <1>3, <3>1, <5>1
        <5> QED
          BY <1>2, <3>2, <5>1, <5>2
      <4> QED
        BY <4>1, <4>2
    <3>5. \A n \in 1..(start1 - 1) : lines[n] = "text" => \E i \in 1..m1 : n \in ToSet(met1[i])
      <4> TAKE n \in 1..(start1 - 1)
      <4> HAVE lines[n] = "text"
      <4>1. n \in 1..at.pos
        BY <1>2, <3>2
      <4>2. n \in 1..L /\ n # at.pos /\ n < start + c
        BY <1>2, <1>3, <2>3, <2>5, <3>1, <4>1
      <4>3. CASE whole
        BY <1>14, <3>3, <4>2, <4>3
      <4>4. CASE ~whole
        <5>1. c = 0
          BY <1>3, <2>5, <4>4
        <5>2. n < start
          BY <1>3, <4>2, <5>1
        <5> QED
          BY <1>14, <4>2, <5>2
      <4> QED
        BY <4>3, <4>4
    <3>6. start1 >= 1 /\ at'.pos <= L + 1 /\ lines[start1 - 1] = "From"
      <4>1. start1 - 1 = at.pos
        BY <1>2, <3>2
      <4> QED
        BY <1>2, <2>2, <2>3, <2>5, <3>2, <4>1
    <3> QED
      BY <1>4, <1>12, <1>13, <1>16, <3>1, <3>4, <3>5, <3>6 DEF MboxSoFar, start1, lines, met1, L
  <2> QED
    BY <2>3, <2>4, <2>5
<1> QED
  BY <1>1, <1>4, <1>7, <1>15, <1>16 DEF SourceInv, MboxLine, met, C
\* The documents of the source that is read are those after the earlier ones'.
LEMMA MovesLimits ==
  ASSUME SourcesInv, WalkTypes, NEW of, Moves(of), LimitInv,
         NEW s \in DOMAIN sources, s = at.source,
         limit > 0 => IF command = "process"
                      THEN Len(results'[s]) <= (IF sources[s].kind = "mbox" THEN limit + 1 ELSE limit)
                      ELSE Len(corpus') - at.before <= limit,
         limit > 0 /\ at'.source = s =>
           IF command = "process" THEN Len(results'[s]) <= limit
           ELSE sources[s].kind = "mbox" => Len(corpus') - at.before < limit
  PROVE  LimitInv'
<1> DEFINE doc == [source |-> s, of |-> of]
           Docs == [source : DOMAIN sources, of : Seq(Nat)]
           n == Len(corpus)
           n1 == Len(corpus')
<1>1. /\ command' = command /\ sources' = sources /\ limit' = limit
      /\ limit \in Nat /\ s \in Nat /\ at.before \in 0..n
      /\ of \in Seq(Nat) /\ corpus \in Seq(Docs)
  BY PlaceAfter DEF Moves, Steady, SourcesInv, WalkTypes
<1>2. /\ \A t \in DOMAIN sources : t # s => results'[t] = results[t]
      /\ \/ results'[s] = results[s] /\ corpus' = corpus
         \/ results'[s] = Append(results[s], of) /\ corpus' = corpus
         \/ /\ results'[s] = Append(results[s], of) /\ command = "train"
            /\ corpus' = Append(corpus, doc)
      /\ n \in Nat /\ n1 \in Nat /\ n <= n1 /\ n1 <= n + 1
  BY MeetEffect
<1>3. doc \in Docs
  BY <1>1
<1> HIDE DEF Docs
<1>4. /\ DOMAIN corpus = 1..n /\ DOMAIN corpus' = 1..n1
      /\ \A i \in 1..n : corpus'[i] = corpus[i]
      /\ \A i \in 1..n1 : i \notin 1..n => i = n + 1 /\ corpus'[i] = doc
  <2>1. CASE corpus' = corpus
    <3>1. n1 = n
      BY <2>1
    <3>2. DOMAIN corpus = 1..n
      BY <1>1, LenProperties
    <3> QED
      BY <2>1, <3>1, <3>2
  <2>2. CASE corpus' = Append(corpus, doc)
    <3>1. /\ n \in Nat /\ DOMAIN corpus = 1..n /\ DOMAIN corpus' = 1..(n + 1) /\ n1 = n + 1
          /\ \A i \in 1..n : corpus'[i] = corpus[i]
          /\ corpus'[n + 1] = doc
      BY <1>1, <1>3, <2>2, OneLonger
    <3> HIDE DEF n, n1, doc
    <3> QED
      BY <3>1
  <2> QED
    BY <1>2, <2>1, <2>2
<1>5. /\ command # "train" => corpus = <<>>
      /\ \A i \in 1..n : corpus[i].source <= s /\ (i <= at.before <=> corpus[i].source < s)
      /\ \A t \in DOMAIN sources : WithinLimit(t)
  BY <1>4 DEF LimitInv
<1>6. \A i \in 1..n : corpus[i].source \in Nat
  <2>1. \A i \in 1..n : corpus[i] \in Docs
    BY <1>1, ElementOfSeq
  <2>2. DOMAIN sources \subseteq Nat
    <3>1. DOMAIN sources = 1..Len(sources)
      BY LenProperties DEF SourcesInv
    <3> QED
      BY <3>1
  <2> QED
    BY <2>1, <2>2 DEF Docs
<1>7. doc.source = s
  OBVIOUS
<1>8. /\ at'.source \in {s, s + 1}
      /\ at'.source = s => at'.before = at.before
      /\ at'.source = s + 1 => at'.before = n1
  <2>1. CASE NextSource
    BY <1>1, <2>1, PlaceAfter
  <2>2. CASE NextPosition \/ UNCHANGED at
    BY <1>1, <2>2, PlaceAfter
  <2> QED
    BY <2>1, <2>2 DEF Moves
<1> HIDE DEF n, n1, doc
<1>9. command # "train" => corpus' = <<>>
  BY <1>2, <1>5
<1>10. \A i \in 1..n1 : corpus'[i].source <= s /\ (i <= at.before <=> corpus'[i].source < s)
  <2> TAKE i \in 1..n1
  <2>1. CASE i \in 1..n
    BY <1>4, <1>5, <2>1
  <2>2. CASE i \notin 1..n
    BY <1>1, <1>2, <1>4, <1>7, <2>2
  <2> QED
    BY <2>1, <2>2
<1>11. \A i \in 1..n1 : corpus'[i].source \in Nat
  BY <1>1, <1>4, <1>6, <1>7
<1>12. \A i \in 1..n1 : corpus'[i].source <= at'.source /\ (i <= at'.before <=> corpus'[i].source < at'.source)
  <2> TAKE i \in 1..n1
  <2>1. CASE at'.source = s
    BY <1>8, <1>10, <2>1
  <2>2. CASE at'.source = s + 1
    BY <1>1, <1>2, <1>8, <1>10, <1>11, <2>2
  <2> QED
    BY <1>8, <2>1, <2>2
<1>13. \A t \in DOMAIN sources : t # s => DocsOf(t)' = DocsOf(t)
  <2> TAKE t \in DOMAIN sources
  <2> HAVE t # s
  <2>1. DocsOf(t) = {i \in 1..n : corpus[i].source = t}
    BY <1>4 DEF DocsOf
  <2>2. DocsOf(t)' = {i \in 1..n1 : corpus'[i].source = t}
    BY <1>4 DEF DocsOf
  <2>3. \A i \in 1..n : i \in 1..n1
    BY <1>2
  <2> QED
    BY <1>4, <1>7, <2>1, <2>2, <2>3
<1>14. DocsOf(s)' = (at.before + 1)..n1
  <2>1. DocsOf(s)' = {i \in 1..n1 : corpus'[i].source = s}
    BY <1>4 DEF DocsOf
  <2>2. \A i \in 1..n1 : corpus'[i].source = s <=> i > at.before
    BY <1>1, <1>10, <1>11
  <2> QED
    BY <1>1, <1>2, <2>1, <2>2
<1>15. Cardinality(DocsOf(s)') = n1 - at.before
  <2>1. at.before \in Int /\ n1 \in Int /\ at.before <= n1
    BY <1>1, <1>2
  <2>2. PICK a \in Int : a = at.before + 1
    BY <2>1
  <2>3. Cardinality(a..n1) = IF a > n1 THEN 0 ELSE n1 - a + 1
    BY <2>1, FS_Interval
  <2> QED
    BY <1>14, <2>1, <2>2, <2>3
<1>16. \A t \in DOMAIN sources : WithinLimit(t)'
  <2> TAKE t \in DOMAIN sources
  <2>1. CASE t # s
    <3>1. results'[t] = results[t] /\ DocsOf(t)' = DocsOf(t) /\ WithinLimit(t)
      BY <1>2, <1>5, <1>13, <2>1
    <3> QED
      BY <1>1, <3>1 DEF WithinLimit
  <2>2. CASE t = s
    BY <1>1, <1>15, <2>2 DEF WithinLimit, n1
  <2> QED
    BY <2>1, <2>2
<1>17. ASSUME limit > 0, at'.source \in DOMAIN sources
       PROVE  IF command = "process" THEN Len(results'[at'.source]) <= limit
              ELSE /\ n1 - at'.before <= limit
                   /\ sources[at'.source].kind = "mbox" => n1 - at'.before < limit
  <2>1. CASE at'.source = s
    BY <1>8, <1>17, <2>1 DEF n1
  <2>2. CASE at'.source = s + 1
    <3>1. results'[s + 1] = <<>>
      BY <1>1, <1>2, <1>17, <2>2 DEF WalkTypes
    <3>2. Len(<<>>) = 0
      BY EmptySeq
    <3> QED
      BY <1>1, <1>2, <1>8, <1>17, <2>2, <3>1, <3>2
  <2> QED
    BY <1>8, <2>1, <2>2
<1> QED
  BY <1>1, <1>4, <1>9, <1>12, <1>16, <1>17 DEF LimitInv, n1
\* What is known of a Maildir's directories, by number.
LEMMA DirsOf ==
  ASSUME NEW src, IsMaildir(src)
  PROVE  /\ src.sub \in SUBSET Nat
         /\ \A d \in 1..3 :
              /\ src.files[SubDirs[d]] \in SUBSET Nat
              /\ src.files[SubDirs[d]] \intersect src.sub = {}
              /\ \A e \in 1..3 : d # e => src.files[SubDirs[d]] \intersect src.files[SubDirs[e]] = {}
         /\ src.files["cur"] = src.files[SubDirs[1]] /\ src.files["new"] = src.files[SubDirs[2]]
<1>1. /\ SubDirs[1] = "cur" /\ SubDirs[2] = "new" /\ SubDirs[3] = "."
      /\ ToSet(SubDirs) = {"cur", "new", "."}
  BY SubDirNames
<1>2. \A d \in 1..3 : d = 1 \/ d = 2 \/ d = 3
  OBVIOUS
<1>3. /\ \A d \in 1..3 : SubDirs[d] \in ToSet(SubDirs)
      /\ \A d, e \in 1..3 : d # e => SubDirs[d] # SubDirs[e]
  BY <1>1, <1>2
<1>4. /\ src.sub \in SUBSET Nat /\ src.files \in [ToSet(SubDirs) -> SUBSET Nat]
      /\ \A c \in ToSet(SubDirs) :
           /\ src.files[c] \intersect src.sub = {}
           /\ \A d \in ToSet(SubDirs) : c # d => src.files[c] \intersect src.files[d] = {}
  BY DEF IsMaildir
<1> QED
  BY <1>1, <1>3, <1>4

\* A message that was not met before, within the limit.
Fresh(of) ==
  /\ Moves(of)
  /\ MeetNone \/ of \notin ToSet(results[at.source])
  /\ limit > 0 => IF command = "process"
                  THEN Len(results'[at.source]) <=
                         (IF sources[at.source].kind = "mbox" THEN limit + 1 ELSE limit)
                  ELSE Len(corpus') - at.before <= limit
  /\ limit > 0 /\ at'.source = at.source =>
       IF command = "process" THEN Len(results'[at.source]) <= limit
       ELSE sources[at.source].kind = "mbox" => Len(corpus') - at.before < limit

LEMMA MaildirMoves ==
  ASSUME SourcesInv, WalkTypes, LimitInv, at.source \in DOMAIN sources, sources[at.source].kind # "mbox",
         MaildirSoFar, OpenDirectory \/ LeaveDirectory \/ LeaveMaildir
  PROVE  Moves(<<>>) /\ MeetNone /\ Fresh(<<>>)
<1>1. /\ Read("maildir") /\ MeetNone /\ buffer' = buffer /\ buffer = <<>>
      /\ \/ NextSource /\ listing' = Unlisted
         \/ NextPosition \/ UNCHANGED at
      /\ listing' \in {listing, Unlisted, ReadDir}
  <2>1. buffer = <<>>
    BY DEF MaildirSoFar
  <2>2. CASE OpenDirectory
    BY <2>1, <2>2 DEF OpenDirectory, InDirectory
  <2>3. CASE LeaveDirectory
    BY <2>1, <2>3 DEF LeaveDirectory, InDirectory
  <2>4. CASE LeaveMaildir
    <3>1. ~listing.open
      BY <2>4 DEF LeaveMaildir, MaildirSoFar, WalkTypes, Directories
    <3>2. listing = Unlisted
      BY <3>1 DEF WalkTypes, Unlisted
    <3> QED
      BY <2>1, <2>4, <3>2 DEF LeaveMaildir
  <2> QED
    BY <2>2, <2>3, <2>4
<1>2. listing' \in [open : BOOLEAN, names : SUBSET Nat] /\ (~listing'.open => listing'.names = {})
  <2>1. CASE listing' = listing
    BY <2>1 DEF WalkTypes
  <2>2. CASE listing' = Unlisted
    BY <2>2 DEF Unlisted
  <2>3. CASE listing' = ReadDir /\ OpenDirectory
    <3>1. IsMaildir(Source)
      BY DEF SourcesInv, IsMbox, Source
    <3>2. at.pos \in 1..3
      BY <2>3, PlaceAfter DEF OpenDirectory, InDirectory, Directories
    <3>3. Source.files[SubDirs[at.pos]] \in SUBSET Nat /\ Source.sub \in SUBSET Nat
      BY <3>1, <3>2, DirsOf
    <3> QED
      BY <2>3, <3>3 DEF ReadDir, SubDir
  <2>4. OpenDirectory \/ listing' \in {listing, Unlisted}
    BY <1>1 DEF LeaveDirectory, LeaveMaildir
  <2> QED
    BY <1>1, <2>1, <2>2, <2>3, <2>4
<1>3. Moves(<<>>)
  <2>1. <<>> \in Seq(Nat) /\ buffer' \in Seq(Nat)
    BY <1>1, EmptySeq
  <2> QED
    BY <1>1, <1>2, <2>1 DEF Moves, Read
<1>4. results' = results /\ corpus' = corpus
  BY <1>1 DEF MeetNone
<1>5. limit > 0 => IF command = "process" THEN Len(results[at.source]) <= limit
                   ELSE Len(corpus) - at.before <= limit
  BY DEF LimitInv
<1> QED
  BY <1>1, <1>3, <1>4, <1>5 DEF Fresh
\* Going through the directories of a Maildir leaves what was met of it as it should be.
LEMMA MaildirPassed ==
  ASSUME SourcesInv, WalkTypes, LimitInv, NEW s \in DOMAIN sources, s = at.source,
         sources[s].kind # "mbox", SourceInv(s), Moves(<<>>), MeetNone,
         OpenDirectory \/ LeaveDirectory \/ LeaveMaildir
  PROVE  SourceInv(s)'
<1> DEFINE src == sources[s]
           met == results[s]
           D == Directories
           P == at.pos
           In(d) == IF src.dir[SubDirs[d]] = "readable" THEN src.files[SubDirs[d]] ELSE {}
<1>1. /\ command' = command /\ sources' = sources /\ limit' = limit /\ moved' = moved
      /\ results' = results
  BY DEF Moves, Steady, MeetNone
<1>2. D' = D /\ D \in {2, 3} /\ P \in Nat /\ P # 0 /\ limit \in Nat
  BY <1>1, PlaceAfter DEF Directories, SourcesInv
<1>3. /\ IsMaildir(src) /\ Source = src /\ MaildirOnce(s) /\ MaildirMet(s) /\ MaildirSoFar
  BY DEF SourceInv, SourcesInv, IsMbox, Source
<1>4. MaildirMet(s)'
  BY <1>1, <1>2, <1>3 DEF MaildirMet
<1>5. /\ P <= D + 1 /\ buffer = <<>>
      /\ listing.open => P <= D /\ src.dir[SubDirs[P]] = "readable"
      /\ \A i \in DOMAIN met :
           /\ met[i][1] <= P /\ met[i][2] \notin listing.names
           /\ met[i][1] = P => listing.open
      /\ limit = 0 /\ ~moved =>
           /\ \A d \in 1..(P - 1) : \A f \in In(d) : <<d, f>> \in ToSet(met)
           /\ listing.open => \A f \in In(P) \ listing.names : <<P, f>> \in ToSet(met)
  BY <1>3 DEF MaildirSoFar
<1>6. \A i \in DOMAIN met :
        /\ met[i] = <<met[i][1], met[i][2]>> /\ met[i][1] \in 1..D /\ met[i][2] \in Nat \ src.sub
        /\ src.dir[SubDirs[met[i][1]]] = "readable"
        /\ \/ met[i][2] \in src.files[SubDirs[met[i][1]]]
           \/ moved /\ met[i][1] = 2 /\ met[i][2] \in src.files["cur"]
  BY <1>3 DEF MaildirMet
<1>7. ~listing.open => listing.names = {}
  BY DEF WalkTypes
<1>8. \A d \in 1..D : d \in 1..3
  BY <1>2
\* When the last directory is left, all were met.
<1>9. ASSUME LeaveMaildir, limit = 0, ~moved
      PROVE  ToSet(met) = UNION {{<<d, f>> : f \in In(d)} : d \in 1..D}
  <2>1. P > D
    BY <1>9 DEF LeaveMaildir
  <2>2. P - 1 = D
    BY <1>2, <1>5, <2>1
  <2>3. \A d \in 1..D : \A f \in In(d) : <<d, f>> \in ToSet(met)
    BY <1>5, <1>9, <2>2
  <2>4. \A i \in DOMAIN met : met[i][1] \in 1..D /\ met[i][2] \in In(met[i][1])
    BY <1>6, <1>9
  <2> HIDE DEF D, In, met
  <2>5. ASSUME NEW e \in ToSet(met) PROVE e \in UNION {{<<d, f>> : f \in In(d)} : d \in 1..D}
    <3>1. PICK i \in DOMAIN met : e = met[i]
      BY DEF ToSet
    <3>2. e = <<met[i][1], met[i][2]>>
      BY <1>6, <3>1 DEF met, D
    <3> QED
      BY <2>4, <3>2
  <2>6. ASSUME NEW e \in UNION {{<<d, f>> : f \in In(d)} : d \in 1..D} PROVE e \in ToSet(met)
    BY <2>3
  <2> QED
    BY <2>5, <2>6
<1>10. NextSource => LeaveMaildir \/ limit > 0
  <2> SUFFICES ASSUME NextSource, ~LeaveMaildir, limit = 0 PROVE FALSE
    BY <1>2
  <2>1. at' # at /\ ~NextPosition
    BY PlaceAfter
  <2>2. CASE OpenDirectory
    BY <2>1, <2>2 DEF OpenDirectory
  <2>3. CASE LeaveDirectory
    BY <2>1, <2>3 DEF LeaveDirectory
  <2> QED
    BY <2>2, <2>3
<1>11. MaildirOnce(s)'
  <2>1. at'.source > s => NextSource
    BY PlaceAfter DEF Moves
  <2>2. ASSUME (at'.source > s /\ limit = 0 /\ ~moved)
        PROVE  ToSet(met) = UNION {{<<d, f>> : f \in In(d)} : d \in 1..D}
    BY <1>2, <1>9, <1>10, <2>1, <2>2
  <2> HIDE DEF D
  <2> QED
    BY <1>1, <1>2, <1>3, <2>2 DEF MaildirOnce, D
<1>12. ASSUME s = at'.source PROVE MaildirSoFar'
  <2>1. ~NextSource
    BY <1>12, PlaceAfter
  <2>2. CASE UNCHANGED at /\ listing' = ReadDir /\ OpenDirectory
    <3>1. src.dir[SubDirs[P]] = "readable" /\ listing = Unlisted /\ P <= D /\ buffer' = <<>>
      <4>1. at' = at /\ ~NextPosition
        BY <2>2, PlaceAfter
      <4> QED
        BY <1>3, <1>5, <2>2, <4>1 DEF OpenDirectory, InDirectory, SubDir
    <3>2. listing'.open /\ listing'.names = src.files[SubDirs[P]] \union src.sub
      BY <1>3, <2>2 DEF ReadDir, SubDir
    <3>3. P \in 1..3 /\ ~listing.open /\ P \in 1..D
      BY <1>2, <3>1 DEF Unlisted
    <3>4. \A i \in DOMAIN met : met[i][1] < P /\ met[i][2] \notin listing'.names
      <4> TAKE i \in DOMAIN met
      <4>1. met[i][1] < P
        BY <1>2, <1>5, <1>6, <3>3
      <4>2. met[i][1] \in 1..3 /\ met[i][1] # P
        BY <1>2, <1>6, <1>8, <4>1
      <4>3. met[i][2] \notin src.files[SubDirs[P]]
        <5>1. CASE met[i][2] \in src.files[SubDirs[met[i][1]]]
          BY <1>3, <3>3, <4>2, <5>1, DirsOf
        <5>2. CASE met[i][1] = 2 /\ met[i][2] \in src.files["cur"]
          <6>1. P \in 1..3 /\ P # 1
            BY <3>3, <4>1, <5>2
          <6>2. met[i][2] \in src.files[SubDirs[1]] /\ 1 \in 1..3
            BY <1>3, <5>2, DirsOf
          <6> QED
            BY <1>3, <6>1, <6>2, DirsOf
        <5> QED
          BY <1>6, <5>1, <5>2
      <4> QED
        BY <1>6, <3>2, <4>1, <4>3
    <3>5. limit = 0 /\ ~moved =>
            /\ \A d \in 1..(P - 1) : \A f \in In(d) : <<d, f>> \in ToSet(met)
            /\ \A f \in In(P) \ listing'.names : <<P, f>> \in ToSet(met)
      BY <1>5, <3>2
    <3>6. at'.pos = P /\ at'.source = s
      BY <2>2
    <3> HIDE DEF P, D
    <3> QED
      BY <1>1, <1>2, <1>5, <3>1, <3>2, <3>3, <3>4, <3>5, <3>6 DEF MaildirSoFar, D
  <2>3. CASE NextPosition /\ listing' = Unlisted
    <3>1. at'.pos = P + 1 /\ at'.source = s
      BY <2>3, PlaceAfter
    <3>2. P <= D /\ (In(P) # {} => listing.open /\ listing.names = {})
      <4>1. CASE OpenDirectory
        <5>1. src.dir[SubDirs[P]] # "readable"
          <6>1. at' # at
            BY <2>3, PlaceAfter
          <6> QED
            BY <1>3, <4>1, <6>1 DEF OpenDirectory, SubDir
        <5> QED
          BY <4>1, <5>1 DEF OpenDirectory, InDirectory
      <4>2. CASE LeaveDirectory
        BY <4>2 DEF LeaveDirectory, InDirectory
      <4>3. CASE LeaveMaildir
        BY <2>1, <4>3 DEF LeaveMaildir
      <4> QED
        BY <4>1, <4>2, <4>3
    <3>3. ~listing'.open /\ listing'.names = {} /\ buffer' = <<>>
      <4>1. buffer' = buffer
        BY DEF OpenDirectory, LeaveDirectory, LeaveMaildir
      <4> QED
        BY <1>5, <2>3, <4>1 DEF Unlisted
    <3>4. \A i \in DOMAIN met : met[i][1] <= P + 1 /\ met[i][1] # P + 1
      BY <1>2, <1>5, <1>6
    <3>5. limit = 0 /\ ~moved => \A d \in 1..P : \A f \in In(d) : <<d, f>> \in ToSet(met)
      <4> SUFFICES ASSUME limit = 0, ~moved, NEW d \in 1..P, NEW f \in In(d)
                   PROVE  <<d, f>> \in ToSet(met)
        OBVIOUS
      <4>1. CASE d \in 1..(P - 1)
        BY <1>5, <4>1
      <4>2. CASE d = P
        BY <1>5, <3>2, <4>2
      <4> QED
        BY <1>2, <4>1, <4>2
    <3>6. (P + 1) - 1 = P /\ P + 1 <= D + 1
      BY <1>2, <3>2
    <3> HIDE DEF P, D
    <3> QED
      BY <1>1, <1>2, <3>1, <3>3, <3>4, <3>5, <3>6 DEF MaildirSoFar, D
  <2>4. \/ UNCHANGED at /\ listing' = ReadDir /\ OpenDirectory
        \/ NextPosition /\ listing' = Unlisted
    BY <2>1 DEF OpenDirectory, LeaveDirectory, LeaveMaildir
  <2> QED
    BY <2>2, <2>3, <2>4
<1> QED
  BY <1>1, <1>4, <1>11, <1>12 DEF SourceInv
\* A listing gives one of its names.
LEMMA NameLeaves ==
  ASSUME NEW l, NEW open, NEW names, l = [open |-> open, names |-> names], NEW n
  PROVE  [l EXCEPT !.names = @ \ {n}] = [open |-> open, names |-> names \ {n}]
<1>1. PICK less : less = l.names \ {n}
  OBVIOUS
<1>2. [l EXCEPT !.names = less] = [open |-> open, names |-> less]
  OBVIOUS
<1>3. [l EXCEPT !.names = @ \ {n}] = [l EXCEPT !.names = less]
  BY <1>1
<1>4. l.names = names
  OBVIOUS
<1> QED
  BY <1>1, <1>2, <1>3, <1>4

\* A name of a listing: a subdirectory, a message beyond the limit, or one that is met.
LEMMA EntryMoves ==
  ASSUME SourcesInv, WalkTypes, LimitInv, NEW s \in DOMAIN sources, s = at.source,
         sources[s].kind # "mbox", SourceInv(s), NEW entry, entry = Min(listing.names), ReadEntry
  PROVE  /\ Fresh(<<at.pos, entry>>)
         /\ entry \in listing.names /\ \A n \in listing.names : entry <= n
         /\ listing.open /\ at.pos <= Directories /\ at.pos \in Nat /\ entry \in Nat
         /\ listing.names \in SUBSET Nat
         /\ \/ /\ MeetNone /\ at' = at /\ entry \in sources[s].sub
               /\ listing' = [open |-> TRUE, names |-> listing.names \ {entry}]
            \/ MeetNone /\ NextSource /\ limit > 0
            \/ /\ results'[s] = Append(results[s], <<at.pos, entry>>) /\ at' = at
               /\ entry \notin sources[s].sub
               /\ listing' = [open |-> TRUE, names |-> listing.names \ {entry}]
<1> DEFINE of == <<at.pos, entry>>
           less == [open |-> TRUE, names |-> listing.names \ {entry}]
<1>1. /\ listing \in [open : BOOLEAN, names : SUBSET Nat] /\ listing.names # {} /\ listing.open
      /\ Read("maildir") /\ at.pos <= Directories /\ Source = sources[s] /\ buffer' = buffer
      /\ results \in [DOMAIN sources -> Seq(Seq(Nat))]
  BY DEF ReadEntry, InDirectory, WalkTypes, Source
<1>2. entry \in listing.names /\ \A n \in listing.names : entry <= n
  BY <1>1, LeastName
<1>3. entry \in Nat /\ at.pos \in Nat /\ of \in Seq(Nat) /\ buffer = <<>>
      /\ \A i \in DOMAIN results[s] : results[s][i][2] \notin listing.names
      /\ listing.names \in SUBSET Nat
  BY <1>1, <1>2, PlaceAfter DEF SourceInv, MaildirSoFar
<1>4. [listing EXCEPT !.names = @ \ {entry}] = less
  <2>1. listing = [open |-> listing.open, names |-> listing.names] /\ listing.open = TRUE
    BY <1>1
  <2>2. [listing EXCEPT !.names = @ \ {entry}] = [open |-> listing.open, names |-> listing.names \ {entry}]
    BY <2>1, NameLeaves
  <2> QED
    BY <2>1, <2>2
<1> DEFINE full == limit > 0 /\ Taken >= limit
<1>5. \/ entry \in sources[s].sub /\ listing' = less /\ at' = at /\ MeetNone
      \/ entry \notin sources[s].sub /\ full /\ listing' = Unlisted /\ MeetNone /\ NextSource
      \/ /\ entry \notin sources[s].sub /\ ~full /\ listing' = less /\ at' = at
         /\ MeetWhole(of) \/ (Meet(of) /\ UNCHANGED corpus)
  <2> HIDE DEF full
  <2> QED
    BY <1>1, <1>4 DEF ReadEntry, full
<1> HIDE DEF of
<1>6. Moves(of)
  <2>1. /\ less \in [open : BOOLEAN, names : SUBSET Nat] /\ less.open
        /\ Unlisted \in [open : BOOLEAN, names : SUBSET Nat] /\ Unlisted.names = {}
    <3>0. listing.names \in SUBSET Nat
      BY DEF WalkTypes
    <3>1. listing.names \ {entry} \in SUBSET Nat
      BY <3>0
    <3>2. \A o \in BOOLEAN, t \in SUBSET Nat :
            [open |-> o, names |-> t] \in [open : BOOLEAN, names : SUBSET Nat]
      OBVIOUS
    <3>3. less \in [open : BOOLEAN, names : SUBSET Nat]
      BY <3>1, <3>2
    <3>4. Unlisted \in [open : BOOLEAN, names : SUBSET Nat]
      BY <3>2 DEF Unlisted
    <3> QED
      BY <3>3, <3>4 DEF Unlisted
  <2>2. buffer' = <<>> /\ buffer' \in Seq(Nat)
    BY <1>1, <1>3, EmptySeq
  <2> HIDE DEF less, full
  <2> QED
    BY <1>1, <1>3, <1>5, <2>1, <2>2 DEF Moves, Read
<1>7. of \notin ToSet(results[s])
  <2>1. of[2] = entry
    BY DEF of
  <2> QED
    BY <1>2, <1>3, <2>1 DEF ToSet
<1>8. MeetWhole(of) \/ (Meet(of) /\ UNCHANGED corpus) => results'[s] = Append(results[s], of)
  BY <1>1 DEF MeetWhole, Meet
<1>9. /\ limit \in Nat /\ Len(results[s]) \in Nat /\ Len(corpus) \in Nat /\ at.before \in Nat
      /\ limit > 0 => IF command = "process" THEN Len(results[s]) <= limit
                      ELSE Len(corpus) - at.before <= limit
      /\ limit > 0 /\ ~full => IF command = "process" THEN Len(results[s]) < limit
                               ELSE Len(corpus) - at.before < limit
  <2>1. results[s] \in Seq(Seq(Nat)) /\ corpus \in Seq([source : DOMAIN sources, of : Seq(Nat)])
    BY DEF WalkTypes
  <2>2. Len(results[s]) \in Nat /\ Len(corpus) \in Nat
    BY <2>1, LenProperties
  <2>3. at.before \in 0..Len(corpus) /\ limit \in Nat
    BY DEF WalkTypes, SourcesInv
  <2>4. limit > 0 => IF command = "process" THEN Len(results[s]) <= limit
                     ELSE Len(corpus) - at.before <= limit
    BY DEF LimitInv
  <2>5. Taken = IF command = "process" THEN Len(results[s]) ELSE Len(corpus) - at.before
    BY DEF Taken
  <2>6. Taken \in Int
    BY <2>2, <2>3, <2>5
  <2>7. limit > 0 /\ ~full => Taken < limit
    BY <2>3, <2>6
  <2> QED
    BY <2>2, <2>3, <2>4, <2>5, <2>7
<1>10. /\ Len(corpus') \in Nat /\ Len(corpus') <= Len(corpus) + 1
       /\ Len(results'[s]) \in Nat /\ Len(results'[s]) <= Len(results[s]) + 1
       /\ MeetNone => Len(results'[s]) = Len(results[s]) /\ Len(corpus') = Len(corpus)
  <2>1. Len(corpus') \in Nat /\ Len(corpus') <= Len(corpus) + 1
    BY <1>6, MeetEffect
  <2>2. results[s] \in Seq(Seq(Nat))
    BY <1>1
  <2>3. \/ results'[s] = results[s]
        \/ results'[s] = Append(results[s], of)
    BY <1>6, MeetEffect
  <2>4. Len(results'[s]) = Len(results[s]) \/ Len(results'[s]) = Len(results[s]) + 1
    BY <1>3, <2>2, <2>3, OneLonger
  <2>5. MeetNone => Len(results'[s]) = Len(results[s]) /\ Len(corpus') = Len(corpus)
    BY DEF MeetNone
  <2> QED
    BY <1>9, <2>1, <2>4, <2>5
<1>11. ~full \/ MeetNone
  BY <1>5
<1>12. limit > 0 => IF command = "process" THEN Len(results'[s]) <= limit
                    ELSE Len(corpus') - at.before <= limit
  <2> HIDE DEF full
  <2>1. CASE MeetNone
    BY <1>9, <1>10, <2>1
  <2>2. CASE ~full
    BY <1>9, <1>10, <2>2
  <2> QED
    BY <1>11, <2>1, <2>2
<1>13. Fresh(of)
  BY <1>6, <1>7, <1>9, <1>10, <1>12 DEF Fresh
<1> QED
  BY <1>1, <1>2, <1>3, <1>5, <1>8, <1>13 DEF of

\* What is met of a directory comes in the order of its names, and once.
LEMMA MaildirRead ==
  ASSUME SourcesInv, WalkTypes, LimitInv, NEW s \in DOMAIN sources, s = at.source,
         sources[s].kind # "mbox", SourceInv(s), NEW entry, entry = Min(listing.names), ReadEntry
  PROVE  SourceInv(s)'
<1> DEFINE src == sources[s]
           met == results[s]
           D == Directories
           P == at.pos
           of == <<P, entry>>
           In(d) == IF src.dir[SubDirs[d]] = "readable" THEN src.files[SubDirs[d]] ELSE {}
<1>1. /\ Fresh(of)
      /\ entry \in listing.names /\ \A n \in listing.names : entry <= n
      /\ listing.open /\ P <= D /\ P \in Nat /\ entry \in Nat /\ listing.names \in SUBSET Nat
      /\ \/ /\ MeetNone /\ at' = at /\ entry \in src.sub
            /\ listing' = [open |-> TRUE, names |-> listing.names \ {entry}]
         \/ MeetNone /\ NextSource /\ limit > 0
         \/ /\ results'[s] = Append(met, of) /\ at' = at /\ entry \notin src.sub
            /\ listing' = [open |-> TRUE, names |-> listing.names \ {entry}]
  BY EntryMoves
<1>2. /\ command' = command /\ sources' = sources /\ limit' = limit /\ moved' = moved
      /\ buffer' = buffer
  BY <1>1 DEF Fresh, Moves, Steady, ReadEntry
<1>3. /\ IsMaildir(src) /\ MaildirOnce(s) /\ MaildirMet(s) /\ MaildirSoFar
      /\ D' = D /\ D \in {2, 3} /\ P # 0 /\ limit \in Nat
  BY <1>2, PlaceAfter DEF SourceInv, SourcesInv, IsMbox, Directories
<1>4. /\ buffer = <<>> /\ src.dir[SubDirs[P]] = "readable"
      /\ \A n \in listing.names :
           \/ n \in src.sub \/ n \in src.files[SubDirs[P]]
           \/ moved /\ P = 2 /\ n \in src.files["cur"]
      /\ \A i \in DOMAIN met :
           /\ met[i][1] <= P /\ met[i][2] \notin listing.names
           /\ met[i][1] = P => \A n \in listing.names : met[i][2] < n
      /\ limit = 0 /\ ~moved =>
           /\ \A d \in 1..(P - 1) : \A f \in In(d) : <<d, f>> \in ToSet(met)
           /\ \A f \in In(P) \ listing.names : <<P, f>> \in ToSet(met)
  BY <1>1, <1>3 DEF MaildirSoFar
<1>5. \A i \in DOMAIN met : met[i][1] \in 1..D
  BY <1>3 DEF MaildirMet
<1>6. /\ met \in Seq(Seq(Nat)) /\ Len(met) \in Nat /\ DOMAIN met = 1..Len(met)
  <2>1. met \in Seq(Seq(Nat))
    BY DEF WalkTypes
  <2> QED
    BY <2>1, LenProperties
\* Nothing is met.
<1>7. ASSUME results'[s] = met
      PROVE  /\ MaildirMet(s)'
             /\ (at'.source > s => limit > 0) => MaildirOnce(s)'
  <2>1. MaildirMet(s)'
    BY <1>2, <1>3, <1>7 DEF MaildirMet
  <2>2. (at'.source > s => limit > 0) => MaildirOnce(s)'
    BY <1>2, <1>3, <1>7 DEF MaildirOnce
  <2> QED
    BY <2>1, <2>2
<1>8. CASE MeetNone /\ NextSource /\ limit > 0
  <2>1. results'[s] = met /\ at'.source # s
    BY <1>8, PlaceAfter DEF MeetNone
  <2> QED
    BY <1>2, <1>7, <1>8, <2>1 DEF SourceInv
<1>9. CASE /\ MeetNone /\ at' = at /\ entry \in src.sub
           /\ listing' = [open |-> TRUE, names |-> listing.names \ {entry}]
  <2>1. results'[s] = met /\ at'.source = s /\ at'.pos = P
    BY <1>9 DEF MeetNone
  <2>2. entry \notin In(P)
    <3>1. P \in 1..3
      BY <1>1, <1>3
    <3> QED
      BY <1>3, <1>9, <3>1, DirsOf
  <2>3. ~(at'.source > s)
    BY <2>1, PlaceAfter
  <2>4. listing'.open /\ listing'.names = listing.names \ {entry}
    BY <1>9
  <2>5. \A f \in In(P) \ listing'.names : f \in In(P) \ listing.names
    BY <2>2, <2>4
  <2> HIDE DEF P, D, met
  <2>6. MaildirSoFar'
    BY <1>1, <1>2, <1>3, <1>4, <2>1, <2>4, <2>5 DEF MaildirSoFar, D
  <2> QED
    BY <1>2, <1>7, <2>1, <2>3, <2>6 DEF SourceInv
<1>10. CASE /\ results'[s] = Append(met, of) /\ at' = at /\ entry \notin src.sub
            /\ listing' = [open |-> TRUE, names |-> listing.names \ {entry}]
  <2> DEFINE met1 == results'[s]
             m == Len(met)
  <2>1. of \in Seq(Nat) /\ of[1] = P /\ of[2] = entry
    BY <1>1
  <2>2. /\ DOMAIN met1 = 1..(m + 1) /\ \A i \in 1..m : met1[i] = met[i]
        /\ met1[m + 1] = of
    <3> HIDE DEF of
    <3> QED
      BY <1>6, <1>10, <2>1, OneLonger
  <2>3. at'.source = s /\ at'.pos = P /\ listing'.open /\ listing'.names = listing.names \ {entry}
    BY <1>10
  <2>4. m \in Nat /\ DOMAIN met = 1..m
    BY <1>6
  <2> HIDE DEF met1, m
  <2>5. \A i \in 1..(m + 1) : i \in 1..m \/ i = m + 1
    BY <2>4
  <2>6. MaildirMet(s)'
    <3>1. /\ P \in 1..D /\ entry \in Nat \ src.sub /\ src.dir[SubDirs[P]] = "readable"
          /\ entry \in src.files[SubDirs[P]] \/ (moved /\ P = 2 /\ entry \in src.files["cur"])
      BY <1>1, <1>3, <1>4, <1>10
    <3> DEFINE Good(e) == /\ e = <<e[1], e[2]>> /\ e[1] \in 1..D /\ e[2] \in Nat \ src.sub
                          /\ src.dir[SubDirs[e[1]]] = "readable"
                          /\ \/ e[2] \in src.files[SubDirs[e[1]]]
                             \/ moved /\ e[1] = 2 /\ e[2] \in src.files["cur"]
    <3>2. Good(of)
      BY <2>1, <3>1
    <3>3. \A i \in 1..m : Good(met[i])
      <4>1. MaildirMet(s) /\ DOMAIN results[s] = 1..m
        BY <1>3, <2>4
      <4> QED
        BY <4>1 DEF MaildirMet
    <3> HIDE DEF Good
    <3>4. \A i \in 1..(m + 1) : Good(met1[i])
      BY <2>2, <2>5, <3>2, <3>3
    <3> QED
      BY <1>2, <1>3, <2>2, <3>4 DEF MaildirMet, Good, met1
  <2>7. \A i, j \in 1..(m + 1) : i < j =>
          /\ met1[i][1] < met1[j][1] \/ (met1[i][1] = met1[j][1] /\ met1[i][2] < met1[j][2])
          /\ met1[i][2] # met1[j][2]
    <3> TAKE i, j \in 1..(m + 1)
    <3> HAVE i < j
    <3>1. CASE j \in 1..m
      <4>1. i \in 1..m /\ met1[i] = met[i] /\ met1[j] = met[j]
        BY <2>2, <2>4, <3>1
      <4> QED
        BY <1>3, <2>4, <3>1, <4>1 DEF MaildirOnce
    <3>2. CASE j = m + 1
      <4>1. i \in 1..m /\ met1[i] = met[i] /\ met1[j][1] = P /\ met1[j][2] = entry
        BY <2>1, <2>2, <2>4, <3>2
      <4>2. met[i][1] <= P /\ met[i][2] # entry /\ (met[i][1] = P => met[i][2] < entry)
        <5>1. /\ met[i][1] <= P /\ met[i][2] \notin listing.names
              /\ met[i][1] = P => \A n \in listing.names : met[i][2] < n
          BY <1>4, <2>4, <4>1
        <5>2. entry \in listing.names
          BY <1>1
        <5> HIDE DEF P
        <5> QED
          BY <5>1, <5>2
      <4>3. met[i][1] \in Int /\ P \in Int
        BY <1>1, <1>5, <2>4, <4>1
      <4> HIDE DEF P
      <4> QED
        BY <4>1, <4>2, <4>3
    <3> QED
      BY <2>5, <3>1, <3>2
  <2>8. MaildirOnce(s)'
    <3>1. ~(at'.source > s)
      BY <2>3, PlaceAfter
    <3> QED
      BY <1>2, <1>3, <2>2, <2>7, <3>1 DEF MaildirOnce, met1
  <2>9. \A e \in ToSet(met) : e \in ToSet(met1)
    <3> TAKE e \in ToSet(met)
    <3>1. PICK i \in 1..m : e = met[i]
      BY <2>4 DEF ToSet
    <3> QED
      BY <2>2, <2>4, <3>1 DEF ToSet
  <2>10. of \in ToSet(met1)
    <3>1. m + 1 \in DOMAIN met1
      BY <2>2, <2>4
    <3> QED
      BY <2>2, <3>1 DEF ToSet
  <2>11. /\ \A n \in listing'.names : n \in listing.names /\ entry < n
         /\ entry \notin listing'.names
    BY <1>1, <2>3
  <2>12. \A i \in 1..(m + 1) :
           /\ met1[i][1] <= P /\ met1[i][2] \notin listing'.names
           /\ met1[i][1] = P => \A n \in listing'.names : met1[i][2] < n
    <3> TAKE i \in 1..(m + 1)
    <3>1. CASE i \in 1..m
      BY <1>4, <2>2, <2>4, <2>11, <3>1
    <3>2. CASE i = m + 1
      <4>1. met1[i][1] = P /\ met1[i][2] = entry /\ P <= P
        BY <1>1, <2>1, <2>2, <3>2
      <4> HIDE DEF P
      <4> QED
        BY <2>11, <4>1
    <3> QED
      BY <2>5, <3>1, <3>2
  <2>13. limit = 0 /\ ~moved =>
           /\ \A d \in 1..(P - 1) : \A f \in In(d) : <<d, f>> \in ToSet(met1)
           /\ \A f \in In(P) \ listing'.names : <<P, f>> \in ToSet(met1)
    <3> SUFFICES ASSUME limit = 0, ~moved
                 PROVE  /\ \A d \in 1..(P - 1) : \A f \in In(d) : <<d, f>> \in ToSet(met1)
                        /\ \A f \in In(P) \ listing'.names : <<P, f>> \in ToSet(met1)
      OBVIOUS
    <3>1. \A f \in In(P) \ listing'.names : f = entry \/ f \in In(P) \ listing.names
      BY <2>3
    <3> QED
      BY <1>4, <2>9, <2>10, <3>1
  <2>14. \A n \in listing'.names :
           \/ n \in src.sub \/ n \in src.files[SubDirs[P]]
           \/ moved /\ P = 2 /\ n \in src.files["cur"]
    BY <1>4, <2>11
  <2> HIDE DEF P, D, met
  <2>15. P <= D + 1
    BY <1>1, <1>3
  <2>17. buffer' = <<>> /\ P <= D /\ src.dir[SubDirs[P]] = "readable" /\ D' = D
    BY <1>1, <1>2, <1>3, <1>4
  <2>18. results'[s] = met1 /\ DOMAIN met1 = 1..(m + 1)
    BY <2>2 DEF met1
  <2>16. MaildirSoFar'
    BY <1>2, <2>3, <2>12, <2>13, <2>14, <2>15, <2>17, <2>18 DEF MaildirSoFar, D
  <2> QED
    BY <1>2, <2>3, <2>6, <2>8, <2>16 DEF SourceInv
<1> QED
  BY <1>1, <1>8, <1>9, <1>10
\* A line of an mbox keeps within the limit, as far as it is looked at.
LEMMA MboxFresh ==
  ASSUME SourcesInv, WalkTypes, LimitInv, NEW s \in DOMAIN sources, s = at.source,
         Source.kind = "mbox", SourceInv(s), MboxLine, ProcessMboxLine \/ TrainMboxLine
  PROVE  Fresh(Collected)
<1> DEFINE whole == Collected # <<>> /\ (Line = "From" \/ AtEOF)
           n == Len(corpus)
           n1 == Len(corpus')
           m == Len(results[s])
           m1 == Len(results'[s])
<1>1. /\ Moves(Collected) /\ sources[s].kind = "mbox"
      /\ MeetNone \/ Collected \notin ToSet(results[at.source])
  BY MboxKept DEF MboxLine, Source
<1>2. /\ n \in Nat /\ n1 \in Nat /\ n1 <= n + 1 /\ m \in Nat /\ m1 \in Nat /\ m1 <= m + 1
      /\ MeetNone => n1 = n /\ m1 = m
  <2>1. n \in Nat /\ n1 \in Nat /\ n1 <= n + 1 /\ results' \in [DOMAIN sources -> Seq(Seq(Nat))]
    BY <1>1, MeetEffect
  <2>2. results[s] \in Seq(Seq(Nat)) /\ results'[s] \in Seq(Seq(Nat)) /\ Collected \in Seq(Nat)
    BY <1>1, <2>1 DEF WalkTypes, Moves
  <2>3. m \in Nat /\ m1 \in Nat
    BY <2>2, LenProperties
  <2>4. results'[s] = results[s] \/ results'[s] = Append(results[s], Collected)
    BY <1>1, MeetEffect
  <2>5. m1 = m \/ m1 = m + 1
    BY <2>2, <2>4, OneLonger
  <2>6. MeetNone => n1 = n /\ m1 = m
    BY DEF MeetNone
  <2> HIDE DEF n, n1, m, m1
  <2> QED
    BY <2>1, <2>3, <2>5, <2>6
<1>3. /\ limit \in Nat /\ at.before \in Nat
      /\ limit > 0 => IF command = "process" THEN m <= limit ELSE n - at.before < limit
  <2>1. at.before \in 0..Len(corpus) /\ limit \in Nat
    BY DEF WalkTypes, SourcesInv
  <2>2. Len(corpus) \in Nat
    BY <1>2
  <2>3. at.before \in Nat
    BY <2>1, <2>2
  <2> QED
    BY <1>1, <2>1, <2>3 DEF LimitInv
<1>4. at'.source = s => NextPosition /\ ~AtEOF
  BY PlaceAfter DEF MboxLine
<1>5. at'.source = s => ~NextSource
  BY PlaceAfter
<1> HIDE DEF whole, n, n1, m, m1
<1>6. CASE ProcessMboxLine
  <2>1. command = "process" /\ Taken = m
    BY <1>6 DEF ProcessMboxLine, Taken, m
  <2>2. (whole /\ ~(Line = "From" /\ limit > 0 /\ m + 1 > limit)) \/ MeetNone
    BY <1>6, <2>1 DEF ProcessMboxLine, whole
  <2>3. limit > 0 /\ at'.source = s => m1 <= limit
    <3>1. CASE MeetNone
      BY <1>2, <1>3, <2>1, <3>1
    <3>2. CASE ~MeetNone
      <4> HAVE limit > 0 /\ at'.source = s
      <4>1. whole /\ Line = "From"
        BY <1>4, <2>2, <3>2 DEF whole
      <4>2. m + 1 <= limit
        BY <1>2, <1>3, <2>2, <3>2, <4>1
      <4> QED
        BY <1>2, <1>3, <4>2
    <3> QED
      BY <3>1, <3>2
  <2>4. limit > 0 => m1 <= limit + 1
    BY <1>2, <1>3, <2>1
  <2> QED
    BY <1>1, <2>1, <2>3, <2>4 DEF Fresh, m1
<1>7. CASE TrainMboxLine
  <2>1. command # "process"
    BY <1>7 DEF TrainMboxLine
  <2>2. /\ whole \/ MeetNone
        /\ \/ NextSource \/ ~(Line = "From" /\ limit > 0 /\ n1 - at.before >= limit)
    BY <1>7 DEF TrainMboxLine, whole, n1
  <2>3. limit > 0 /\ at'.source = s => n1 - at.before < limit
    <3>1. CASE MeetNone
      BY <1>2, <1>3, <2>1, <3>1
    <3>2. CASE ~MeetNone
      <4> HAVE limit > 0 /\ at'.source = s
      <4>1. Line = "From" /\ ~NextSource
        BY <1>4, <1>5, <2>2, <3>2 DEF whole
      <4> QED
        BY <1>2, <1>3, <2>2, <4>1
    <3> QED
      BY <3>1, <3>2
  <2>4. limit > 0 => n1 - at.before <= limit
    BY <1>2, <1>3, <2>1
  <2> QED
    BY <1>1, <2>1, <2>3, <2>4 DEF Fresh, n1
<1> QED
  BY <1>6, <1>7

\* What a step that does not fit, save or serve an inbox leaves alone.
LEMMA StillReading ==
  ASSUME FitInv, InboxInv, status' \notin {"fitting", "saving"},
         UNCHANGED <<command, inbox, arrived, lastCount, seen>>, moved' = moved \/ command # "daemon monitor"
  PROVE  FitInv' /\ InboxInv'
<1>1. FitInv'
  BY DEF FitInv, CorpusIsSplit
<1>2. MonitorKeepsUp'
  BY DEF InboxInv, MonitorKeepsUp
<1> QED
  BY <1>1, <1>2 DEF InboxInv

\* A step that reads keeps the invariant.
LEMMA ReadingKeeps ==
  ASSUME WalkInv,
         \/ ProcessMboxLine \/ TrainMboxLine
         \/ OpenDirectory \/ ReadEntry \/ LeaveDirectory \/ LeaveMaildir
  PROVE  WalkInv'
<1>1. status = "reading" /\ at.source \in DOMAIN sources
      /\ \/ (ProcessMboxLine \/ TrainMboxLine) /\ Source.kind = "mbox"
         \/ (OpenDirectory \/ LeaveDirectory \/ LeaveMaildir) /\ Source.kind = "maildir"
         \/ ReadEntry /\ Source.kind = "maildir"
  BY DEF ProcessMboxLine, TrainMboxLine, OpenDirectory, ReadEntry, LeaveDirectory, LeaveMaildir,
         InDirectory, Read
<1>2. /\ SourcesInv /\ WalkTypes /\ FitInv /\ InboxInv /\ LimitInv /\ CorpusIsMet
      /\ \A t \in DOMAIN sources : SourceInv(t)
  BY <1>1 DEF WalkInv
<1>3. PICK s \in DOMAIN sources : s = at.source
  BY <1>1
<1>4. SourceInv(s) /\ Source = sources[s]
  BY <1>2, <1>3 DEF Source
<1>5. \E of : Fresh(of) /\ SourceInv(s)'
  <2>1. CASE (ProcessMboxLine \/ TrainMboxLine) /\ Source.kind = "mbox"
    <3>1. MboxSoFar
      BY <1>3, <1>4, <2>1 DEF SourceInv
    <3>2. MboxLine
      BY <1>1, <1>2, <2>1, <3>1, LinesOfMbox
    <3>3. SourceInv(s)'
      BY <1>1, <1>2, <1>3, <1>4, <2>1, <3>2, MboxKept
    <3>4. Fresh(Collected)
      BY <1>2, <1>3, <1>4, <2>1, <3>2, MboxFresh
    <3> QED
      BY <3>3, <3>4
  <2>2. CASE (OpenDirectory \/ LeaveDirectory \/ LeaveMaildir) /\ Source.kind = "maildir"
    <3>1. MaildirSoFar /\ sources[s].kind # "mbox"
      BY <1>3, <1>4, <2>2 DEF SourceInv
    <3>2. Moves(<<>>) /\ MeetNone /\ Fresh(<<>>)
      BY <1>1, <1>2, <1>3, <2>2, <3>1, MaildirMoves
    <3>3. SourceInv(s)'
      BY <1>2, <1>3, <1>4, <2>2, <3>1, <3>2, MaildirPassed
    <3> QED
      BY <3>2, <3>3
  <2>3. CASE ReadEntry /\ Source.kind = "maildir"
    <3>1. PICK entry : entry = Min(listing.names)
      OBVIOUS
    <3>2. sources[s].kind # "mbox"
      BY <1>4, <2>3
    <3>3. Fresh(<<at.pos, entry>>)
      BY <1>2, <1>3, <1>4, <2>3, <3>1, <3>2, EntryMoves
    <3>4. SourceInv(s)'
      BY <1>2, <1>3, <1>4, <2>3, <3>1, <3>2, MaildirRead
    <3> QED
      BY <3>3, <3>4
  <2> QED
    BY <1>1, <2>1, <2>2, <2>3
<1>6. PICK of : Fresh(of) /\ SourceInv(s)'
  BY <1>5
<1>7. Moves(of) /\ (MeetNone \/ of \notin ToSet(results[at.source]))
  BY <1>6 DEF Fresh
<1>8. SourcesInv' /\ WalkTypes'
  BY <1>2, <1>7, MovesTypes
<1>9. CorpusIsMet'
  BY <1>2, <1>7, MovesCorpus
<1>10. LimitInv'
  <2>1. /\ limit > 0 => IF command = "process"
                        THEN Len(results'[s]) <= (IF sources[s].kind = "mbox" THEN limit + 1 ELSE limit)
                        ELSE Len(corpus') - at.before <= limit
        /\ limit > 0 /\ at'.source = s =>
             IF command = "process" THEN Len(results'[s]) <= limit
             ELSE sources[s].kind = "mbox" => Len(corpus') - at.before < limit
    BY <1>3, <1>6 DEF Fresh
  <2> QED
    BY <1>2, <1>3, <1>7, <2>1, MovesLimits
<1>11. \A t \in DOMAIN sources : SourceInv(t)'
  <2> TAKE t \in DOMAIN sources
  <2>1. CASE t = s
    BY <1>6, <2>1
  <2>2. CASE t # s
    BY <1>2, <1>3, <1>7, <2>2, OtherSources
  <2> QED
    BY <2>1, <2>2
<1>12. FitInv' /\ InboxInv'
  <2>1. status' = "reading" /\ UNCHANGED <<command, inbox, arrived, lastCount, seen, moved>>
    BY <1>7 DEF Moves, Steady
  <2> QED
    BY <1>2, <2>1, StillReading
<1>13. sources' = sources
  BY <1>7 DEF Moves, Steady
<1> QED
  BY <1>8, <1>9, <1>10, <1>11, <1>12, <1>13 DEF WalkInv
\* A step that reads nothing and moves no files.
Still ==
  /\ UNCHANGED <<command, sources, limit, at, buffer, listing, results, corpus, moved>>
  /\ status = "failed" => status' = "failed"

LEMMA StillKeeps ==
  ASSUME WalkInv, Still, FitInv', InboxInv'
  PROVE  WalkInv'
<1>1. UNCHANGED <<command, sources, limit, at, buffer, listing, results, corpus, moved>>
  BY DEF Still
<1>2. SourcesInv'
  BY <1>1 DEF WalkInv, SourcesInv
<1>3. WalkTypes'
  BY <1>1 DEF WalkInv, WalkTypes
<1>4. ASSUME status' # "failed"
      PROVE  LimitInv' /\ CorpusIsMet' /\ \A s \in DOMAIN sources' : SourceInv(s)'
  <2>1. LimitInv /\ CorpusIsMet /\ \A s \in DOMAIN sources : SourceInv(s)
    BY <1>4 DEF WalkInv, Still
  <2>2. CorpusIsMet'
    BY <1>1, <2>1 DEF CorpusIsMet
  <2>3. \A s \in DOMAIN sources : WithinLimit(s)' <=> WithinLimit(s)
    BY <1>1 DEF WithinLimit, DocsOf
  <2>4. LimitInv'
    BY <1>1, <2>1, <2>3 DEF LimitInv
  <2>5. \A s \in DOMAIN sources : SourceInv(s)' <=> SourceInv(s)
    <3> TAKE s \in DOMAIN sources
    <3>1. /\ MboxIsSplit(s)' <=> MboxIsSplit(s)
          /\ MboxSoFar' <=> MboxSoFar
      BY <1>1 DEF MboxIsSplit, MboxSoFar
    <3>2. Directories' = Directories
      BY <1>1 DEF Directories
    <3>3. MaildirOnce(s)' <=> MaildirOnce(s)
      BY <1>1, <3>2 DEF MaildirOnce
    <3>4. MaildirMet(s)' <=> MaildirMet(s)
      BY <1>1, <3>2 DEF MaildirMet
    <3>5. MaildirSoFar' <=> MaildirSoFar
      BY <1>1, <3>2 DEF MaildirSoFar
    <3> QED
      BY <1>1, <3>1, <3>3, <3>4, <3>5 DEF SourceInv
  <2> QED
    BY <1>1, <2>1, <2>2, <2>4, <2>5
<1> QED
  BY <1>2, <1>3, <1>4 DEF WalkInv

\* A command that fails reports nothing.
LEMMA FailingKeeps ==
  ASSUME WalkInv, MboxFails \/ DirectoryFails
  PROVE  WalkInv'
<1>1. /\ status' = "failed" /\ results' = NoResults /\ Steady
      /\ UNCHANGED <<at, buffer, listing, corpus, split, modelFile>>
  BY DEF MboxFails, DirectoryFails
<1>2. UNCHANGED <<command, sources, limit, inbox, arrived, lastCount, seen, moved>>
  BY <1>1 DEF Steady
<1>3. SourcesInv /\ WalkTypes /\ FitInv /\ InboxInv
  BY DEF WalkInv
<1>4. SourcesInv'
  BY <1>2, <1>3 DEF SourcesInv
<1>5. results' \in [DOMAIN sources -> Seq(Seq(Nat))] /\ \A s \in DOMAIN sources : results'[s] = <<>>
  <2>1. <<>> \in Seq(Seq(Nat))
    BY EmptySeq
  <2> QED
    BY <1>1, <2>1 DEF NoResults
<1>6. WalkTypes'
  BY <1>1, <1>2, <1>3, <1>5 DEF WalkTypes
<1>7. FitInv' /\ InboxInv'
  BY <1>1, <1>2, <1>3, StillReading
<1> QED
  BY <1>1, <1>4, <1>6, <1>7 DEF WalkInv

\* A corpus that is fitted has documents.
LEMMA ReportKeeps ==
  ASSUME WalkInv, Report
  PROVE  WalkInv'
<1>1. /\ status = "reading" /\ Steady
      /\ UNCHANGED <<at, buffer, listing, results, corpus, split, modelFile>>
      /\ command \in {"process", "train"}
  BY DEF Report, AllRead
<1>2. SourcesInv /\ WalkTypes /\ FitInv /\ InboxInv
  BY DEF WalkInv
<1>3. Still
  BY <1>1 DEF Still, Steady
<1>4. status' = "fitting" => Len(corpus) > 0
  <2> HAVE status' = "fitting"
  <2>1. command = "train"
    BY <1>1 DEF Report
  <2>2. \A s \in DOMAIN sources : \E doc \in ToSet(corpus) : sources[doc.source].label = sources[s].label
    BY <2>1 DEF Report
  <2>3. 1 \in DOMAIN sources
    <3>1. Len(sources) > 1 /\ DOMAIN sources = 1..Len(sources) /\ Len(sources) \in Nat
      BY <1>2, <2>1, LenProperties DEF SourcesInv
    <3> QED
      BY <3>1
  <2>4. PICK doc \in ToSet(corpus) : sources[doc.source].label = sources[1].label
    BY <2>2, <2>3
  <2>5. DOMAIN corpus # {}
    BY <2>4 DEF ToSet
  <2>6. corpus \in Seq([source : DOMAIN sources, of : Seq(Nat)])
    BY <1>2 DEF WalkTypes
  <2>7. DOMAIN corpus = 1..Len(corpus) /\ Len(corpus) \in Nat
    BY <2>6, LenProperties
  <2> QED
    BY <2>5, <2>7
<1>5. FitInv'
  <2>1. status' # "saving"
    BY DEF Report
  <2> QED
    BY <1>1, <1>4, <2>1 DEF FitInv, CorpusIsSplit
<1>6. InboxInv'
  BY <1>1, <1>2 DEF InboxInv, MonitorKeepsUp, Steady
<1> QED
  BY <1>3, <1>5, <1>6, StillKeeps

\* A split keeps every document, and leaves some to be fitted.
LEMMA SplitWhole ==
  ASSUME NEW n \in Nat, n > 0, NEW parts \in splitCorpus(n)
  PROVE  /\ parts.fitted \union parts.heldOut = 1..n
         /\ parts.fitted \intersect parts.heldOut = {} /\ parts.fitted # {}
<1> DEFINE share == (n * (100 - holdoutPercent)) \div 100
           cut == IF share < 1 THEN 1 ELSE IF share >= n THEN n - 1 ELSE share
<1>1. CASE n < 5
  <2>1. parts = [fitted |-> 1..n, heldOut |-> {}]
    BY <1>1 DEF splitCorpus
  <2>2. 1 \in 1..n
    OBVIOUS
  <2> QED
    BY <2>1, <2>2
<1>2. CASE ~(n < 5)
  <2>1. PICK S \in kSubset(cut, 1..n) : parts = [fitted |-> S, heldOut |-> (1..n) \ S]
    BY <1>2 DEF splitCorpus
  <2>2. n - 1 # 0
    BY <1>2
  <2> HIDE DEF share
  <2>3. cut # 0
    BY <2>2
  <2>4. S \in SUBSET (1..n) /\ Cardinality(S) = cut
    BY <2>1 DEF kSubset
  <2>5. S # {}
    BY <2>3, <2>4, FS_EmptySet
  <2> QED
    BY <2>1, <2>4, <2>5
<1> QED
  BY <1>1, <1>2

\* Fitting and saving a model leave the corpus and its split.
LEMMA ModelKeeps ==
  ASSUME WalkInv, Train \/ CreateModel \/ WriteModel
  PROVE  WalkInv'
<1>1. SourcesInv /\ WalkTypes /\ FitInv /\ InboxInv
  BY DEF WalkInv
<1>2. Still /\ Steady
  BY DEF Still, Steady, Train, CreateModel, WriteModel
<1>3. InboxInv'
  BY <1>1, <1>2 DEF InboxInv, MonitorKeepsUp, Steady
<1>4. FitInv'
  <2>1. status' # "fitting" /\ corpus' = corpus
    BY DEF Train, CreateModel, WriteModel
  <2>2. CASE Train
    <3>1. Len(corpus) > 0
      BY <1>1, <2>2 DEF FitInv, Train
    <3>2. corpus \in Seq([source : DOMAIN sources, of : Seq(Nat)])
      BY <1>1 DEF WalkTypes
    <3>3. Len(corpus) \in Nat /\ DOMAIN corpus = 1..Len(corpus)
      BY <3>2, LenProperties
    <3>4. status' = "saving" => split' \in splitCorpus(Len(corpus))
      BY <2>2 DEF Train
    <3>5. CorpusIsSplit'
      BY <2>1, <3>1, <3>3, <3>4, SplitWhole DEF CorpusIsSplit
    <3> QED
      BY <2>1, <3>5 DEF FitInv
  <2>3. CASE CreateModel \/ WriteModel
    <3>1. CorpusIsSplit /\ status = "saving" /\ split' = split
      BY <1>1, <2>3 DEF FitInv, CreateModel, WriteModel
    <3> QED
      BY <2>1, <3>1 DEF FitInv, CorpusIsSplit
  <2> QED
    BY <2>2, <2>3
<1> QED
  BY <1>2, <1>3, <1>4, StillKeeps
\* What is counted of an inbox stays what it was when more arrives.
LEMMA CountedStays ==
  ASSUME NEW q \in Seq(Nat), NEW k \in 0..Len(q), NEW e \in Nat
  PROVE  SubSeq(Append(q, e), 1, k) = SubSeq(q, 1, k)
<1>1. /\ Append(q, e) \in Seq(Nat) /\ Len(q) \in Nat /\ Len(Append(q, e)) = Len(q) + 1
      /\ \A i \in 1..Len(q) : Append(q, e)[i] = q[i] /\ q[i] \in Nat
  BY OneLonger, ElementOfSeq
<1>2. PICK r : r = Append(q, e)
  OBVIOUS
<1>3. 1 \in Int /\ k \in Int /\ \A i \in 1..k : i \in 1..Len(q)
  BY <1>1
<1>4. \A i \in 1..k : q[i] \in Nat /\ r[i] \in Nat /\ r[i] = q[i]
  BY <1>1, <1>2, <1>3
<1>5. /\ SubSeq(q, 1, k) \in Seq(Nat)
      /\ Len(SubSeq(q, 1, k)) = IF 1 <= k THEN k - 1 + 1 ELSE 0
      /\ \A i \in 1..(k - 1 + 1) : SubSeq(q, 1, k)[i] = q[1 + i - 1]
  BY <1>3, <1>4, SubSeqProperties
<1>6. /\ SubSeq(r, 1, k) \in Seq(Nat)
      /\ Len(SubSeq(r, 1, k)) = IF 1 <= k THEN k - 1 + 1 ELSE 0
      /\ \A i \in 1..(k - 1 + 1) : SubSeq(r, 1, k)[i] = r[1 + i - 1]
  BY <1>3, <1>4, SubSeqProperties
<1> DEFINE a == SubSeq(q, 1, k)
           b == SubSeq(r, 1, k)
<1>7. /\ a \in Seq(Nat) /\ b \in Seq(Nat) /\ Len(a) = k /\ Len(b) = k
      /\ \A i \in 1..k : a[i] = q[i] /\ b[i] = r[i]
  <2>1. k - 1 + 1 = k /\ k \in Nat /\ (~(1 <= k) => k = 0) /\ \A i \in 1..k : 1 + i - 1 = i
    BY <1>3
  <2> HIDE DEF a, b
  <2> QED
    BY <1>5, <1>6, <2>1 DEF a, b
<1> HIDE DEF a, b
<1>8. a = b
  <2>1. \A i \in 1..Len(a) : a[i] = b[i]
    BY <1>4, <1>7
  <2> QED
    BY <1>7, <2>1, SeqEqual
<1> QED
  BY <1>2, <1>8 DEF a, b

\* The daemon's commands and what arrives for them.
LEMMA InboxKeeps ==
  ASSUME WalkInv, TestInbox \/ Poll \/ PollFails \/ Arrive
  PROVE  WalkInv'
<1>1. SourcesInv /\ WalkTypes /\ FitInv /\ InboxInv
  BY DEF WalkInv
<1>2. Still /\ UNCHANGED split
  <2>1. CASE TestInbox
    BY <2>1 DEF TestInbox, Serve, Still
  <2>2. CASE Poll
    BY <2>2 DEF Poll, Serve, Still
  <2>3. CASE PollFails
    BY <2>3 DEF PollFails, walkVars, Still
  <2>4. CASE Arrive
    <3>1. command # "process" /\ command # "train"
      BY <2>4 DEF Arrive
    <3> QED
      BY <2>4 DEF Arrive, World, Still
  <2> QED
    BY <2>1, <2>2, <2>3, <2>4
<1>3. FitInv'
  <2>1. status' = status \/ status' \in {"done", "failed"}
    BY DEF TestInbox, Poll, PollFails, walkVars, Arrive, World
  <2> QED
    BY <1>1, <1>2, <2>1 DEF FitInv, CorpusIsSplit, Still
<1>4. InboxInv'
  <2>1. CASE TestInbox
    <3>1. command' = command /\ command # "daemon monitor" /\ arrived' = arrived
      BY <2>1 DEF TestInbox, Serve
    <3> QED
      BY <1>1, <3>1 DEF InboxInv, MonitorKeepsUp
  <2>2. CASE Poll
    <3> DEFINE new == IF Len(inbox) > lastCount THEN SubSeq(inbox, lastCount + 1, Len(inbox)) ELSE <<>>
    <3>1. /\ command' = command /\ command = "daemon monitor" /\ moved' = moved /\ inbox' = inbox
          /\ arrived' = arrived /\ lastCount' = Len(inbox) /\ seen' = seen \o new
      BY <2>2 DEF Poll, Serve
    <3>2. ASSUME ~moved
          PROVE  /\ inbox \in Seq(Nat) /\ Len(inbox) \in 0..Len(inbox)
                 /\ seen \o new = SubSeq(inbox, 1, Len(inbox))
      <4>1. inbox \in Seq(Nat) /\ lastCount \in 0..Len(inbox) /\ seen = SubSeq(inbox, 1, lastCount)
        BY <1>1, <3>1, <3>2 DEF InboxInv, MonitorKeepsUp
      <4>2. Len(inbox) \in Nat
        BY <4>1, LenProperties
      <4>3. CASE Len(inbox) > lastCount
        <5>1. /\ 1 \in 1..(Len(inbox) + 1) /\ lastCount \in (1 - 1)..Len(inbox)
              /\ Len(inbox) \in lastCount..Len(inbox)
          BY <4>1, <4>2
        <5>2. SubSeq(inbox, 1, lastCount) \o SubSeq(inbox, lastCount + 1, Len(inbox))
                = SubSeq(inbox, 1, Len(inbox))
          BY <4>1, <5>1, ConcatAdjacentSubSeq
        <5>3. seen \o new = SubSeq(inbox, 1, Len(inbox))
          BY <4>1, <4>3, <5>2
        <5>4. Len(inbox) \in 0..Len(inbox)
          BY <4>2
        <5> QED
          BY <4>1, <5>3, <5>4
      <4>4. CASE ~(Len(inbox) > lastCount)
        <5>1. lastCount = Len(inbox)
          BY <4>1, <4>2, <4>4
        <5>2. SubSeq(inbox, 1, Len(inbox)) = inbox
          BY <4>1, SubSeqFull
        <5>3. inbox \o <<>> = inbox
          BY <4>1, ConcatEmptySeq
        <5> QED
          BY <4>1, <4>2, <4>4, <5>1, <5>2, <5>3
      <4> QED
        BY <4>3, <4>4
    <3> HIDE DEF new
    <3> QED
      BY <1>1, <3>1, <3>2 DEF InboxInv, MonitorKeepsUp
  <2>3. CASE PollFails
    BY <1>1, <2>3 DEF PollFails, walkVars, InboxInv, MonitorKeepsUp
  <2>4. CASE Arrive
    <3>1. /\ command' = command /\ moved' = moved /\ lastCount' = lastCount /\ seen' = seen
          /\ arrived' = arrived + 1 /\ inbox' = Append(inbox, arrived + 1)
      BY <2>4 DEF Arrive, World
    <3>2. arrived \in Nat /\ arrived + 1 \in Nat
      <4>1. arrived \in Nat
        BY <1>1 DEF InboxInv
      <4> QED
        BY <4>1
    <3>3. ASSUME command = "daemon monitor", ~moved
          PROVE  /\ inbox' \in Seq(Nat) /\ lastCount \in 0..Len(inbox')
                 /\ seen = SubSeq(inbox', 1, lastCount)
      <4>1. inbox \in Seq(Nat) /\ lastCount \in 0..Len(inbox) /\ seen = SubSeq(inbox, 1, lastCount)
        BY <1>1, <3>3 DEF InboxInv, MonitorKeepsUp
      <4>2. inbox' \in Seq(Nat) /\ Len(inbox) \in Nat /\ Len(inbox') = Len(inbox) + 1
        BY <3>1, <3>2, <4>1, OneLonger
      <4>3. SubSeq(inbox', 1, lastCount) = SubSeq(inbox, 1, lastCount)
        BY <3>1, <3>2, <4>1, CountedStays
      <4> QED
        BY <4>1, <4>2, <4>3
    <3> QED
      BY <3>1, <3>2, <3>3 DEF InboxInv, MonitorKeepsUp
  <2> QED
    BY <2>1, <2>2, <2>3, <2>4
<1> QED
  BY <1>2, <1>3, <1>4, StillKeeps
\* A sequence is one of any set that has its elements.
LEMMA ElementsMake ==
  ASSUME NEW S, NEW q \in Seq(S), NEW T, \A i \in 1..Len(q) : q[i] \in T
  PROVE  q \in Seq(T)
<1>1. Len(q) \in Nat
  BY LenProperties
<1>2. 1 \in Int /\ Len(q) \in Int
  BY <1>1
<1>3. SubSeq(q, 1, Len(q)) \in Seq(T)
  BY <1>2, SubSeqProperties
<1>4. SubSeq(q, 1, Len(q)) = q
  BY SubSeqFull
<1> QED
  BY <1>3, <1>4

\* What a mail reader does to the sources.
LEMMA Filed ==
  ASSUME SourcesInv, NEW s \in DOMAIN sources, sources[s].kind = "maildir",
         NEW f \in sources[s].files["new"],
         sources' = [sources EXCEPT ![s].files["new"] = @ \ {f}, ![s].files["cur"] = @ \union {f}]
  PROVE  /\ DOMAIN sources' = DOMAIN sources /\ Len(sources') = Len(sources)
         /\ sources' \in Seq(ToSet(sources'))
         /\ \A t \in DOMAIN sources : t # s => sources'[t] = sources[t]
         /\ sources'[s].kind = "maildir" /\ IsMaildir(sources'[s])
         /\ sources'[s].sub = sources[s].sub /\ sources'[s].dir = sources[s].dir
         /\ sources'[s].files["new"] = sources[s].files["new"] \ {f}
         /\ sources'[s].files["cur"] = sources[s].files["cur"] \union {f}
         /\ sources'[s].files["."] = sources[s].files["."]
<1> DEFINE src == sources[s]
           one == [src.files EXCEPT !["new"] = @ \ {f}]
           two == [one EXCEPT !["cur"] = @ \union {f}]
           e == [src EXCEPT !.files = two]
<1>1. IsMaildir(src)
  BY DEF SourcesInv, IsMbox
<1>2. ToSet(SubDirs) = {"cur", "new", "."}
  BY SubDirNames
<1>3. /\ src.files \in [{"cur", "new", "."} -> SUBSET Nat] /\ src.sub \in SUBSET Nat
      /\ src.files["new"] \in SUBSET Nat /\ src.files["cur"] \in SUBSET Nat
  BY <1>1, <1>2 DEF IsMaildir
<1>4. one \in [{"cur", "new", "."} -> SUBSET Nat] /\ one["cur"] = src.files["cur"]
      /\ one["new"] = src.files["new"] \ {f} /\ one["."] = src.files["."]
  BY <1>3
<1>5. two \in [{"cur", "new", "."} -> SUBSET Nat] /\ two["cur"] = src.files["cur"] \union {f}
      /\ two["new"] = src.files["new"] \ {f} /\ two["."] = src.files["."]
  <2>1. src.files["cur"] \union {f} \in SUBSET Nat
    BY <1>3
  <2> HIDE DEF one
  <2> QED
    BY <1>4, <2>1
<1>6. sources' = [sources EXCEPT ![s] = e]
  <2> DEFINE r == [src EXCEPT !.files = one]
             a == [sources EXCEPT ![s] = r]
  <2>1. sources' = [a EXCEPT ![s].files["cur"] = @ \union {f}]
    OBVIOUS
  <2>2. sources' = [a EXCEPT ![s] = [a[s] EXCEPT !.files = [a[s].files EXCEPT !["cur"] = @ \union {f}]]]
    BY <2>1
  <2>3. a[s] = r
    OBVIOUS
  <2>4. r.files = one
    BY <1>1 DEF IsMaildir
  <2> HIDE DEF one
  <2>5. [r EXCEPT !.files = two] = e
    OBVIOUS
  <2> HIDE DEF two, e, r
  <2>6. [a EXCEPT ![s] = e] = [sources EXCEPT ![s] = e]
    OBVIOUS
  <2> HIDE DEF a
  <2>7. [a[s].files EXCEPT !["cur"] = @ \union {f}] = two
    BY <2>3, <2>4 DEF two
  <2> QED
    BY <2>2, <2>3, <2>5, <2>6, <2>7
<1> HIDE DEF two, one, src
<1>7. e.files = two /\ e.kind = src.kind /\ e.sub = src.sub /\ e.dir = src.dir /\ e.label = src.label
  BY <1>1 DEF IsMaildir
<1>8. e \in [label : STRING, kind : {"maildir"}, sub : SUBSET Nat,
              dir : [ToSet(SubDirs) -> {"absent", "unreadable", "readable"}],
              files : [ToSet(SubDirs) -> SUBSET Nat]]
  BY <1>1, <1>2, <1>5 DEF IsMaildir
<1>9. IsMaildir(e)
  <2>1. \A c, d \in {"cur", "new", "."} :
          /\ src.files[c] \intersect src.sub = {}
          /\ c # d => src.files[c] \intersect src.files[d] = {}
    BY <1>1, <1>2 DEF IsMaildir
  <2>2. f \in src.files["new"]
    BY DEF src
  <2>3. f \notin src.sub /\ f \notin src.files["cur"] /\ f \notin src.files["."]
    <3>1. "cur" # "new" /\ "." # "new"
      OBVIOUS
    <3> QED
      BY <2>1, <2>2, <3>1
  <2>4. \A c \in {"cur", "new", "."} : two[c] \intersect src.sub = {}
    <3> TAKE c \in {"cur", "new", "."}
    <3>1. CASE c = "cur"
      BY <1>5, <2>1, <2>3, <3>1
    <3>2. CASE c = "new"
      BY <1>5, <2>1, <3>2
    <3>3. CASE c = "."
      BY <1>5, <2>1, <3>3
    <3> QED
      BY <3>1, <3>2, <3>3
  <2>5. /\ two["cur"] \intersect two["new"] = {} /\ two["cur"] \intersect two["."] = {}
        /\ two["new"] \intersect two["."] = {}
    <3>1. /\ src.files["cur"] \intersect src.files["new"] = {}
          /\ src.files["cur"] \intersect src.files["."] = {}
          /\ src.files["new"] \intersect src.files["."] = {}
      BY <2>1
    <3> QED
      BY <1>5, <2>2, <2>3, <3>1
  <2>6. \A c, d \in {"cur", "new", "."} : c # d => two[c] \intersect two[d] = {}
    BY <2>5
  <2> QED
    BY <1>2, <1>7, <1>8, <2>4, <2>6 DEF IsMaildir
<1>10. e.kind = "maildir"
  BY <1>7 DEF src
<1> HIDE DEF e
<1>11. PICK T : sources \in Seq(T)
  BY DEF SourcesInv
<1>12. /\ DOMAIN sources = 1..Len(sources) /\ Len(sources) \in Nat /\ sources \in Seq(T \union {e})
  BY <1>11, LenProperties, SeqMonotonic
<1>13. sources' \in Seq(T \union {e}) /\ Len(sources') = Len(sources)
  <2>1. PICK U : U = T \union {e}
    OBVIOUS
  <2>2. sources \in Seq(U) /\ e \in U /\ s \in 1..Len(sources)
    BY <1>12, <2>1
  <2>3. /\ [sources EXCEPT ![s] = e] \in Seq(U)
        /\ Len([sources EXCEPT ![s] = e]) = Len(sources)
    BY <2>2, ExceptSeq
  <2> QED
    BY <1>6, <2>1, <2>3
<1>14. DOMAIN sources' = 1..Len(sources)
  BY <1>13, LenProperties
<1>15. sources' \in Seq(ToSet(sources'))
  <2>1. \A i \in 1..Len(sources') : sources'[i] \in ToSet(sources')
    BY <1>13, <1>14 DEF ToSet
  <2>2. PICK q, U : q = sources' /\ U = T \union {e}
    OBVIOUS
  <2>3. q \in Seq(U) /\ \A i \in 1..Len(q) : q[i] \in ToSet(q)
    BY <1>13, <2>1, <2>2
  <2>4. q \in Seq(ToSet(q))
    BY <2>3, ElementsMake
  <2> QED
    BY <2>2, <2>4
<1>16. sources'[s] = e /\ \A t \in DOMAIN sources : t # s => sources'[t] = sources[t]
  BY <1>6
<1> QED
  BY <1>5, <1>7, <1>9, <1>10, <1>12, <1>13, <1>14, <1>15, <1>16 DEF src
\* What moved holds of a source whose files stay, when others move.
LEMMA OthersMove ==
  ASSUME NEW s \in DOMAIN sources, SourceInv(s), sources'[s] = sources[s], moved' = TRUE,
         UNCHANGED <<command, limit, at, buffer, listing, results>>,
         s = at.source => sources'[at.source] = sources[at.source]
  PROVE  SourceInv(s)'
<1>1. Directories' = Directories
  BY DEF Directories
<1>2. CASE sources[s].kind = "mbox"
  <2>1. MboxIsSplit(s)'
    BY <1>2 DEF SourceInv, MboxIsSplit
  <2>2. s = at.source => MboxSoFar'
    BY <1>2 DEF SourceInv, MboxSoFar
  <2> QED
    BY <1>2, <2>1, <2>2 DEF SourceInv
<1>3. CASE sources[s].kind # "mbox"
  <2>1. MaildirOnce(s) /\ MaildirMet(s) /\ (s = at.source => MaildirSoFar)
    BY <1>3 DEF SourceInv
  <2>2. MaildirOnce(s)'
    BY <1>1, <2>1 DEF MaildirOnce
  <2>3. MaildirMet(s)'
    BY <1>1, <2>1 DEF MaildirMet
  <2>4. s = at.source => MaildirSoFar'
    BY <1>1, <2>1 DEF MaildirSoFar
  <2> QED
    BY <1>3, <2>2, <2>3, <2>4 DEF SourceInv
<1> QED
  BY <1>2, <1>3

\* A message that is filed while it waits in a listing is met where it was listed.
LEMMA FiledKeeps ==
  ASSUME SourcesInv, WalkTypes, NEW s \in DOMAIN sources, sources[s].kind = "maildir", SourceInv(s),
         NEW f \in sources[s].files["new"],
         sources' = [sources EXCEPT ![s].files["new"] = @ \ {f}, ![s].files["cur"] = @ \union {f}],
         moved' = TRUE, UNCHANGED <<command, limit, at, buffer, listing, results>>
  PROVE  SourceInv(s)'
<1>1. Directories' = Directories /\ Directories \in {2, 3}
  BY DEF Directories
<1>2. /\ sources'[s].kind = "maildir"
      /\ sources'[s].sub = sources[s].sub /\ sources'[s].dir = sources[s].dir
      /\ sources'[s].files["new"] = sources[s].files["new"] \ {f}
      /\ sources'[s].files["cur"] = sources[s].files["cur"] \union {f}
      /\ sources'[s].files["."] = sources[s].files["."]
  BY Filed
<1>3. MaildirOnce(s) /\ MaildirMet(s) /\ (s = at.source => MaildirSoFar)
  BY DEF SourceInv
<1>4. SubDirs[1] = "cur" /\ SubDirs[2] = "new" /\ SubDirs[3] = "."
  BY SubDirNames
\* A file of a directory still is, or it is f, which is in cur.
<1>5. ASSUME NEW d \in 1..3, NEW n,
             n \in sources[s].files[SubDirs[d]] \/ (moved /\ d = 2 /\ n \in sources[s].files["cur"])
      PROVE  n \in sources'[s].files[SubDirs[d]] \/ (d = 2 /\ n \in sources'[s].files["cur"])
  <2>1. d = 1 \/ d = 2 \/ d = 3
    OBVIOUS
  <2> QED
    BY <1>2, <1>4, <1>5, <2>1
<1>6. MaildirOnce(s)'
  BY <1>1, <1>3 DEF MaildirOnce
<1>7. MaildirMet(s)'
  <2>1. \A d \in 1..Directories : d \in 1..3
    BY <1>1
  <2>2. \A i \in DOMAIN results[s] :
          /\ results[s][i] = <<results[s][i][1], results[s][i][2]>>
          /\ results[s][i][1] \in 1..Directories /\ results[s][i][2] \in Nat \ sources[s].sub
          /\ sources[s].dir[SubDirs[results[s][i][1]]] = "readable"
          /\ \/ results[s][i][2] \in sources[s].files[SubDirs[results[s][i][1]]]
             \/ moved /\ results[s][i][1] = 2 /\ results[s][i][2] \in sources[s].files["cur"]
    BY <1>3 DEF MaildirMet
  <2>3. \A i \in DOMAIN results[s] :
          \/ results[s][i][2] \in sources'[s].files[SubDirs[results[s][i][1]]]
          \/ results[s][i][1] = 2 /\ results[s][i][2] \in sources'[s].files["cur"]
    BY <1>5, <2>1, <2>2
  <2> QED
    BY <1>1, <1>2, <2>2, <2>3 DEF MaildirMet
<1>8. ASSUME s = at.source PROVE MaildirSoFar'
  <2>1. \A n \in listing.names : at.pos \in 1..3
    <3> TAKE n \in listing.names
    <3>1. listing.open
      BY DEF WalkTypes
    <3>2. at.pos <= Directories /\ at.pos \in Nat /\ at.pos # 0
      BY <1>3, <1>8, <3>1, PlaceAfter DEF MaildirSoFar
    <3> QED
      BY <1>1, <3>2
  <2>2. \A n \in listing.names :
          \/ n \in sources[s].sub \/ n \in sources[s].files[SubDirs[at.pos]]
          \/ moved /\ at.pos = 2 /\ n \in sources[s].files["cur"]
    BY <1>3, <1>8 DEF MaildirSoFar
  <2>3. \A n \in listing.names :
          \/ n \in sources'[s].sub \/ n \in sources'[s].files[SubDirs[at.pos]]
          \/ at.pos = 2 /\ n \in sources'[s].files["cur"]
    BY <1>2, <1>5, <2>1, <2>2
  <2>4. /\ at.pos <= Directories + 1 /\ buffer = <<>>
        /\ listing.open => at.pos <= Directories /\ sources[s].dir[SubDirs[at.pos]] = "readable"
        /\ \A i \in DOMAIN results[s] :
             /\ results[s][i][1] <= at.pos /\ results[s][i][2] \notin listing.names
             /\ results[s][i][1] = at.pos =>
                  listing.open /\ \A n \in listing.names : results[s][i][2] < n
    BY <1>3, <1>8 DEF MaildirSoFar
  <2> QED
    BY <1>1, <1>2, <1>8, <2>3, <2>4 DEF MaildirSoFar
<1> QED
  BY <1>2, <1>6, <1>7, <1>8 DEF SourceInv

\* A mail reader's work, and what is deleted from an inbox.
LEMMA WorldKeeps ==
  ASSUME WalkInv, FileMessage \/ DeleteMessage
  PROVE  WalkInv'
<1>1. SourcesInv /\ WalkTypes /\ FitInv /\ InboxInv
  BY DEF WalkInv
<1>2. /\ World /\ moved' = TRUE /\ arrived' = arrived
      /\ UNCHANGED <<command, limit, status, at, buffer, listing, results, corpus, split>>
  BY DEF FileMessage, DeleteMessage, World
<1>3. FitInv'
  BY <1>1, <1>2 DEF FitInv, CorpusIsSplit
<1>4. InboxInv'
  BY <1>1, <1>2 DEF InboxInv, MonitorKeepsUp
<1>5. CASE DeleteMessage
  <2>1. sources' = sources
    BY <1>5 DEF DeleteMessage
  <2>2. SourcesInv' /\ WalkTypes'
    BY <1>1, <1>2, <2>1 DEF SourcesInv, WalkTypes
  <2>3. ASSUME status' # "failed"
        PROVE  LimitInv' /\ CorpusIsMet' /\ \A s \in DOMAIN sources' : SourceInv(s)'
    <3>1. LimitInv /\ CorpusIsMet /\ \A s \in DOMAIN sources : SourceInv(s)
      BY <1>2, <2>3 DEF WalkInv
    <3>2. CorpusIsMet'
      BY <1>2, <3>1 DEF CorpusIsMet
    <3>3. \A s \in DOMAIN sources : WithinLimit(s)' <=> WithinLimit(s)
      BY <1>2, <2>1 DEF WithinLimit, DocsOf
    <3>4. LimitInv'
      BY <1>2, <2>1, <3>1, <3>3 DEF LimitInv
    <3>5. \A s \in DOMAIN sources : SourceInv(s)'
      BY <1>2, <2>1, <3>1, OthersMove
    <3> QED
      BY <2>1, <3>2, <3>4, <3>5
  <2> QED
    BY <1>3, <1>4, <2>2, <2>3 DEF WalkInv
<1>6. CASE FileMessage
  <2>1. status = "reading" /\ command \in {"process", "train"}
    BY <1>6 DEF FileMessage
  <2>0. PICK s \in DOMAIN sources :
          /\ sources[s].kind = "maildir"
          /\ \E f \in sources[s].files["new"] :
               sources' = [sources EXCEPT ![s].files["new"] = @ \ {f}, ![s].files["cur"] = @ \union {f}]
    BY <1>6 DEF FileMessage
  <2>2. PICK f \in sources[s].files["new"] :
          /\ sources[s].kind = "maildir"
          /\ sources' = [sources EXCEPT ![s].files["new"] = @ \ {f}, ![s].files["cur"] = @ \union {f}]
    BY <2>0
  <2>3. /\ DOMAIN sources' = DOMAIN sources /\ Len(sources') = Len(sources)
        /\ sources' \in Seq(ToSet(sources'))
        /\ \A t \in DOMAIN sources : t # s => sources'[t] = sources[t]
        /\ sources'[s].kind = "maildir" /\ IsMaildir(sources'[s])
    BY <1>1, <2>2, Filed
  <2>4. SourcesInv'
    BY <1>1, <1>2, <2>1, <2>3 DEF SourcesInv
  <2>5. WalkTypes'
    BY <1>1, <1>2, <2>3 DEF WalkTypes
  <2>6. LimitInv /\ CorpusIsMet /\ \A t \in DOMAIN sources : SourceInv(t)
    BY <2>1 DEF WalkInv
  <2>7. CorpusIsMet'
    BY <1>2, <2>6 DEF CorpusIsMet
  <2>8. \A t \in DOMAIN sources : sources'[t].kind = sources[t].kind
    BY <2>2, <2>3
  <2>9. \A t \in DOMAIN sources : WithinLimit(t)' <=> WithinLimit(t)
    BY <1>2, <2>8 DEF WithinLimit, DocsOf
  <2>10. LimitInv'
    BY <1>2, <2>3, <2>6, <2>8, <2>9 DEF LimitInv
  <2>11. \A t \in DOMAIN sources : SourceInv(t)'
    <3> TAKE t \in DOMAIN sources
    <3>1. CASE t = s
      BY <1>1, <1>2, <2>2, <2>6, <3>1, FiledKeeps
    <3>2. CASE t # s
      BY <1>2, <2>3, <2>6, <3>2, OthersMove
    <3> QED
      BY <3>1, <3>2
  <2> QED
    BY <1>3, <1>4, <2>3, <2>4, <2>5, <2>7, <2>10, <2>11 DEF WalkInv
<1> QED
  BY <1>5, <1>6
LEMMA WalkInitially ==
  ASSUME InitWalk \/ IdleWalk
  PROVE  WalkInv
<1>1. /\ at = [source |-> 1, pos |-> 1, before |-> 0] /\ buffer = <<>> /\ listing = Unlisted
      /\ results = NoResults /\ corpus = <<>> /\ status \in {"reading", "done"}
      /\ split = [fitted |-> {}, heldOut |-> {}]
      /\ inbox = <<>> /\ arrived = 0 /\ lastCount = 0 /\ seen = <<>> /\ moved = FALSE
  BY DEF InitWalk, IdleWalk
<1>2. Len(<<>>) = 0 /\ DOMAIN <<>> = {} /\ ToSet(<<>>) = {} /\ 1..0 = {} /\ \A T : <<>> \in Seq(T)
  BY EmptySeq DEF ToSet
<1>3. SourcesInv
  <2>1. CASE IdleWalk
    BY <1>2, <2>1 DEF IdleWalk, SourcesInv
  <2>2. CASE InitWalk
    <3>1. sources \in Inputs /\ limit \in Limits
      BY <2>2 DEF InitWalk
    <3>2. sources \in Seq(ToSet(sources)) /\ limit \in Nat
          /\ \A src \in ToSet(sources) : IsMbox(src) \/ IsMaildir(src)
      BY <3>1, MailboxAssumption
    <3>3. \A s \in DOMAIN sources : sources[s] \in ToSet(sources)
      BY DEF ToSet
    <3>4. /\ command \notin {"process", "train"} => sources = <<>>
          /\ command = "train" => Len(sources) > 1
      BY <2>2 DEF InitWalk
    <3> QED
      BY <3>2, <3>3, <3>4 DEF SourcesInv
  <2> QED
    BY <2>1, <2>2
<1>4. at.source = 1 /\ at.pos = 1 /\ at.before = 0
      /\ \A s \in DOMAIN sources : results[s] = <<>> /\ s \in Nat /\ s # 0
  <2>1. PICK T : sources \in Seq(T)
    BY <1>3 DEF SourcesInv
  <2>2. DOMAIN sources = 1..Len(sources)
    BY <2>1, LenProperties
  <2> QED
    BY <1>1, <2>2 DEF NoResults
<1>5. WalkTypes
  <2>1. at \in [source : Nat \ {0}, pos : Nat \ {0}, before : 0..Len(corpus)]
    BY <1>1, <1>2
  <2>2. listing \in [open : BOOLEAN, names : SUBSET Nat] /\ listing.names = {}
    BY <1>1 DEF Unlisted
  <2>3. results \in [DOMAIN sources -> Seq(Seq(Nat))]
    BY <1>1, <1>2 DEF NoResults
  <2> QED
    BY <1>1, <1>2, <1>4, <2>1, <2>2, <2>3 DEF WalkTypes
<1>6. FitInv
  BY <1>1 DEF FitInv, CorpusIsSplit
<1>7. InboxInv
  <2>1. SubSeq(<<>>, 1, 0) = <<>>
    BY SubSeqEmpty
  <2>2. inbox \in Seq(Nat) /\ lastCount \in 0..Len(inbox) /\ arrived \in Nat
    BY <1>1, <1>2
  <2> QED
    BY <1>1, <2>1, <2>2 DEF InboxInv, MonitorKeepsUp
<1>8. CorpusIsMet
  BY <1>1, <1>2 DEF CorpusIsMet, IsInjective
<1>9. LimitInv
  <2>1. \A s \in DOMAIN sources : DocsOf(s) = {}
    BY <1>1, <1>2 DEF DocsOf
  <2>2. Cardinality({}) = 0 /\ limit \in Nat
    BY <1>3, FS_EmptySet DEF SourcesInv
  <2>3. \A s \in DOMAIN sources : WithinLimit(s)
    <3> TAKE s \in DOMAIN sources
    <3>1. Len(results[s]) = 0 /\ Cardinality(DocsOf(s)) = 0
      BY <1>2, <1>4, <2>1, <2>2
    <3>2. limit \in Nat
      BY <2>2
    <3> QED
      BY <3>1, <3>2 DEF WithinLimit
  <2> QED
    BY <1>1, <1>2, <1>4, <2>2, <2>3 DEF LimitInv
<1>10. ASSUME NEW s \in DOMAIN sources PROVE SourceInv(s)
  <2>1. results[s] = <<>> /\ ~(at.source > s)
    BY <1>4
  <2>2. CASE sources[s].kind = "mbox"
    <3>1. MboxIsSplit(s)
      BY <1>2, <2>1 DEF MboxIsSplit
    <3>2. Len(sources[s].lines) \in Nat
      BY <1>3, <2>2, Shapes DEF SourcesInv
    <3>3. s = at.source => MboxSoFar
      BY <1>1, <1>2, <1>4, <2>1, <3>2 DEF MboxSoFar
    <3> QED
      BY <2>2, <3>1, <3>3 DEF SourceInv
  <2>3. CASE sources[s].kind # "mbox"
    <3>1. MaildirOnce(s)
      BY <1>2, <2>1 DEF MaildirOnce
    <3>2. MaildirMet(s)
      BY <1>2, <2>1 DEF MaildirMet
    <3>3. Directories \in {2, 3}
      BY DEF Directories
    <3>4. s = at.source => MaildirSoFar
      BY <1>1, <1>2, <1>4, <2>1, <3>3 DEF MaildirSoFar, Unlisted
    <3> QED
      BY <2>3, <3>1, <3>2, <3>4 DEF SourceInv
  <2> QED
    BY <2>2, <2>3
<1> QED
  BY <1>3, <1>5, <1>6, <1>7, <1>8, <1>9, <1>10 DEF WalkInv

\* Every action of the commands that walk mailboxes keeps the invariant.
LEMMA WalkPreserved ==
  ASSUME WalkInv, NextWalk \/ UNCHANGED walkVars
  PROVE  WalkInv'
<1>1. CASE \/ ProcessMboxLine \/ TrainMboxLine
           \/ OpenDirectory \/ ReadEntry \/ LeaveDirectory \/ LeaveMaildir
  BY <1>1, ReadingKeeps
<1>2. CASE MboxFails \/ DirectoryFails
  BY <1>2, FailingKeeps
<1>3. CASE Report
  BY <1>3, ReportKeeps
<1>4. CASE Train \/ CreateModel \/ WriteModel
  BY <1>4, ModelKeeps
<1>5. CASE TestInbox \/ Poll \/ PollFails \/ Arrive
  BY <1>5, InboxKeeps
<1>6. CASE FileMessage \/ DeleteMessage
  BY <1>6, WorldKeeps
<1>7. CASE UNCHANGED walkVars
  <2>1. Still
    BY <1>7 DEF Still, walkVars
  <2>2. FitInv'
    BY <1>7 DEF WalkInv, FitInv, CorpusIsSplit, walkVars
  <2>3. InboxInv'
    BY <1>7 DEF WalkInv, InboxInv, MonitorKeepsUp, walkVars
  <2> QED
    BY <2>1, <2>2, <2>3, StillKeeps
<1> QED
  BY <1>1, <1>2, <1>3, <1>4, <1>5, <1>6, <1>7 DEF NextWalk

LEMMA WalkImplies ==
  ASSUME WalkInv
  PROVE  EveryMessageOnce
<1>1. CorpusIsSplit /\ MonitorKeepsUp
  BY DEF WalkInv, FitInv, InboxInv
<1>2. ASSUME status # "failed"
      PROVE  /\ CorpusIsMet
             /\ \A s \in DOMAIN sources :
                  /\ IF sources[s].kind = "mbox" THEN MboxIsSplit(s) ELSE MaildirOnce(s)
                  /\ WithinLimit(s)
  BY <1>2 DEF WalkInv, LimitInv, SourceInv
<1> QED
  BY <1>1, <1>2 DEF EveryMessageOnce

\* For every set of mailboxes, limit and number of arrivals, and whatever a mail reader
\* does meanwhile: each message is met at most once, whole and in order, and none is
\* missed without a limit and with nobody moving files; the corpus is of messages that
\* were met and is split without loss; a monitor keeps up with its inbox (processMbox,
\* processMaildir, loadMboxCorpus, loadMaildirCorpus, splitCorpus, runDaemonMonitor).
THEOREM MessagesMetOnce == Spec => []EveryMessageOnce
<1>1. Init => WalkInv
  <2> SUFFICES ASSUME Init PROVE WalkInv
    OBVIOUS
  <2>1. InitWalk \/ IdleWalk
    BY DEF Init
  <2> QED
    BY <2>1, WalkInitially
<1>2. WalkInv /\ [Next]_vars => WalkInv'
  <2> SUFFICES ASSUME WalkInv, [Next]_vars PROVE WalkInv'
    OBVIOUS
  <2>1. NextWalk \/ UNCHANGED walkVars
    <3>1. CASE UNCHANGED vars
      BY <3>1 DEF vars
    <3>2. CASE Next
      BY <3>2 DEF Next, runInspect
    <3> QED
      BY <3>1, <3>2
  <2> QED
    BY <2>1, WalkPreserved
<1>3. WalkInv => EveryMessageOnce
  BY WalkImplies
<1> QED
  BY <1>1, <1>2, <1>3, PTL DEF Spec
=============================================================================
