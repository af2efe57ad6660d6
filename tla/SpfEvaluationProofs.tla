------------------------ MODULE SpfEvaluationProofs ------------------------
(***************************************************************************)
(* The limits of SpfEvaluation, for every zone and every limit: an          *)
(* evaluation that passes one ends in permerror, however deep the records    *)
(* nest, and asks no more questions than the limits allow; one that passes   *)
(* none ends in what the sender's record means.                             *)
(*                                                                         *)
(* StackInv says what the calls in progress are, PaidInv that each but the    *)
(* first was paid for, BudgetInv that a limit passed is remembered as the     *)
(* result under way, QueriesInv who has paid for the questions, MeaningInv    *)
(* that each call is on the way to what its domain means.                   *)
(***************************************************************************)
EXTENDS SpfMeaning, FiniteSetTheorems, SequenceTheorems, WellFoundedInduction,
  TLAPS

Frames == [domain : Domain, next : Nat, caller : {"sender", "include", "redirect"}]

\* The names one paid term may lead to, as in QueriesBounded.
Names == IF maxMXHosts > Cardinality(zone.ptr) THEN maxMXHosts
         ELSE Cardinality(zone.ptr)

\* Terms that were paid for.
Paid == IF lookups <= maxSPFLookups THEN lookups ELSE maxSPFLookups

\* The call under way has yet to ask for its record.
Pending == ret = "" /\ verdict = "" /\ (stack = <<>> \/ Innermost.next = 0)

StackInv ==
  /\ stack = <<>> => ret = ""
  /\ stack # <<>> => verdict = "" /\ Identity \in Domain
  /\ \A i \in 1..Len(stack) : stack[i].caller = "sender" <=> i = 1
  /\ \A i \in 1..Len(stack) : i < Len(stack) => stack[i].next > 0
  /\ \A i \in 1..Len(stack) : stack[i].next > 0 => zone.txt[stack[i].domain] # <<>>

\* Every open call but the first was paid for.
PaidInv == Len(stack) <= 1 + Paid

\* A limit that was passed is remembered.
BudgetInv == WithinLimits \/ ret = "permerror" \/ verdict = "permerror"

\* The first record is free, any other question is one of a paid term's.
QueriesInv ==
  /\ queries <= 1 + Paid * (1 + Names)
  /\ Pending => queries <= Paid * (1 + Names)

IInv == TypeOK /\ StackInv /\ PaidInv /\ BudgetInv /\ QueriesInv

-----------------------------------------------------------------------------
(***************************************************************************)
(* The stack of calls.                                                      *)
(***************************************************************************)
LEMMA Top ==
  ASSUME TypeOK, stack # <<>>
  PROVE  /\ stack \in Seq(Frames) /\ Len(stack) \in Nat \ {0}
         /\ Innermost = stack[Len(stack)] /\ Innermost \in Frames
<1>1. stack \in Seq(Frames)
  BY DEF TypeOK, Frames
<1>2. Len(stack) \in Nat \ {0}
  BY <1>1, EmptySeq
<1>3. stack[Len(stack)] \in Frames
  BY <1>1, <1>2, ElementOfSeq
<1> QED
  BY <1>1, <1>2, <1>3 DEF Innermost

\* The innermost call goes on to its next term.
LEMMA Continued ==
  ASSUME TypeOK, stack # <<>>
  PROVE  /\ Continue \in Seq(Frames) /\ Len(Continue) = Len(stack) /\ Continue # <<>>
         /\ \A i \in 1..Len(stack) :
              /\ Continue[i].domain = stack[i].domain
              /\ Continue[i].caller = stack[i].caller
              /\ Continue[i].next = IF i = Len(stack) THEN stack[i].next + 1
                                    ELSE stack[i].next
<1> DEFINE n == Len(stack)
           e == [stack[n] EXCEPT !.next = @ + 1]
<1>1. stack \in Seq(Frames) /\ n \in Nat \ {0} /\ stack[n] \in Frames
  BY Top
<1>2. e \in Frames /\ e.caller = stack[n].caller /\ e.next = stack[n].next + 1
      /\ e.domain = stack[n].domain
  BY <1>1 DEF Frames
<1>3. Continue = [stack EXCEPT ![n] = e]
  BY DEF Continue
<1> HIDE DEF e
<1>4. n \in 1..Len(stack)
  BY <1>1
<1>5. /\ Continue \in Seq(Frames) /\ Len(Continue) = n
      /\ \A j \in 1..Len(stack) : Continue[j] = IF j = n THEN e ELSE stack[j]
  BY <1>1, <1>2, <1>3, <1>4, ExceptSeq
<1>6. Continue # <<>>
  BY <1>1, <1>5, EmptySeq
<1> QED
  BY <1>2, <1>5, <1>6

\* An include or a redirect opens a call.
LEMMA Opened ==
  ASSUME TypeOK, NEW d \in Domain, NEW caller \in {"sender", "include", "redirect"}
  PROVE  LET new == Append(stack, Call(d, caller)) IN
         /\ new \in Seq(Frames) /\ Len(new) = Len(stack) + 1 /\ new # <<>>
         /\ Len(stack) \in Nat
         /\ \A i \in 1..Len(stack) : new[i] = stack[i]
         /\ new[Len(stack) + 1] = Call(d, caller)
<1>1. stack \in Seq(Frames) /\ Call(d, caller) \in Frames
  BY DEF TypeOK, Frames, Call
<1> QED
  BY <1>1, AppendProperties

\* A call returns to the one that opened it.
LEMMA Popped ==
  ASSUME TypeOK, stack # <<>>
  PROVE  /\ Outer \in Seq(Frames) /\ Len(Outer) = Len(stack) - 1
         /\ \A i \in 1..Len(Outer) : Outer[i] = stack[i]
<1>1. stack \in Seq(Frames) /\ Len(stack) \in Nat \ {0}
  BY Top
<1>2. \A i \in 1..(Len(stack) - 1) : stack[i] \in Frames
  BY <1>1, ElementOfSeq
<1>3. 1 \in Int /\ Len(stack) - 1 \in Int
  BY <1>1
<1> DEFINE n == Len(stack) - 1
<1>4. n \in Int /\ \A i \in 1..n : stack[i] \in Frames
  BY <1>2, <1>3
<1> HIDE DEF n
<1>5. /\ SubSeq(stack, 1, n) \in Seq(Frames)
      /\ Len(SubSeq(stack, 1, n)) = IF 1 <= n THEN n - 1 + 1 ELSE 0
      /\ \A i \in 1..n - 1 + 1 : SubSeq(stack, 1, n)[i] = stack[1 + i - 1]
  BY <1>3, <1>4, SubSeqProperties
<1>6. n \in Nat
  BY <1>1 DEF n
<1>7. Outer = SubSeq(stack, 1, n)
  BY DEF Outer, n
<1>8. Len(SubSeq(stack, 1, n)) = n
      /\ \A i \in 1..n : SubSeq(stack, 1, n)[i] = stack[i]
  BY <1>5, <1>6
<1> QED
  BY <1>5, <1>7, <1>8 DEF n

-----------------------------------------------------------------------------
(***************************************************************************)
(* Counting.                                                                *)
(***************************************************************************)
LEMMA Numbers ==
  ASSUME TypeOK
  PROVE  /\ maxSPFLookups \in Nat /\ maxSPFVoidLookups \in Nat
         /\ maxSPFRedirects \in Nat /\ maxMXHosts \in Nat
         /\ lookups \in Nat /\ voidLookups \in Nat /\ redirects \in Nat
         /\ queries \in Nat /\ Names \in Nat
         /\ Paid \in Nat /\ Paid <= lookups /\ Paid <= maxSPFLookups
         /\ lookups < maxSPFLookups => Paid = lookups
         /\ maxMXHosts <= Names /\ Cardinality(zone.ptr) <= Names
<1>1. IsFiniteSet(zone.ptr)
  BY DEF TypeOK, IsZone
<1>2. Cardinality(zone.ptr) \in Nat
  BY <1>1, FS_CardinalityType
<1>3. /\ maxSPFLookups \in Nat /\ maxSPFVoidLookups \in Nat
      /\ maxSPFRedirects \in Nat /\ maxMXHosts \in Nat
  BY SpfAssumption DEF SpfAssumption
<1>4. /\ lookups \in Nat /\ voidLookups \in Nat /\ redirects \in Nat /\ queries \in Nat
  <2>1. /\ lookups \in 0..maxSPFLookups + 1 /\ voidLookups \in 0..maxSPFVoidLookups + 1
        /\ redirects \in 0..maxSPFRedirects + 1 /\ queries \in Nat
    BY DEF TypeOK
  <2> QED
    BY <1>3, <2>1
<1>5. Names \in Nat /\ maxMXHosts <= Names /\ Cardinality(zone.ptr) <= Names
  BY <1>2, <1>3 DEF Names
<1> QED
  BY <1>3, <1>4, <1>5 DEF Paid

\* One more paid term pays for one more batch of names.
LEMMA Payment ==
  ASSUME NEW n \in Nat, NEW k \in Nat
  PROVE  n * (1 + k) \in Nat /\ (n + 1) * (1 + k) = n * (1 + k) + 1 + k
  OBVIOUS

LEMMA MorePays ==
  ASSUME NEW n \in Nat, NEW m \in Nat, n <= m, NEW k \in Nat
  PROVE  n * (1 + k) <= m * (1 + k)
  OBVIOUS

-----------------------------------------------------------------------------
(***************************************************************************)
(* What the steps of an evaluation do, by kind.                             *)
(***************************************************************************)
\* A term is paid for, and what it asks is no more than it pays for.
Charged ==
  /\ lookups' = lookups + 1
  /\ voidLookups' \in {voidLookups, voidLookups + 1}
  /\ IF lookups < maxSPFLookups
     THEN \E asked \in 0..(1 + Names) : queries' = queries + asked
     ELSE queries' = queries
  /\ lookups >= maxSPFLookups \/ voidLookups' > maxSPFVoidLookups => ret' = "permerror"

\* A term other than an include is evaluated.
Evaluated ==
  /\ Running /\ Innermost.next > 0
  /\ ret' \in SpfResults \union {""} /\ stack' = (IF ret' = "" THEN Continue ELSE stack)
  /\ UNCHANGED <<zone, client, redirects, verdict>>
  /\ UNCHANGED <<lookups, voidLookups, queries>> \/ Charged

\* The record is asked for and found.
RecordFound ==
  /\ Running /\ Innermost.next = 0 /\ zone.txt[Innermost.domain] # <<>>
  /\ queries' = queries + 1 /\ ret' = "" /\ stack' = Continue
  /\ UNCHANGED <<zone, client, counters, verdict>>

\* A call opens another.
Opens ==
  /\ Running /\ Innermost.next > 0
  /\ lookups < maxSPFLookups /\ lookups' = lookups + 1
  /\ \/ UNCHANGED redirects
     \/ redirects < maxSPFRedirects /\ redirects' = redirects + 1
  /\ \E d \in Domain, caller \in {"include", "redirect"} :
       stack' = Append(stack, Call(d, caller))
  /\ UNCHANGED <<zone, client, ret, voidLookups, queries, verdict>>

\* A call ends, where it stands.
Ends ==
  /\ Running /\ stack' = stack /\ ret' \in SpfResults
  /\ queries' = queries + (IF Innermost.next = 0 THEN 1 ELSE 0)
  /\ lookups' \in {lookups, lookups + 1} /\ voidLookups' \in {voidLookups, voidLookups + 1}
  /\ redirects' \in {redirects, redirects + 1}
  /\ WithinLimits' \/ ret' = "permerror"
  /\ UNCHANGED <<zone, client, verdict>>

\* A call other than the first returns; its caller ends with it or goes on.
Returns ==
  /\ stack # <<>> /\ ret # "" /\ Innermost.caller # "sender"
  /\ \/ stack' = Outer /\ ret' \in SpfResults
     \/ /\ ret' = "" /\ stack' = [Outer EXCEPT ![Len(Outer)].next = @ + 1]
  /\ ret = "permerror" => ret' = "permerror"
  /\ UNCHANGED <<zone, client, counters, queries, verdict>>

\* Records name domains only: what a term names, with its macros expanded, is a
\* domain or refused.
LEMMA TermNames ==
  ASSUME TypeOK, StackInv, Running, NEW spec \in Specs
  PROVE  /\ expandDomainSpec(spec) \in Domain \union {BadMacro, ""}
         /\ expandDomainSpec(spec) = "" => spec = ""
         /\ mechanismTarget(spec) \in Domain \union {BadMacro}
<1>1. Innermost.domain \in Domain /\ Identity \in Domain
  BY Top DEF Running, Frames, StackInv
<1>2. \A d \in Domain : d # ""
  BY SpfAssumption DEF SpfAssumption
<1> QED
  BY <1>1, <1>2 DEF Specs, expandDomainSpec, mechanismTarget, CurrentDomain, SenderDomain,
    BadMacro

LEMMA Qualified ==
  ASSUME NEW q PROVE qualifierToResult(q) \in SpfResults \ {"permerror"}
  BY DEF qualifierToResult, SpfResults

\* spend and countVoid, whatever is asked.
LEMMA Asking ==
  ASSUME TypeOK, At({"a", "mx", "exists", "ptr"}), NEW cost \in 0..(1 + Names),
         NEW bad \in BOOLEAN, NEW void \in BOOLEAN, NEW tooMany \in BOOLEAN,
         NEW matched \in BOOLEAN, Ask(bad, cost, void, tooMany, matched)
  PROVE  Evaluated
<1>1. lookups \in Nat /\ voidLookups \in Nat /\ queries \in Nat /\ Names \in Nat
      /\ maxSPFLookups \in Nat
  BY Numbers
<1>2. ret' \in SpfResults \union {""} /\ stack' = (IF ret' = "" THEN Continue ELSE stack)
  BY Qualified DEF Ask, Conclude, SpfResults
<1>3. lookups' = lookups + 1 /\ voidLookups' \in {voidLookups, voidLookups + 1}
  BY DEF Ask
<1>4. IF lookups < maxSPFLookups
      THEN \E asked \in 0..(1 + Names) : queries' = queries + asked
      ELSE queries' = queries
  <2>1. 0 \in 0..(1 + Names) /\ queries + 0 = queries
    BY <1>1
  <2>2. lookups < maxSPFLookups \/ lookups >= maxSPFLookups
    BY <1>1
  <2>3. queries' = queries \/ queries' = queries + cost
    BY DEF Ask
  <2>4. ~(lookups < maxSPFLookups) => queries' = queries
    BY <2>2 DEF Ask
  <2> QED
    BY <2>1, <2>3, <2>4
<1>5. lookups >= maxSPFLookups \/ voidLookups' > maxSPFVoidLookups => ret' = "permerror"
  BY DEF Ask, Conclude
<1> QED
  BY <1>2, <1>3, <1>4, <1>5 DEF Evaluated, Charged, At

-----------------------------------------------------------------------------
(***************************************************************************)
(* Each action is of one of those kinds.                                    *)
(***************************************************************************)
LEMMA TermsTyped ==
  ASSUME TypeOK, StackInv, Running, Innermost.next > 0
  PROVE  /\ Innermost.domain \in Domain /\ Innermost.next \in Nat \ {0}
         /\ terms \in Seq(Terms)
<1>1. stack # <<>>
  BY DEF Running
<1>2. /\ Len(stack) \in 1..Len(stack) /\ Innermost = stack[Len(stack)]
      /\ Innermost \in Frames
  BY <1>1, Top
<1>3. zone.txt[Innermost.domain] # <<>>
  BY <1>2 DEF StackInv
<1>4. Innermost.domain \in Domain /\ Innermost.next \in Nat \ {0}
  BY <1>2 DEF Frames
<1>5. zone.txt \in [Domain -> Seq(Records)]
  BY DEF TypeOK, IsZone
<1>6. zone.txt[Innermost.domain] \in Seq(Records)
  BY <1>4, <1>5
<1>7. zone.txt[Innermost.domain][1] \in Records
  BY <1>3, <1>6, EmptySeq, ElementOfSeq
<1> QED
  BY <1>4, <1>7 DEF terms, Records

LEMMA TermTyped ==
  ASSUME TypeOK, StackInv, NEW names, At(names)
  PROVE  /\ Running /\ Innermost.next > 0 /\ Innermost.domain \in Domain
         /\ term \in Terms /\ term.name \in names
         /\ "ip" \notin names => term.arg \in Specs
<1>1. Running /\ Innermost.next > 0 /\ Innermost.next <= Len(terms) /\ term.name \in names
  BY DEF At
<1>2. Innermost.next \in Nat \ {0} /\ Innermost.domain \in Domain /\ terms \in Seq(Terms)
  BY <1>1, TermsTyped
<1>3. Innermost.next \in 1..Len(terms)
  BY <1>1, <1>2, LenProperties
<1>4. term \in Terms
  BY <1>2, <1>3, ElementOfSeq DEF term
<1>5. ASSUME "ip" \notin names PROVE term.arg \in Specs
  BY <1>1, <1>4, <1>5 DEF Terms
<1> QED
  BY <1>1, <1>2, <1>4, <1>5

LEMMA PlainTerm ==
  ASSUME TypeOK, StackInv, Modifier \/ LocalMechanism
  PROVE  Evaluated
<1>1. CASE Modifier
  BY <1>1, Qualified DEF Modifier, At, Conclude, Evaluated, SpfResults
<1>2. CASE LocalMechanism
  BY <1>2, Qualified DEF LocalMechanism, At, Conclude, Evaluated, SpfResults
<1> QED
  BY <1>1, <1>2

LEMMA AskingA ==
  ASSUME TypeOK, StackInv, MechanismA
  PROVE  Evaluated
<1> DEFINE target == mechanismTarget(term.arg)
           void == zone.a[target] = {}
           matched == anyAddressMatches(zone.a[target], term.wide)
<1>1. At({"a"}) /\ At({"a", "mx", "exists", "ptr"})
  BY DEF MechanismA, At
<1>2. 0 \in 0..(1 + Names) /\ 1 \in 0..(1 + Names)
  BY Numbers
<1>3. CASE target = BadMacro
  BY <1>1, <1>2, <1>3, Asking DEF MechanismA
<1>4. CASE target # BadMacro
  <2>1. Ask(FALSE, 1, void, FALSE, matched)
    BY <1>4 DEF MechanismA
  <2>2. void \in BOOLEAN /\ matched \in BOOLEAN
    BY DEF anyAddressMatches
  <2> HIDE DEF void, matched
  <2> QED
    BY <1>1, <1>2, <2>1, <2>2, Asking
<1> QED
  BY <1>3, <1>4

LEMMA AskingMX ==
  ASSUME TypeOK, StackInv, MechanismMX
  PROVE  Evaluated
<1> DEFINE target == mechanismTarget(term.arg)
           hosts == zone.mx[target]
           many == Len(hosts) > maxMXHosts
           cost == IF many THEN 1 ELSE 1 + Len(hosts)
           void == hosts = <<>>
           matched == \E i \in DOMAIN hosts : anyAddressMatches(zone.a[hosts[i]], term.wide)
<1>1. At({"mx"}) /\ At({"a", "mx", "exists", "ptr"})
  BY DEF MechanismMX, At
<1>2. 0 \in 0..(1 + Names) /\ 1 \in 0..(1 + Names)
  BY Numbers
<1>3. CASE target = BadMacro
  BY <1>1, <1>2, <1>3, Asking DEF MechanismMX
<1>4. CASE target # BadMacro
  <2>1. Ask(FALSE, cost, void, many, matched)
    BY <1>4 DEF MechanismMX
  <2>2. term.arg \in Specs /\ Running
    BY <1>1, TermTyped
  <2>3. target \in Domain
    BY <1>4, <2>2, TermNames
  <2>4. hosts \in Seq(Domain)
    BY <2>3 DEF TypeOK, IsZone
  <2>5. Len(hosts) \in Nat
    BY <2>4, LenProperties
  <2>6. cost \in 0..(1 + Names)
    <3>1. Names \in Nat /\ maxMXHosts \in Nat /\ maxMXHosts <= Names
      BY Numbers
    <3>2. PICK h : h = Len(hosts)
      OBVIOUS
    <3>3. h \in Nat /\ cost = IF h > maxMXHosts THEN 1 ELSE 1 + h
      BY <2>5, <3>2
    <3> HIDE DEF cost
    <3> QED
      BY <3>1, <3>3
  <2>7. void \in BOOLEAN /\ many \in BOOLEAN /\ matched \in BOOLEAN
    OBVIOUS
  <2> HIDE DEF void, many, matched, cost
  <2> QED
    BY <1>1, <2>1, <2>6, <2>7, Asking
<1> QED
  BY <1>3, <1>4

LEMMA AskingExists ==
  ASSUME TypeOK, StackInv, MechanismExists
  PROVE  Evaluated
<1> DEFINE target == expandDomainSpec(term.arg)
           void == zone.a[target] = {}
           matched == zone.a[target] # {}
<1>1. At({"exists"}) /\ At({"a", "mx", "exists", "ptr"})
  BY DEF MechanismExists, At
<1>2. 0 \in 0..(1 + Names) /\ 1 \in 0..(1 + Names)
  BY Numbers
<1>3. CASE target \in {BadMacro, ""}
  BY <1>1, <1>2, <1>3, Asking DEF MechanismExists
<1>4. CASE target \notin {BadMacro, ""}
  <2>1. Ask(FALSE, 1, void, FALSE, matched)
    BY <1>4 DEF MechanismExists
  <2>2. void \in BOOLEAN /\ matched \in BOOLEAN
    OBVIOUS
  <2> HIDE DEF void, matched
  <2> QED
    BY <1>1, <1>2, <2>1, <2>2, Asking
<1> QED
  BY <1>3, <1>4

LEMMA AskingPTR ==
  ASSUME TypeOK, StackInv, MechanismPTR
  PROVE  Evaluated
<1> DEFINE target == IF term.arg = "" THEN Innermost.domain ELSE term.arg
           inside == {n \in zone.ptr : n = target \/ <<n, target>> \in Subdomain}
           cost == 1 + Cardinality(inside)
           matched == \E n \in inside : "client" \in zone.a[n]
<1>1. At({"ptr"}) /\ At({"a", "mx", "exists", "ptr"})
  BY DEF MechanismPTR, At
<1>2. Ask(FALSE, cost, FALSE, FALSE, matched)
  BY DEF MechanismPTR
<1>3. inside \in SUBSET zone.ptr /\ IsFiniteSet(zone.ptr)
  BY DEF TypeOK, IsZone
<1> HIDE DEF inside
<1>4. Cardinality(inside) \in Nat /\ Cardinality(inside) <= Cardinality(zone.ptr)
      /\ Cardinality(zone.ptr) \in Nat
  BY <1>3, FS_Subset, FS_CardinalityType
<1>5. cost \in 0..(1 + Names)
  BY <1>4, Numbers
<1>6. matched \in BOOLEAN
  OBVIOUS
<1> HIDE DEF cost, matched
<1> QED
  BY <1>1, <1>2, <1>5, <1>6, Asking

LEMMA AskingForRecord ==
  ASSUME TypeOK, StackInv, BudgetInv, findRecord
  PROVE  Ends \/ RecordFound
<1> DEFINE found == zone.txt[Innermost.domain]
           large == Innermost.domain \in zone.oversized
           void == found = <<>> /\ ~large
<1>0. /\ lookups \in Nat /\ voidLookups \in Nat /\ redirects \in Nat /\ queries \in Nat
      /\ ~(voidLookups >= maxSPFVoidLookups) =>
           voidLookups < maxSPFVoidLookups /\ voidLookups + 1 <= maxSPFVoidLookups
  BY Numbers
<1>1. /\ Running /\ Innermost.next = 0 /\ queries' = queries + 1
      /\ voidLookups' = (IF void THEN voidLookups + 1 ELSE voidLookups)
      /\ stack' = (IF ret' = "" THEN Continue ELSE stack)
      /\ UNCHANGED <<zone, client, lookups, redirects, verdict>>
  BY DEF findRecord
<1>2. /\ ret' \in {"permerror", "none", ""}
      /\ ret' = "" => found # <<>>
      /\ ret' # "permerror" /\ void => voidLookups + 1 <= maxSPFVoidLookups
  <2> DEFINE error == CASE large -> "permerror"
                        [] void -> IF voidLookups >= maxSPFVoidLookups
                                   THEN "permerror" ELSE "none"
                        [] found # <<>> /\ (Len(found) > 1 \/ ~found[1].spf1) -> "permerror"
                        [] OTHER -> ""
  <2>1. ret' = error
    BY DEF findRecord
  <2>2. CASE large
    BY <2>1, <2>2
  <2>3. CASE void /\ ~large
    BY <1>0, <2>1, <2>3
  <2>4. CASE ~large /\ ~void
    BY <2>1, <2>4
  <2> QED
    BY <2>2, <2>3, <2>4
<1>3. WithinLimits
  <2>1. verdict = ""
    BY <1>1 DEF StackInv, Running
  <2> QED
    BY <1>1, <2>1 DEF BudgetInv, Running
<1>4. CASE ret' = ""
  <2>1. ~void
    BY <1>2, <1>4
  <2> QED
    BY <1>1, <1>2, <1>4, <2>1 DEF RecordFound, counters
<1>5. CASE ret' # ""
  <2> HIDE DEF void
  <2>1. WithinLimits' \/ ret' = "permerror"
    BY <1>1, <1>2, <1>3 DEF WithinLimits
  <2> QED
    BY <1>1, <1>2, <1>5, <2>1 DEF Ends, SpfResults
<1> QED
  BY <1>4, <1>5

LEMMA Including ==
  ASSUME TypeOK, StackInv, MechanismInclude
  PROVE  Ends \/ Opens
<1> DEFINE target == expandDomainSpec(term.arg)
<1>0. lookups >= maxSPFLookups \/ lookups < maxSPFLookups
  BY Numbers
<1>1. /\ Running /\ Innermost.next > 0 /\ term.arg \in Specs /\ Innermost.next \in Nat \ {0}
      /\ UNCHANGED <<zone, client, redirects, verdict, voidLookups, queries>>
      /\ lookups' = lookups + 1
  BY TermTyped, TermsTyped DEF MechanismInclude, At
<1>2. target \in Domain \union {BadMacro, ""}
  BY <1>1, TermNames
<1>3. CASE lookups >= maxSPFLookups \/ target \in {BadMacro, ""}
  <2>1. ret' = "permerror" /\ stack' = stack
    BY <1>3 DEF MechanismInclude
  <2> QED
    BY <1>1, <2>1, Numbers DEF Ends, SpfResults
<1>4. CASE ~(lookups >= maxSPFLookups \/ target \in {BadMacro, ""})
  <2>1. stack' = Append(stack, Call(target, "include")) /\ ret' = ret
    BY <1>4 DEF MechanismInclude
  <2>2. lookups < maxSPFLookups
    BY <1>0, <1>4
  <2>3. target \in Domain
    BY <1>2, <1>4
  <2> HIDE DEF target
  <2> QED
    BY <1>1, <2>1, <2>2, <2>3 DEF Opens
<1> QED
  BY <1>3, <1>4

LEMMA Finishing ==
  ASSUME TypeOK, StackInv, BudgetInv, NoMatch
  PROVE  Ends
<1>1. /\ Running /\ Innermost.next > 0
      /\ UNCHANGED <<zone, client, voidLookups, queries, verdict, stack, lookups, redirects>>
      /\ ret' = "neutral"
  BY DEF NoMatch, AtEnd
<1>2. Innermost.next \in Nat \ {0}
  BY <1>1, TermsTyped
<1>3. WithinLimits
  <2>1. verdict = ""
    BY <1>1 DEF StackInv, Running
  <2> QED
    BY <1>1, <2>1 DEF BudgetInv, Running
<1>4. WithinLimits'
  BY <1>1, <1>3 DEF WithinLimits
<1> QED
  BY <1>1, <1>2, <1>4, Numbers DEF Ends, SpfResults

\* A set of positions has a last one.
LEMMA LargestOf ==
  ASSUME NEW n \in Nat, NEW S, S \subseteq 1..n, S # {}
  PROVE  \E m \in S : \A j \in S : m >= j
<1> DEFINE R == OpToRel(<, Nat)
           T == {k \in 0..n : n - k \in S}
<1>1. T \subseteq Nat /\ T # {}
  <2>1. PICK j \in S : TRUE
    OBVIOUS
  <2>2. j \in 1..n /\ n - j \in 0..n /\ n - (n - j) = j
    BY <2>1
  <2>3. n - j \in T
    BY <2>1, <2>2
  <2>4. T \subseteq Nat
    OBVIOUS
  <2> QED
    BY <2>3, <2>4
<1>2. PICK x \in T : \A y \in T : ~ (<<y, x>> \in R)
  <2> HIDE DEF T, R
  <2> QED
    BY <1>1, WFMin, NatLessThanWellFounded DEF R
<1>3. \A y \in T : ~ (y < x)
  BY <1>1, <1>2 DEF OpToRel
<1>4. \A j \in S : n - x >= j
  <2> TAKE j \in S
  <2>1. j \in 1..n /\ n - j \in 0..n /\ n - (n - j) = j
    OBVIOUS
  <2>2. n - j \in T
    BY <2>1
  <2>3. ~ (n - j < x) /\ x \in 0..n
    BY <1>2, <1>3, <2>2
  <2> HIDE DEF T
  <2> QED
    BY <2>1, <2>3
<1> QED
  BY <1>2, <1>4

\* The last redirect modifier of a record has a name for its argument: of
\* finitely many terms one is the last.
LEMMA LastRedirect ==
  ASSUME NEW ts \in Seq(Terms), NEW named, named = {i \in DOMAIN ts : ts[i].name = "redirect"},
         named # {}
  PROVE  ts[CHOOSE i \in named : \A j \in named : i >= j].arg \in Specs
<1> DEFINE n == Len(ts)
<1>1. n \in Nat /\ DOMAIN ts = 1..n
  BY LenProperties
<1>2. PICK m \in named : \A j \in named : m >= j
  BY <1>1, LargestOf
<1> DEFINE last == CHOOSE i \in named : \A j \in named : i >= j
<1>3. last \in named
  BY <1>2
<1>4. ts[last] \in Terms /\ ts[last].name = "redirect"
  BY <1>1, <1>3, ElementOfSeq
<1> HIDE DEF last
<1>5. ts[last].arg \in Specs
  BY <1>4 DEF Terms
<1> QED
  BY <1>5 DEF last

\* What a redirect names is a domain or refused.
LEMMA RedirectNames ==
  ASSUME TypeOK, StackInv, FollowRedirect
  PROVE  expandDomainSpec(Redirect) \in Domain \union {BadMacro}
<1> DEFINE named == {i \in DOMAIN terms : terms[i].name = "redirect"}
           last == CHOOSE i \in named : \A j \in named : i >= j
<1>1. Running /\ Innermost.next > 0 /\ Redirect # ""
  BY DEF FollowRedirect, AtEnd
<1>2. terms \in Seq(Terms)
  BY <1>1, TermsTyped
<1>3. named # {} /\ Redirect = terms[last].arg
  BY <1>1 DEF Redirect
<1>4. Redirect \in Specs
  BY <1>2, <1>3, LastRedirect DEF Redirect
<1> QED
  BY <1>1, <1>4, TermNames

LEMMA Redirecting ==
  ASSUME TypeOK, StackInv, BudgetInv, FollowRedirect
  PROVE  Ends \/ Opens
<1> DEFINE target == expandDomainSpec(Redirect)
           bad == target = BadMacro
           long == redirects >= maxSPFRedirects
           spent == lookups >= maxSPFLookups
<1>1. /\ Running /\ Innermost.next > 0 /\ Redirect # ""
      /\ UNCHANGED <<zone, client, voidLookups, queries, verdict>>
      /\ redirects' = (IF bad THEN redirects ELSE redirects + 1)
      /\ lookups' = (IF bad \/ long THEN lookups ELSE lookups + 1)
  BY DEF FollowRedirect, AtEnd
<1>2. Innermost.next \in Nat \ {0} /\ terms \in Seq(Terms)
  BY <1>1, TermsTyped
<1>3. target \in Domain \union {BadMacro}
  BY RedirectNames
<1>4. CASE bad \/ long \/ spent
  <2>1. ret' = "permerror" /\ stack' = stack
    BY <1>4 DEF FollowRedirect
  <2>2. redirects' \in {redirects, redirects + 1} /\ lookups' \in {lookups, lookups + 1}
    BY <1>1
  <2>3. queries' = queries + (IF Innermost.next = 0 THEN 1 ELSE 0)
    <3>1. Innermost.next # 0 /\ queries + 0 = queries
      BY <1>2, Numbers
    <3> QED
      BY <1>1, <3>1
  <2> QED
    BY <1>1, <2>1, <2>2, <2>3 DEF Ends, SpfResults
<1>5. CASE ~(bad \/ long \/ spent)
  <2>1. /\ stack' = Append(stack, Call(target, "redirect")) /\ ret' = ret
        /\ redirects' = redirects + 1 /\ lookups' = lookups + 1
    BY <1>1, <1>5 DEF FollowRedirect
  <2>2. target \in Domain
    BY <1>3, <1>5
  <2> HIDE DEF target, bad
  <2>3. lookups < maxSPFLookups /\ redirects < maxSPFRedirects
    BY <1>5, Numbers
  <2> QED
    BY <1>1, <2>1, <2>2, <2>3 DEF Opens
<1> QED
  BY <1>4, <1>5

LEMMA Unwinding ==
  ASSUME TypeOK, StackInv, ReturnToInclude \/ ReturnToRedirect
  PROVE  Returns
<1>1. /\ stack # <<>> /\ ret # "" /\ Innermost.caller # "sender"
      /\ UNCHANGED <<zone, client, counters, queries, verdict>>
  BY DEF ReturnToInclude, ReturnToRedirect, Returning
<1>2. CASE ReturnToInclude
  <2> DEFINE q == zone.txt[Includer.domain][1].terms[Includer.next].q
  <2>1. qualifierToResult(q) \in SpfResults
    BY Qualified
  <2>2. CASE ret = "pass"
    BY <1>1, <1>2, <2>1, <2>2 DEF ReturnToInclude, Returns
  <2>3. CASE ret \in {"none", "temperror", "permerror"}
    BY <1>1, <1>2, <2>3 DEF ReturnToInclude, Returns, SpfResults
  <2>4. CASE ret \notin {"pass", "none", "temperror", "permerror"}
    BY <1>1, <1>2, <2>4 DEF ReturnToInclude, Returns
  <2> QED
    BY <2>2, <2>3, <2>4
<1>3. CASE ReturnToRedirect
  <2>1. stack' = Outer /\ ret' = IF ret = "none" THEN "permerror" ELSE ret
    BY <1>3 DEF ReturnToRedirect
  <2>2. ret' \in SpfResults
    BY <1>1, <2>1 DEF TypeOK, SpfResults
  <2> QED
    BY <1>1, <2>1, <2>2 DEF Returns
<1> QED
  BY <1>2, <1>3

-----------------------------------------------------------------------------
(***************************************************************************)
(* Each kind of step keeps the invariant.                                   *)
(***************************************************************************)
\* While a call runs no limit has been passed.
LEMMA StillWithin ==
  ASSUME IInv, Running
  PROVE  /\ stack # <<>> /\ ret = "" /\ verdict = "" /\ WithinLimits
         /\ Paid = lookups
         /\ Pending <=> Innermost.next = 0
<1>1. stack # <<>> /\ ret = "" /\ verdict = ""
  BY DEF Running, IInv, StackInv
<1>2. WithinLimits
  BY <1>1 DEF IInv, BudgetInv
<1>3. Paid = lookups
  BY <1>2 DEF WithinLimits, Paid
<1> QED
  BY <1>1, <1>2, <1>3 DEF Pending

\* A step within a call leaves the calls as they are.
LEMMA SameCalls ==
  ASSUME IInv, Running, stack' \in {stack, Continue}, UNCHANGED <<zone, client, verdict>>,
         stack' = Continue => zone.txt[Innermost.domain] # <<>>
  PROVE  /\ StackInv' /\ stack' \in Seq(Frames) /\ Len(stack') = Len(stack)
         /\ stack' # <<>>
<1>1. stack # <<>> /\ TypeOK /\ StackInv
  BY DEF Running, IInv
<1>2. Len(stack) \in Nat \ {0} /\ Innermost = stack[Len(stack)]
  BY <1>1, Top
<1>3. \A i \in 1..Len(stack) : stack[i] \in Frames
  BY <1>1, Top, ElementOfSeq
<1>4. CASE stack' = stack
  BY <1>1, <1>4, Top DEF StackInv, Identity, Running
<1>5. CASE stack' = Continue
  <2>1. Continue \in Seq(Frames) /\ Len(Continue) = Len(stack) /\ Continue # <<>>
    BY <1>1, Continued
  <2>2. \A i \in 1..Len(stack) :
          /\ Continue[i].domain = stack[i].domain /\ Continue[i].caller = stack[i].caller
          /\ Continue[i].next = IF i = Len(stack) THEN stack[i].next + 1 ELSE stack[i].next
    BY <1>1, Continued
  <2>3. \A i \in 1..Len(stack) : Continue[i].caller = "sender" <=> i = 1
    BY <1>1, <2>2 DEF StackInv
  <2>4. \A i \in 1..Len(stack) : i < Len(stack) => Continue[i].next > 0
    <3> SUFFICES ASSUME NEW i \in 1..Len(stack), i < Len(stack) PROVE Continue[i].next > 0
      OBVIOUS
    <3>1. i # Len(stack)
      BY <1>2
    <3>2. stack[i].next > 0
      BY <1>1 DEF StackInv
    <3> QED
      BY <2>2, <3>1, <3>2
  <2>5. \A i \in 1..Len(stack) : Continue[i].next > 0 => zone.txt[Continue[i].domain] # <<>>
    <3> SUFFICES ASSUME NEW i \in 1..Len(stack), Continue[i].next > 0
                 PROVE  zone.txt[Continue[i].domain] # <<>>
      OBVIOUS
    <3>1. CASE i = Len(stack)
      BY <1>2, <1>5, <2>2, <3>1
    <3>2. CASE i # Len(stack)
      BY <1>1, <2>2, <3>2 DEF StackInv
    <3> QED
      BY <3>1, <3>2
  <2>6. verdict' = "" /\ Identity' \in Domain
    BY <1>1 DEF StackInv, Identity
  <2> QED
    BY <1>5, <2>1, <2>3, <2>4, <2>5, <2>6 DEF StackInv
<1> QED
  BY <1>4, <1>5

LEMMA OneStep ==
  ASSUME NEW n \in Nat, NEW m \in Nat, n <= m
  PROVE  {n, n + 1} \subseteq 0..m + 1
  OBVIOUS

\* What the counters may come to within a call.
LEMMA TypesKept ==
  ASSUME TypeOK, WithinLimits, stack' \in Seq(Frames), ret' \in SpfResults \union {""},
         UNCHANGED <<zone, client, verdict>>, queries' \in Nat,
         lookups' \in {lookups, lookups + 1}, voidLookups' \in {voidLookups, voidLookups + 1},
         redirects' \in {redirects, redirects + 1}
  PROVE  TypeOK'
<1>1. /\ {lookups, lookups + 1} \subseteq 0..maxSPFLookups + 1
      /\ {voidLookups, voidLookups + 1} \subseteq 0..maxSPFVoidLookups + 1
      /\ {redirects, redirects + 1} \subseteq 0..maxSPFRedirects + 1
  <2>1. /\ lookups \in Nat /\ voidLookups \in Nat /\ redirects \in Nat
        /\ maxSPFLookups \in Nat /\ maxSPFVoidLookups \in Nat /\ maxSPFRedirects \in Nat
    BY Numbers
  <2>2. /\ lookups <= maxSPFLookups /\ voidLookups <= maxSPFVoidLookups
        /\ redirects <= maxSPFRedirects
    BY DEF WithinLimits
  <2> QED
    BY <2>1, <2>2, OneStep
<1>2. IsZone(zone') /\ client' \in Clients /\ verdict' \in SpfResults \union {""}
  BY DEF TypeOK
<1> QED
  BY <1>1, <1>2 DEF TypeOK, Frames

\* What was paid for stays paid for.
LEMMA MorePaid ==
  ASSUME TypeOK, Paid = lookups, lookups' = lookups + 1, NEW n, n <= 1 + Paid, n \in Nat
  PROVE  n <= 1 + Paid'
<1>1. lookups \in Nat /\ maxSPFLookups \in Nat /\ lookups <= maxSPFLookups
  BY Numbers
<1>2. CASE lookups + 1 <= maxSPFLookups
  <2>1. Paid' = lookups + 1
    BY <1>2 DEF Paid
  <2>2. n <= 1 + (lookups + 1)
    BY <1>1
  <2> QED
    BY <2>1, <2>2
<1>3. CASE ~(lookups + 1 <= maxSPFLookups)
  <2>1. Paid' = maxSPFLookups /\ lookups = maxSPFLookups
    BY <1>1, <1>3 DEF Paid
  <2> QED
    BY <2>1
<1> QED
  BY <1>2, <1>3

LEMMA EvaluatedKeeps ==
  ASSUME IInv, Evaluated PROVE IInv'
<1>1. /\ Running /\ Innermost.next > 0 /\ stack # <<>> /\ ret = "" /\ verdict = ""
      /\ WithinLimits /\ Paid = lookups /\ ~Pending /\ TypeOK /\ StackInv
  <2>1. Running /\ Innermost.next > 0 /\ TypeOK /\ StackInv
    BY DEF Evaluated, IInv
  <2>2. Innermost.next \in Nat \ {0}
    BY <2>1, TermsTyped
  <2> QED
    BY <2>1, <2>2, StillWithin
<1>2. Innermost = stack[Len(stack)] /\ Len(stack) \in Nat \ {0}
  BY <1>1, Top
<1>3. zone.txt[Innermost.domain] # <<>>
  <2>1. Len(stack) \in 1..Len(stack)
    BY <1>2
  <2> QED
    BY <1>1, <1>2, <2>1 DEF StackInv
<1>4. StackInv' /\ stack' \in Seq(Frames) /\ Len(stack') = Len(stack) /\ stack' # <<>>
  BY <1>1, <1>3, SameCalls DEF Evaluated
<1>5. /\ lookups \in Nat /\ voidLookups \in Nat /\ queries \in Nat /\ Names \in Nat
      /\ maxSPFLookups \in Nat /\ maxSPFVoidLookups \in Nat
  BY <1>1, Numbers
<1>6. Names' = Names
  BY DEF Evaluated, Names
<1>7. ~Pending'
  <2>1. CASE ret' = ""
    <3>1. stack' = Continue
      BY <2>1 DEF Evaluated
    <3>2. Innermost' = stack'[Len(stack)] /\ Len(stack) \in 1..Len(stack)
      BY <1>2, <1>4 DEF Innermost
    <3>3. Continue[Len(stack)].next = stack[Len(stack)].next + 1
      BY <1>1, <3>2, Continued
    <3>4. stack[Len(stack)].next \in Nat
      BY <1>1, <1>2, TermsTyped
    <3>5. stack[Len(stack)].next + 1 # 0
      BY <3>4
    <3> QED
      BY <1>4, <3>1, <3>2, <3>3, <3>5 DEF Pending
  <2> QED
    BY <2>1 DEF Pending
<1>8. queries <= 1 + lookups * (1 + Names)
  BY <1>1 DEF IInv, QueriesInv
<1>9. CASE UNCHANGED <<lookups, voidLookups, queries>>
  <2>1. TypeOK'
    BY <1>1, <1>4, <1>5, <1>9, TypesKept DEF Evaluated
  <2>2. Paid' = Paid
    BY <1>9 DEF Paid
  <2>3. PaidInv'
    BY <1>4, <2>2 DEF IInv, PaidInv
  <2>4. BudgetInv'
    BY <1>1, <1>9 DEF BudgetInv, WithinLimits, Evaluated
  <2>5. QueriesInv'
    BY <1>6, <1>7, <1>9, <2>2 DEF IInv, QueriesInv
  <2> QED
    BY <1>4, <2>1, <2>3, <2>4, <2>5 DEF IInv
<1>10. CASE Charged
  <2>1. lookups' = lookups + 1 /\ UNCHANGED redirects
    BY <1>10 DEF Charged, Evaluated
  <2>2. PICK asked \in 0..(1 + Names) : queries' = queries + asked
    <3>1. 0 \in 0..(1 + Names) /\ queries + 0 = queries
      BY <1>5
    <3> QED
      BY <1>10, <3>1 DEF Charged
  <2>3. TypeOK'
    <3>1. queries + asked \in Nat
      BY <1>5
    <3> QED
      BY <1>1, <1>4, <1>10, <2>1, <2>2, <3>1, TypesKept DEF Evaluated, Charged
  <2>4. PaidInv'
    BY <1>1, <1>2, <1>4, <2>1, MorePaid DEF IInv, PaidInv
  <2>5. BudgetInv'
    <3>1. CASE lookups < maxSPFLookups /\ voidLookups' \leq maxSPFVoidLookups
      <4>1. lookups + 1 <= maxSPFLookups
        BY <1>5, <3>1
      <4> QED
        BY <1>1, <2>1, <3>1, <4>1 DEF BudgetInv, WithinLimits
    <3>2. CASE ~(lookups < maxSPFLookups)
      BY <1>5, <1>10, <3>2 DEF BudgetInv, Charged
    <3>3. CASE ~(voidLookups' \leq maxSPFVoidLookups)
      <4>1. {voidLookups, voidLookups + 1} \subseteq Nat
        BY <1>5
      <4>2. voidLookups' \in Nat
        BY <1>10, <4>1 DEF Charged
      <4> QED
        BY <1>5, <1>10, <3>3, <4>2 DEF BudgetInv, Charged
    <3> QED
      BY <3>1, <3>2, <3>3
  <2>6. QueriesInv'
    <3>1. CASE lookups < maxSPFLookups
      <4>1. Paid' = lookups + 1
        BY <1>5, <2>1, <3>1 DEF Paid
      <4>2. lookups * (1 + Names) \in Nat
            /\ (lookups + 1) * (1 + Names) = lookups * (1 + Names) + 1 + Names
        BY <1>5, Payment
      <4>3. queries + asked <= 1 + (lookups + 1) * (1 + Names)
        BY <1>5, <1>8, <4>2
      <4> QED
        BY <1>6, <1>7, <2>2, <4>1, <4>3 DEF QueriesInv
    <3>2. CASE ~(lookups < maxSPFLookups)
      <4>0. lookups <= maxSPFLookups
        BY <1>1 DEF WithinLimits
      <4>1. lookups = maxSPFLookups
        BY <1>5, <3>2, <4>0
      <4>3. queries' = queries
        BY <1>10, <3>2 DEF Charged
      <4>2. Paid' = lookups
        BY <1>5, <2>1, <4>1 DEF Paid
      <4> QED
        BY <1>6, <1>7, <1>8, <4>2, <4>3 DEF QueriesInv
    <3> QED
      BY <3>1, <3>2
  <2> QED
    BY <1>4, <2>3, <2>4, <2>5, <2>6 DEF IInv
<1> QED
  BY <1>9, <1>10 DEF Evaluated

LEMMA RecordFoundKeeps ==
  ASSUME IInv, RecordFound PROVE IInv'
<1>1. /\ Running /\ Innermost.next = 0 /\ stack # <<>> /\ ret = "" /\ verdict = ""
      /\ WithinLimits /\ Pending /\ TypeOK /\ StackInv
      /\ zone.txt[Innermost.domain] # <<>>
  BY StillWithin DEF RecordFound, IInv
<1>2. Innermost = stack[Len(stack)] /\ Len(stack) \in Nat \ {0}
  BY <1>1, Top
<1>3. StackInv' /\ stack' \in Seq(Frames) /\ Len(stack') = Len(stack) /\ stack' # <<>>
  BY <1>1, SameCalls DEF RecordFound
<1>4. queries \in Nat /\ queries + 1 \in Nat /\ Paid \in Nat /\ Names \in Nat
  <2>1. TypeOK
    BY DEF IInv
  <2>2. queries \in Nat /\ Paid \in Nat /\ Names \in Nat
    BY <2>1, Numbers
  <2> QED
    BY <2>2
<1>5. TypeOK'
  BY <1>1, <1>3, <1>4, TypesKept DEF RecordFound, counters
<1>6. Paid' = Paid /\ Names' = Names
  BY DEF RecordFound, counters, Paid, Names
<1>7. PaidInv'
  BY <1>3, <1>6 DEF IInv, PaidInv
<1>8. BudgetInv'
  BY <1>1 DEF RecordFound, counters, BudgetInv, WithinLimits
<1>9. ~Pending'
  <2>1. Innermost' = stack'[Len(stack)] /\ Len(stack) \in 1..Len(stack)
    BY <1>2, <1>3 DEF Innermost
  <2>2. Continue[Len(stack)].next = stack[Len(stack)].next + 1
    BY <1>1, <2>1, Continued
  <2>3. stack[Len(stack)].next + 1 # 0
    <3>1. stack[Len(stack)].next = 0
      BY <1>1, <1>2
    <3>2. 0 + 1 # 0
      OBVIOUS
    <3> QED
      BY <3>1, <3>2
  <2> QED
    BY <1>3, <2>1, <2>2, <2>3 DEF Pending, RecordFound
<1>10. QueriesInv'
  <2>1. queries <= Paid * (1 + Names) /\ Paid * (1 + Names) \in Nat
    BY <1>1, <1>4, Payment DEF IInv, QueriesInv
  <2>2. queries + 1 <= 1 + Paid * (1 + Names)
    BY <1>4, <2>1
  <2> QED
    BY <1>6, <1>9, <2>2 DEF RecordFound, QueriesInv
<1> QED
  BY <1>3, <1>5, <1>7, <1>8, <1>10 DEF IInv

\* Within a call, one term more may have been paid for.
LEMMA PaidGrows ==
  ASSUME TypeOK, WithinLimits, lookups' \in {lookups, lookups + 1}
  PROVE  Paid' \in {Paid, Paid + 1}
<1>1. lookups \in Nat /\ maxSPFLookups \in Nat
  BY Numbers
<1>2. lookups <= maxSPFLookups
  BY DEF WithinLimits
<1>3. Paid = lookups
  BY <1>2 DEF Paid
<1>4. CASE lookups' = lookups
  BY <1>4 DEF Paid
<1>5. CASE lookups' = lookups + 1
  <2>1. CASE lookups + 1 <= maxSPFLookups
    BY <1>3, <1>5, <2>1 DEF Paid
  <2>2. CASE ~(lookups + 1 <= maxSPFLookups)
    <3>1. lookups = maxSPFLookups
      BY <1>1, <1>2, <2>2
    <3> QED
      BY <1>3, <1>5, <2>2, <3>1 DEF Paid
  <2> QED
    BY <2>1, <2>2
<1> QED
  BY <1>4, <1>5

LEMMA Covers ==
  ASSUME NEW p \in Nat, NEW q \in {p, p + 1}, NEW k \in Nat, NEW n \in Nat
  PROVE  /\ n <= 1 + p => n <= 1 + q
         /\ n <= 1 + p * (1 + k) => n <= 1 + q * (1 + k)
<1>1. p * (1 + k) \in Nat /\ (p + 1) * (1 + k) = p * (1 + k) + 1 + k
  BY Payment
<1>2. CASE q = p
  BY <1>2
<1>3. CASE q = p + 1
  BY <1>1, <1>3
<1> QED
  BY <1>2, <1>3

LEMMA EndsKeeps ==
  ASSUME IInv, Ends PROVE IInv'
<1>1. /\ Running /\ stack # <<>> /\ ret = "" /\ verdict = "" /\ WithinLimits
      /\ (Pending <=> Innermost.next = 0) /\ TypeOK /\ StackInv
      /\ stack' = stack /\ ret' \in SpfResults /\ verdict' = ""
  BY StillWithin DEF Ends, IInv
<1>2. /\ StackInv' /\ stack' \in Seq(Frames) /\ Len(stack) \in Nat
  <2>1. stack' # Continue
    <3>0. Len(stack) \in Nat \ {0} /\ stack[Len(stack)] \in Frames
      BY <1>1, Top
    <3>1. stack[Len(stack)].next \in Nat /\ Len(stack) \in 1..Len(stack)
      BY <3>0 DEF Frames
    <3>2. Continue[Len(stack)].next = stack[Len(stack)].next + 1
      BY <1>1, <3>1, Continued
    <3>3. stack[Len(stack)].next + 1 # stack[Len(stack)].next
      BY <3>1
    <3> QED
      BY <1>1, <3>2, <3>3
  <2>2. Len(stack) \in Nat
    BY <1>1, Top
  <2> QED
    BY <1>1, <2>1, <2>2, SameCalls DEF Ends
<1>3. queries \in Nat /\ queries + 1 \in Nat /\ queries + 0 = queries
      /\ Paid \in Nat /\ Names \in Nat
  <2>1. TypeOK
    BY DEF IInv
  <2>2. queries \in Nat /\ Paid \in Nat /\ Names \in Nat
    BY <2>1, Numbers
  <2> QED
    BY <2>2
<1>4. PICK n \in {queries, queries + 1} : /\ queries' = n
                                         /\ n <= 1 + Paid * (1 + Names)
  <2>1. CASE Innermost.next = 0
    <3>1. queries <= Paid * (1 + Names) /\ Paid * (1 + Names) \in Nat
      BY <1>1, <1>3, <2>1, Payment DEF IInv, QueriesInv
    <3>2. queries + 1 <= 1 + Paid * (1 + Names)
      BY <1>3, <3>1
    <3> QED
      BY <2>1, <3>2 DEF Ends
  <2>2. CASE Innermost.next # 0
    BY <1>3, <2>2 DEF Ends, IInv, QueriesInv
  <2> QED
    BY <2>1, <2>2
<1>5. n \in Nat
  BY <1>3
<1>6. TypeOK'
  BY <1>1, <1>2, <1>4, <1>5, TypesKept DEF Ends
<1>7. Paid' \in {Paid, Paid + 1} /\ Names' = Names
  BY <1>1, PaidGrows DEF Ends, Names
<1>8. PaidInv'
  BY <1>1, <1>2, <1>3, <1>7, Covers DEF IInv, PaidInv
<1>9. BudgetInv'
  BY DEF Ends, BudgetInv
<1>10. ~Pending'
  BY <1>1 DEF Pending, SpfResults
<1>11. QueriesInv'
  BY <1>3, <1>4, <1>5, <1>7, <1>10, Covers DEF QueriesInv
<1> QED
  BY <1>2, <1>6, <1>8, <1>9, <1>11 DEF IInv

LEMMA LastOrBefore ==
  ASSUME NEW n \in Nat
  PROVE  \A i \in 1..(n + 1) : i \in 1..n \/ i = n + 1
  OBVIOUS

LEMMA OpensKeeps ==
  ASSUME IInv, Opens PROVE IInv'
<1>1. /\ Running /\ Innermost.next > 0 /\ stack # <<>> /\ ret = "" /\ verdict = ""
      /\ WithinLimits /\ Paid = lookups /\ TypeOK /\ StackInv
      /\ lookups < maxSPFLookups /\ lookups' = lookups + 1
      /\ UNCHANGED <<zone, client, ret, voidLookups, queries, verdict>>
  BY StillWithin DEF Opens, IInv
<1>2. PICK d \in Domain, caller \in {"include", "redirect"} :
        stack' = Append(stack, Call(d, caller))
  BY DEF Opens
<1> DEFINE new == Append(stack, Call(d, caller))
           n == Len(stack)
<1>3. /\ new \in Seq(Frames) /\ Len(new) = n + 1 /\ new # <<>> /\ n \in Nat \ {0}
      /\ \A i \in 1..n : new[i] = stack[i]
      /\ new[n + 1] = Call(d, caller) /\ Innermost = stack[n]
  BY <1>1, Opened, Top
<1> HIDE DEF new
<1>4. stack' = new
  BY <1>2 DEF new
<1>5. Call(d, caller).next = 0 /\ Call(d, caller).caller # "sender"
  BY DEF Call
<1>6. StackInv'
  <2>1. verdict' = "" /\ Identity' \in Domain
    BY <1>1 DEF StackInv, Identity
  <2>0. n \in Nat \ {0}
    BY <1>3
  <2>2. \A i \in 1..(n + 1) : i \in 1..n \/ i = n + 1
    BY <2>0, LastOrBefore
  <2>3. \A i \in 1..(n + 1) : new[i].caller = "sender" <=> i = 1
    <3>1. n + 1 # 1
      BY <1>3
    <3> QED
      BY <1>1, <1>3, <1>5, <2>2, <3>1 DEF StackInv
  <2>4. \A i \in 1..(n + 1) : i < n + 1 => new[i].next > 0
    <3> SUFFICES ASSUME NEW i \in 1..(n + 1), i < n + 1 PROVE new[i].next > 0
      OBVIOUS
    <3>1. i \in 1..n /\ (i < n \/ i = n)
      BY <1>3
    <3>2. stack[i].next > 0
      BY <1>1, <1>3, <3>1 DEF StackInv
    <3> QED
      BY <1>3, <3>1, <3>2
  <2>5. \A i \in 1..(n + 1) : new[i].next > 0 => zone.txt[new[i].domain] # <<>>
    <3> SUFFICES ASSUME NEW i \in 1..(n + 1), new[i].next > 0
                 PROVE  zone.txt[new[i].domain] # <<>>
      OBVIOUS
    <3>1. i # n + 1
      <4>1. ~(0 > 0)
        OBVIOUS
      <4> QED
        BY <1>3, <1>5, <4>1
    <3> QED
      BY <1>1, <1>3, <2>2, <3>1 DEF StackInv
  <2> QED
    BY <1>1, <1>3, <1>4, <2>1, <2>3, <2>4, <2>5 DEF StackInv
<1>7. /\ lookups \in Nat /\ queries \in Nat /\ Names \in Nat /\ maxSPFLookups \in Nat
      /\ redirects \in Nat /\ maxSPFRedirects \in Nat
  BY <1>1, Numbers
<1>8. redirects' \in {redirects, redirects + 1}
  BY DEF Opens
<1>9. TypeOK'
  BY <1>1, <1>3, <1>4, <1>7, <1>8, TypesKept
<1>10. lookups + 1 <= maxSPFLookups
  <2>1. lookups < maxSPFLookups
    BY <1>1
  <2> QED
    BY <1>7, <2>1
<1>11. Paid' = lookups + 1 /\ Names' = Names
  BY <1>1, <1>10 DEF Paid, Names
<1>12. PaidInv'
  <2>1. n + 1 <= 1 + (lookups + 1)
    <3>1. n <= 1 + lookups
      BY <1>1 DEF IInv, PaidInv
    <3> QED
      BY <1>3, <1>7, <3>1
  <2> QED
    BY <1>3, <1>4, <1>11, <2>1 DEF PaidInv
<1>13. BudgetInv'
  <2>1. redirects' <= maxSPFRedirects
    <3>1. CASE UNCHANGED redirects
      BY <1>1, <3>1 DEF WithinLimits
    <3>2. CASE redirects < maxSPFRedirects /\ redirects' = redirects + 1
      <4>1. redirects + 1 <= maxSPFRedirects
        BY <1>7, <3>2
      <4> QED
        BY <3>2, <4>1
    <3> QED
      BY <3>1, <3>2 DEF Opens
  <2> QED
    BY <1>1, <1>10, <2>1 DEF BudgetInv, WithinLimits
<1>14. QueriesInv'
  <2>1. queries <= 1 + lookups * (1 + Names) /\ lookups * (1 + Names) \in Nat
        /\ (lookups + 1) * (1 + Names) = lookups * (1 + Names) + 1 + Names
    BY <1>1, <1>7, Payment DEF IInv, QueriesInv
  <2>2. queries <= (lookups + 1) * (1 + Names)
        /\ queries <= 1 + (lookups + 1) * (1 + Names)
    BY <1>7, <2>1
  <2> QED
    BY <1>1, <1>11, <2>2 DEF QueriesInv
<1> QED
  BY <1>6, <1>9, <1>12, <1>13, <1>14 DEF IInv

LEMMA Before ==
  ASSUME NEW k \in Nat \ {0}, k # 1
  PROVE  /\ k - 1 \in Nat \ {0} /\ k - 1 \in 1..(k - 1) /\ k - 1 < k /\ k - 1 <= k
         /\ \A i \in 1..(k - 1) : i \in 1..k /\ i < k
  OBVIOUS

LEMMA NoIndex == \A i \in 1..Len(<<>>) : FALSE
<1>1. Len(<<>>) = 0
  BY EmptySeq
<1>2. 1..0 = {}
  OBVIOUS
<1> QED
  BY <1>1, <1>2

\* No call is in progress, and none was left.
LEMMA NoCalls ==
  ASSUME stack' = <<>>, ret' = ""
  PROVE  StackInv'
  BY NoIndex DEF StackInv

LEMMA ReturnsKeeps ==
  ASSUME IInv, Returns PROVE IInv'
<1>1. /\ stack # <<>> /\ ret # "" /\ verdict = "" /\ TypeOK /\ StackInv /\ ~Pending
      /\ Innermost.caller # "sender"
  BY DEF Returns, IInv, StackInv, Pending
<1>2. UNCHANGED <<zone, client, counters, queries, verdict>>
  BY DEF Returns
<1> DEFINE n == Len(stack) - 1
<1>3. /\ Len(stack) \in Nat \ {0} /\ Innermost = stack[Len(stack)]
  BY <1>1, Top
<1>4. Len(stack) # 1
  <2>1. Len(stack) \in 1..Len(stack)
    BY <1>3
  <2> QED
    BY <1>1, <1>3, <2>1 DEF StackInv
<1>5. n \in Nat \ {0} /\ n \in 1..n /\ n < Len(stack) /\ n <= Len(stack)
      /\ \A i \in 1..n : i \in 1..Len(stack) /\ i < Len(stack)
  BY <1>3, <1>4, Before
<1>6. /\ Outer \in Seq(Frames) /\ Len(Outer) = n
      /\ \A i \in 1..n : Outer[i] = stack[i]
  BY <1>1, Popped
<1> HIDE DEF n
<1>7. \A i \in 1..n : Outer[i] \in Frames
  BY <1>6, ElementOfSeq
<1>8. /\ \A i \in 1..n : Outer[i].caller = "sender" <=> i = 1
      /\ \A i \in 1..n : Outer[i].next > 0
      /\ \A i \in 1..n : zone.txt[Outer[i].domain] # <<>>
  BY <1>1, <1>5, <1>6 DEF StackInv
<1> DEFINE on == [Outer EXCEPT ![n].next = @ + 1]
           e == [Outer[n] EXCEPT !.next = @ + 1]
<1>9. /\ on \in Seq(Frames) /\ Len(on) = n
      /\ \A i \in 1..n : on[i].caller = Outer[i].caller /\ on[i].domain = Outer[i].domain
      /\ \A i \in 1..n : on[i].next > 0
      /\ on[n].next # 0
  <2>1. Outer[n] \in Frames /\ Outer[n].next \in Nat
    BY <1>5, <1>7 DEF Frames
  <2>2. /\ e \in Frames /\ e.caller = Outer[n].caller /\ e.domain = Outer[n].domain
        /\ e.next = Outer[n].next + 1
    BY <2>1 DEF Frames
  <2>3. Outer[n].next + 1 > 0 /\ Outer[n].next + 1 # 0
    BY <2>1
  <2>4. on = [Outer EXCEPT ![n] = e]
    OBVIOUS
  <2> HIDE DEF e, on
  <2>5. /\ on \in Seq(Frames) /\ Len(on) = n
        /\ \A j \in 1..n : on[j] = IF j = n THEN e ELSE Outer[j]
    BY <1>5, <1>6, <2>2, <2>4, ExceptSeq
  <2> QED
    BY <1>5, <1>8, <2>2, <2>3, <2>5
<1>10. PICK next \in {Outer, on} : stack' = next
  BY <1>6 DEF Returns
<1> HIDE DEF on
<1>11. /\ next \in Seq(Frames) /\ Len(next) = n /\ next # <<>>
       /\ \A i \in 1..n : next[i].caller = Outer[i].caller /\ next[i].domain = Outer[i].domain
       /\ \A i \in 1..n : next[i].next > 0
  BY <1>5, <1>6, <1>8, <1>9, EmptySeq
<1>12. StackInv'
  <2>1. verdict' = "" /\ Identity' \in Domain
    BY <1>1, <1>2 DEF StackInv, Identity
  <2>2. \A i \in 1..n : next[i].caller = "sender" <=> i = 1
    BY <1>8, <1>11
  <2>3. \A i \in 1..n : zone.txt[next[i].domain] # <<>>
    BY <1>8, <1>11
  <2> QED
    BY <1>2, <1>10, <1>11, <2>1, <2>2, <2>3 DEF StackInv
<1>13. ret' \in SpfResults \union {""}
  BY DEF Returns
<1>14. TypeOK'
  BY <1>1, <1>2, <1>10, <1>11, <1>13 DEF TypeOK, counters, Frames
<1>15. Paid' = Paid /\ Names' = Names /\ Paid \in Nat
  BY <1>1, <1>2, Numbers DEF counters, Paid, Names
<1>16. PaidInv'
  <2>1. Len(stack) <= 1 + Paid
    BY DEF IInv, PaidInv
  <2>2. n <= 1 + Paid
    BY <1>3, <1>15, <2>1 DEF n
  <2> QED
    BY <1>10, <1>11, <1>15, <2>2 DEF PaidInv
<1>17. BudgetInv'
  BY <1>1, <1>2 DEF Returns, IInv, BudgetInv, WithinLimits, counters
<1>18. ~Pending'
  <2>1. CASE ret' = ""
    <3>1. stack' = on
      BY <1>6, <2>1 DEF Returns, on, SpfResults
    <3>2. Innermost' = on[n]
      BY <1>9, <3>1 DEF Innermost
    <3>3. stack' # <<>>
      BY <1>10, <1>11
    <3> QED
      BY <1>9, <3>2, <3>3 DEF Pending
  <2> QED
    BY <2>1 DEF Pending
<1>19. QueriesInv'
  BY <1>2, <1>15, <1>18 DEF IInv, QueriesInv
<1> QED
  BY <1>12, <1>14, <1>16, <1>17, <1>19 DEF IInv

LEMMA VerifySPFKeeps ==
  ASSUME IInv, VerifySPF PROVE IInv'
<1>1. /\ stack = <<>> /\ ret = "" /\ verdict = "" /\ TypeOK /\ Pending
      /\ UNCHANGED <<zone, client, ret, counters, queries>>
  BY DEF VerifySPF, IInv, StackInv, Pending
<1>2. WithinLimits'
  BY <1>1 DEF IInv, BudgetInv, WithinLimits, counters
<1>3. Paid' = Paid /\ Names' = Names /\ Paid \in Nat
  BY <1>1, Numbers DEF counters, Paid, Names
<1>4. QueriesInv'
  BY <1>1, <1>3 DEF IInv, QueriesInv
<1>5. CASE client.resolver /\ client.ip /\ Identity \in Domain
  <2> DEFINE call == Call(Identity, "sender")
  <2>1. stack' = <<call>> /\ verdict' = ""
    BY <1>1, <1>5 DEF VerifySPF
  <2>2. call \in Frames /\ call.caller = "sender" /\ call.next = 0
    BY <1>5 DEF Call, Frames
  <2> HIDE DEF call
  <2>3. <<call>> \in Seq(Frames) /\ Len(<<call>>) = 1 /\ <<call>> # <<>>
    BY <2>2
  <2>4. TypeOK'
    BY <1>1, <2>1, <2>3 DEF TypeOK, counters, Frames
  <2>5. 1 <= 1 + Paid
    BY <1>3
  <2>6. PaidInv'
    BY <1>3, <2>1, <2>3, <2>5 DEF PaidInv
  <2>7. StackInv'
    <3>1. Identity' \in Domain
      BY <1>1, <1>5 DEF Identity
    <3>2. \A i \in 1..1 : i = 1 /\ <<call>>[i] = call
      OBVIOUS
    <3>3. ~(0 > 0) /\ ~(1 < 1)
      OBVIOUS
    <3> QED
      BY <2>1, <2>2, <2>3, <3>1, <3>2, <3>3 DEF StackInv
  <2> QED
    BY <1>2, <1>4, <2>4, <2>6, <2>7 DEF IInv, BudgetInv
<1>6. CASE ~(client.resolver /\ client.ip /\ Identity \in Domain)
  <2>1. stack' = <<>> /\ ret' = "" /\ verdict' \in SpfResults
    BY <1>1, <1>6 DEF VerifySPF, SpfResults
  <2>2. TypeOK'
    BY <1>1, <2>1 DEF TypeOK, counters
  <2>3. PaidInv'
    BY <1>1, <1>3, <2>1 DEF IInv, PaidInv
  <2>4. StackInv'
    BY <2>1, NoCalls
  <2> QED
    BY <1>2, <1>4, <2>2, <2>3, <2>4 DEF IInv, BudgetInv
<1> QED
  BY <1>5, <1>6

LEMMA ReturnToSenderKeeps ==
  ASSUME IInv, ReturnToSender PROVE IInv'
<1>1. /\ stack # <<>> /\ ret # "" /\ verdict = "" /\ TypeOK /\ StackInv /\ ~Pending
      /\ Innermost.caller = "sender" /\ UNCHANGED <<zone, client, counters, queries>>
      /\ stack' = Outer /\ verdict' = ret /\ ret' = ""
  BY DEF ReturnToSender, Returning, IInv, StackInv, Pending
<1>2. /\ Len(stack) \in Nat \ {0} /\ Innermost = stack[Len(stack)]
  BY <1>1, Top
<1>3. Len(stack) = 1
  <2>1. Len(stack) \in 1..Len(stack)
    BY <1>2
  <2> QED
    BY <1>1, <1>2, <2>1 DEF StackInv
<1>4. Outer = <<>>
  <2>1. Outer \in Seq(Frames) /\ Len(Outer) = Len(stack) - 1
    BY <1>1, Popped
  <2>2. Len(Outer) = 0
    BY <1>3, <2>1
  <2> QED
    BY <2>1, <2>2, EmptySeq
<1>5. Paid' = Paid /\ Names' = Names /\ Paid \in Nat
  BY <1>1, Numbers DEF counters, Paid, Names
<1>6. verdict' \in SpfResults
  BY <1>1 DEF TypeOK
<1>7. TypeOK'
  <2>1. stack' \in Seq(Frames)
    BY <1>1, Popped
  <2> QED
    BY <1>1, <1>6, <2>1 DEF TypeOK, counters, Frames
<1>8. StackInv'
  BY <1>1, <1>4, NoCalls
<1>9. PaidInv'
  <2>1. 0 <= 1 + Paid
    BY <1>5
  <2> QED
    BY <1>1, <1>4, <1>5, <2>1 DEF PaidInv
<1>10. BudgetInv'
  BY <1>1 DEF IInv, BudgetInv, WithinLimits, counters
<1>11. ~Pending'
  BY <1>1 DEF Pending
<1>12. QueriesInv'
  BY <1>1, <1>5, <1>11 DEF IInv, QueriesInv
<1> QED
  BY <1>7, <1>8, <1>9, <1>10, <1>12 DEF IInv

-----------------------------------------------------------------------------
(***************************************************************************)
(* The invariant, and what follows from it.                                 *)
(***************************************************************************)
LEMMA InitIInv ==
  ASSUME Init PROVE IInv
<1>1. /\ stack = <<>> /\ ret = "" /\ verdict = "" /\ queries = 0 /\ lookups = 0
      /\ voidLookups = 0 /\ redirects = 0 /\ zone \in Zones /\ client \in Clients
  BY DEF Init
<1>2. maxSPFLookups \in Nat /\ maxSPFVoidLookups \in Nat /\ maxSPFRedirects \in Nat
      /\ IsZone(zone)
  BY <1>1, SpfAssumption DEF SpfAssumption
<1>3. TypeOK
  <2>1. /\ 0 \in 0..maxSPFLookups + 1 /\ 0 \in 0..maxSPFVoidLookups + 1
        /\ 0 \in 0..maxSPFRedirects + 1 /\ 0 \in Nat
    BY <1>2
  <2>2. stack \in Seq(Frames)
    BY <1>1, EmptySeq
  <2> QED
    BY <1>1, <1>2, <2>1, <2>2 DEF TypeOK, Frames
<1>4. StackInv
  BY <1>1, NoIndex DEF StackInv
<1>5. PaidInv
  <2>1. Len(<<>>) = 0
    BY EmptySeq
  <2>2. Paid \in Nat
    BY <1>3, Numbers
  <2>3. 0 <= 1 + Paid
    BY <2>2
  <2> QED
    BY <1>1, <2>1, <2>3 DEF PaidInv
<1>6. BudgetInv
  <2>1. 0 <= maxSPFLookups /\ 0 <= maxSPFVoidLookups /\ 0 <= maxSPFRedirects
    BY <1>2
  <2> QED
    BY <1>1, <2>1 DEF BudgetInv, WithinLimits
<1>7. QueriesInv
  <2>1. Paid \in Nat /\ Names \in Nat
    BY <1>3, Numbers
  <2>2. Paid * (1 + Names) \in Nat
    BY <2>1, Payment
  <2>3. 0 <= Paid * (1 + Names) /\ 0 <= 1 + Paid * (1 + Names)
    BY <2>2
  <2> QED
    BY <1>1, <2>3 DEF QueriesInv
<1> QED
  BY <1>3, <1>4, <1>5, <1>6, <1>7 DEF IInv

LEMMA Inductive ==
  ASSUME IInv, [Next]_vars PROVE IInv'
<1>0. TypeOK /\ StackInv
  BY DEF IInv
<1>1. CASE VerifySPF
  BY <1>1, VerifySPFKeeps
<1>2. CASE findRecord
  BY <1>2, AskingForRecord, RecordFoundKeeps, EndsKeeps DEF IInv
<1>3. CASE Modifier \/ LocalMechanism
  BY <1>0, <1>3, PlainTerm, EvaluatedKeeps
<1>4. CASE MechanismA
  BY <1>0, <1>4, AskingA, EvaluatedKeeps
<1>5. CASE MechanismMX
  BY <1>0, <1>5, AskingMX, EvaluatedKeeps
<1>6. CASE MechanismExists
  BY <1>0, <1>6, AskingExists, EvaluatedKeeps
<1>7. CASE MechanismPTR
  BY <1>0, <1>7, AskingPTR, EvaluatedKeeps
<1>8. CASE MechanismInclude
  BY <1>8, Including, OpensKeeps, EndsKeeps DEF IInv
<1>9. CASE NoMatch
  BY <1>9, Finishing, EndsKeeps DEF IInv
<1>10. CASE FollowRedirect
  BY <1>10, Redirecting, OpensKeeps, EndsKeeps DEF IInv
<1>11. CASE ReturnToInclude \/ ReturnToRedirect
  BY <1>11, Unwinding, ReturnsKeeps DEF IInv
<1>12. CASE ReturnToSender
  BY <1>12, ReturnToSenderKeeps
<1>13. CASE UNCHANGED vars
  BY <1>13 DEF vars, counters, IInv, TypeOK, StackInv, PaidInv, BudgetInv, QueriesInv,
    WithinLimits, Pending, Innermost, Identity, Paid, Names, IsZone
<1> QED
  BY <1>1, <1>2, <1>3, <1>4, <1>5, <1>6, <1>7, <1>8, <1>9, <1>10, <1>11, <1>12, <1>13
  DEF Next

LEMMA Invariance == Spec => []IInv
  BY InitIInv, Inductive, PTL DEF Spec

\* The type invariant of the evaluation, for every zone, client and limit.
THEOREM Typing == Spec => []TypeOK
<1>1. IInv => TypeOK
  BY DEF IInv
<1> QED
  BY <1>1, Invariance, PTL

\* A limit passed in any call, however deep, makes the verdict permerror: no
\* include, redirect or later term turns it into another result (spf.go: spend,
\* countVoid, resolveRedirect and what check does with their errors).
THEOREM LimitsAreNeverForgotten == Spec => []LimitsAreFinal
<1>1. IInv => LimitsAreFinal
  <2> SUFFICES ASSUME IInv, verdict # "", ~WithinLimits PROVE verdict = "permerror"
    BY DEF LimitsAreFinal
  <2>1. ret = ""
    BY DEF IInv, StackInv
  <2> QED
    BY <2>1 DEF IInv, BudgetInv
<1> QED
  BY <1>1, Invariance, PTL

\* What one message can ask of DNS is bounded by the limits, whatever the
\* records say and however they name each other (spf.go: the limits' comment).
THEOREM WorkIsBounded == Spec => []QueriesBounded
<1>1. IInv => QueriesBounded
  <2> SUFFICES ASSUME IInv PROVE QueriesBounded
    OBVIOUS
  <2>1. /\ Paid \in Nat /\ Names \in Nat /\ maxSPFLookups \in Nat /\ queries \in Nat
        /\ Paid <= maxSPFLookups
    BY Numbers DEF IInv
  <2>2. Paid * (1 + Names) <= maxSPFLookups * (1 + Names)
    BY <2>1, MorePays
  <2>3. queries <= 1 + Paid * (1 + Names)
    BY DEF IInv, QueriesInv
  <2>4. Paid * (1 + Names) \in Nat /\ maxSPFLookups * (1 + Names) \in Nat
    BY <2>1, Payment
  <2>5. queries <= 1 + maxSPFLookups * (1 + Names)
    BY <2>1, <2>2, <2>3, <2>4
  <2> QED
    BY <2>5 DEF QueriesBounded, Names
<1> QED
  BY <1>1, Invariance, PTL

\* The recursion of check() is never deeper than the budget it spends, so records
\* that name each other in a circle are evaluated to an end.
THEOREM RecursionIsBounded == Spec => []NestingBounded
<1>1. IInv => NestingBounded
  <2> SUFFICES ASSUME IInv PROVE NestingBounded
    OBVIOUS
  <2>1. /\ Paid \in Nat /\ lookups \in Nat /\ maxSPFLookups \in Nat
        /\ Paid <= lookups /\ Paid <= maxSPFLookups
    BY Numbers DEF IInv
  <2>2. Len(stack) <= 1 + Paid
    BY DEF IInv, PaidInv
  <2>3. Len(stack) \in Nat
    <3>1. stack \in Seq(Frames)
      BY DEF IInv, TypeOK, Frames
    <3> QED
      BY <3>1, LenProperties
  <2>4. Len(stack) <= 1 + lookups /\ Len(stack) <= 1 + maxSPFLookups
    BY <2>1, <2>2, <2>3
  <2> QED
    BY <2>4 DEF NestingBounded
<1> QED
  BY <1>1, Invariance, PTL
-----------------------------------------------------------------------------
(***************************************************************************)
(* What the evaluation means.  The call i of the stack evaluates its domain   *)
(* Level(i) levels deep in the table of meanings.                           *)
(***************************************************************************)
Table == MeaningsTo(zone, Identity, maxSPFLookups + 1)
Level(i) == maxSPFLookups + 2 - i
Below(i) == Table[Level(i) - 1]

Own(d) == zone.txt[d][1].terms

\* The name the last redirect of a record gives, "" without one.
LastOf(ts) ==
  LET named == {i \in DOMAIN ts : ts[i].name = "redirect"}
  IN  IF named = {} THEN "" ELSE ts[CHOOSE i \in named : \A j \in named : i >= j].arg

\* d publishes exactly one record, and none of its terms before k decides it.
Undecided(i, d, k) ==
  /\ d \notin zone.oversized /\ Len(zone.txt[d]) = 1 /\ zone.txt[d][1].spf1
  /\ \A j \in 1..Len(Own(d)) : j < k => ~Decides(zone, Identity, Below(i), d, Own(d)[j])

Passed(i) == stack[i].next > 0 => Undecided(i, stack[i].domain, stack[i].next)

\* A call that opened another stands where it names the other's domain.
NamesNext(d, k, caller, target) ==
  IF caller = "include"
  THEN /\ k <= Len(Own(d)) /\ Own(d)[k].name = "include"
       /\ Expanded(Own(d)[k].arg, Identity, d) = target
  ELSE /\ k > Len(Own(d)) /\ LastOf(Own(d)) # ""
       /\ Expanded(LastOf(Own(d)), Identity, d) = target

Waits(i) ==
  NamesNext(stack[i].domain, stack[i].next, stack[i + 1].caller, stack[i + 1].domain)

CallsMean ==
  /\ stack # <<>> => stack[1].domain = Identity
  /\ \A i \in 1..Len(stack) : Passed(i)
  /\ \A i \in 1..Len(stack) : i < Len(stack) => Waits(i)

\* What a call returns is what its domain means at its level.
ResultMeans ==
  ret # "" => ret # "temperror" /\ ret = Table[Level(Len(stack))][Innermost.domain]

VerdictMeans ==
  verdict # "" /\ client.resolver /\ client.ip =>
    verdict = IF Identity \in Domain THEN Table[maxSPFLookups + 1][Identity] ELSE "none"

MeaningInv == WithinLimits => CallsMean /\ ResultMeans /\ VerdictMeans

-----------------------------------------------------------------------------
(***************************************************************************)
(* The table of meanings: a function on 0..n that is defined step by step     *)
(* exists.                                                                  *)
(***************************************************************************)
\* A nonempty set of numbers has a least one.
LEMMA Least ==
  ASSUME NEW S \in SUBSET Nat, S # {}
  PROVE  \E n \in S : \A m \in S : n <= m
<1> DEFINE R == OpToRel(<, Nat)
<1>1. PICK n \in S : \A m \in S : ~ (<<m, n>> \in R)
  <2> HIDE DEF R
  <2> QED
    BY WFMin, NatLessThanWellFounded DEF R
<1>2. \A m \in S : ~ (m < n)
  BY <1>1 DEF OpToRel
<1> QED
  BY <1>2

\* A set that has 0 and with each number the next has all of them.
LEMMA SetInduction ==
  ASSUME NEW S \in SUBSET Nat, 0 \in S, \A n \in S : n + 1 \in S
  PROVE  S = Nat
<1> DEFINE R == Nat \ S
<1> SUFFICES ASSUME R # {} PROVE FALSE
  OBVIOUS
<1>1. R \in SUBSET Nat
  OBVIOUS
<1> HIDE DEF R
<1>2. PICK n \in R : \A m \in R : n <= m
  BY <1>1, Least
<1>3. n \in Nat /\ n # 0
  BY <1>1, <1>2 DEF R
<1>4. n - 1 \in S
  BY <1>2, <1>3 DEF R
<1> QED
  BY <1>2, <1>3, <1>4 DEF R

\* There is a function that starts from a and takes one step after another.
HasRun(A, a, len, step) ==
  \E g \in [0..len -> A] : g[0] = a /\ \A n \in 1..len : g[n] = step[<<g[n - 1], n>>]

\* A function on 0..n defined step by step exists, and has the type of the steps.
LEMMA Recursion ==
  ASSUME NEW A, NEW a \in A, NEW len \in Nat, NEW step \in [A \X (1..len) -> A]
  PROVE  HasRun(A, a, len, step)
<1> DEFINE Upto(g, m) == /\ g \in [0..m -> A] /\ g[0] = a
                         /\ \A n \in 1..m : g[n] = step[<<g[n - 1], n>>]
           S == {m \in Nat : m <= len => \E g \in [0..m -> A] : Upto(g, m)}
<1>1. 0 \in S
  <2>1. Upto([n \in 0..0 |-> a], 0)
    OBVIOUS
  <2> QED
    BY <2>1
<1>2. ASSUME NEW m \in S PROVE m + 1 \in S
  <2> SUFFICES ASSUME m + 1 <= len PROVE \E g \in [0..(m + 1) -> A] : Upto(g, m + 1)
    OBVIOUS
  <2>1. PICK g \in [0..m -> A] : Upto(g, m)
    OBVIOUS
  <2> DEFINE h == [n \in 0..(m + 1) |-> IF n <= m THEN g[n] ELSE step[<<g[m], m + 1>>]]
  <2>2. step[<<g[m], m + 1>>] \in A
    OBVIOUS
  <2>3. h \in [0..(m + 1) -> A]
    BY <2>2
  <2>4. h[0] = a
    BY <2>1
  <2>5. ASSUME NEW n \in 1..(m + 1) PROVE h[n] = step[<<h[n - 1], n>>]
    <3>1. CASE n <= m
      BY <2>1, <3>1
    <3>2. CASE n = m + 1
      <4>1. h[m] = g[m] /\ h[m + 1] = step[<<g[m], m + 1>>]
        OBVIOUS
      <4>2. n - 1 = m
        BY <3>2
      <4> QED
        BY <3>2, <4>1, <4>2
    <3> QED
      BY <3>1, <3>2
  <2> QED
    BY <2>3, <2>4, <2>5
<1> HIDE DEF S
<1>3. S = Nat
  <2>1. S \in SUBSET Nat
    BY DEF S
  <2> QED
    BY <1>1, <1>2, <2>1, SetInduction
<1>4. PICK g \in [0..len -> A] : Upto(g, len)
  <2>1. len \in S
    BY <1>3
  <2> HIDE DEF Upto
  <2> QED
    BY <2>1 DEF S
<1> QED
  BY <1>4 DEF HasRun

\* Every record means one of the results, whatever it names.
LEMMA MeaningTyped ==
  ASSUME NEW z, NEW sender, NEW below \in [Domain -> SpfResults], NEW d
  PROVE  RecordMeaning(z, sender, below, d) \in SpfResults
<1>1. /\ "permerror" \in SpfResults /\ "none" \in SpfResults /\ "neutral" \in SpfResults
      /\ \A q : qualifierToResult(q) \in SpfResults
  BY Qualified DEF SpfResults
<1>2. \A x \in Domain : below[x] \in SpfResults
  OBVIOUS
<1>3. \A ts : TermsMeaning(z, sender, below, d, ts) \in SpfResults
  BY <1>1, <1>2 DEF TermsMeaning
<1> QED
  BY <1>1, <1>3 DEF RecordMeaning

\* Each level of the table is what the records say of the level below.
LEMMA EachLevel ==
  ASSUME NEW z, NEW sender, NEW levels \in Nat
  PROVE  \A n \in 1..levels, d \in Domain :
           MeaningsTo(z, sender, levels)[n][d] =
             RecordMeaning(z, sender, MeaningsTo(z, sender, levels)[n - 1], d)
<1> DEFINE A == [Domain -> SpfResults]
           a == [d \in Domain |-> "permerror"]
           Row(below) == [d \in Domain |-> RecordMeaning(z, sender, below, d)]
           step == [x \in A \X (1..levels) |-> Row(x[1])]
           Runs(g) == g = [n \in 0..levels |-> IF n = 0 THEN a ELSE Row(g[n - 1])]
           m == CHOOSE g : Runs(g)
<1>1. a \in A /\ \A below \in A : Row(below) \in A
  BY MeaningTyped DEF SpfResults
<1>2. m = MeaningsTo(z, sender, levels)
  BY DEF MeaningsTo
<1> HIDE DEF A, a, Row
<1>3. step \in [A \X (1..levels) -> A]
  BY <1>1
<1>4. \E g : Runs(g)
  <2> HIDE DEF step
  <2>1. HasRun(A, a, levels, step)
    BY <1>1, <1>3, Recursion
  <2>2. PICK g \in [0..levels -> A] :
          g[0] = a /\ \A n \in 1..levels : g[n] = step[<<g[n - 1], n>>]
    BY <2>1 DEF HasRun
  <2>3. \A n \in 1..levels : step[<<g[n - 1], n>>] = Row(g[n - 1])
    <3> TAKE n \in 1..levels
    <3>1. n - 1 \in 0..levels
      OBVIOUS
    <3>2. g[n - 1] \in A
      BY <2>2, <3>1
    <3> QED
      BY <3>2 DEF step
  <2>4. \A n \in 0..levels : g[n] = IF n = 0 THEN a ELSE Row(g[n - 1])
    <3> TAKE n \in 0..levels
    <3>1. n # 0 => n \in 1..levels
      OBVIOUS
    <3> QED
      BY <2>2, <2>3, <3>1
  <2>5. DOMAIN g = 0..levels /\ g = [n \in 0..levels |-> g[n]]
    BY <2>2
  <2> QED
    BY <2>4, <2>5
<1>5. Runs(m)
  BY <1>4
<1> HIDE DEF m
<1> TAKE n \in 1..levels, d \in Domain
<1>6. n \in 0..levels /\ n # 0
  OBVIOUS
<1>7. m[n] = Row(m[n - 1])
  BY <1>5, <1>6
<1>8. Row(m[n - 1])[d] = RecordMeaning(z, sender, m[n - 1], d)
  BY DEF Row
<1> QED
  BY <1>2, <1>7, <1>8

-----------------------------------------------------------------------------
(***************************************************************************)
(* What a record means.                                                     *)
(***************************************************************************)
\* The first term that decides gives the meaning.
LEMMA FirstDecides ==
  ASSUME NEW z, NEW sender, NEW below, NEW d, NEW ts, Len(ts) \in Nat,
         DOMAIN ts = 1..Len(ts), NEW k \in 1..Len(ts), Decides(z, sender, below, d, ts[k]),
         \A j \in 1..Len(ts) : j < k => ~Decides(z, sender, below, d, ts[j])
  PROVE  TermsMeaning(z, sender, below, d, ts) =
           IF InError(z, sender, below, d, ts[k]) THEN "permerror"
           ELSE qualifierToResult(ts[k].q)
<1> DEFINE deciding == {i \in DOMAIN ts : Decides(z, sender, below, d, ts[i])}
           first == CHOOSE i \in deciding : \A j \in deciding : i <= j
<1>1. k \in deciding /\ deciding # {}
  OBVIOUS
<1>2. \A j \in deciding : k <= j
  <2> TAKE j \in deciding
  <2>1. j \in 1..Len(ts) /\ ~(j < k)
    OBVIOUS
  <2> HIDE DEF deciding
  <2> QED
    BY <2>1
<1>3. \A i \in deciding : i \in Int
  OBVIOUS
<1> HIDE DEF deciding
<1>4. first = k
  <2>1. first \in deciding /\ \A j \in deciding : first <= j
    BY <1>1, <1>2
  <2>2. first <= k /\ k <= first
    BY <1>1, <1>2, <2>1
  <2> HIDE DEF first
  <2> QED
    BY <1>1, <1>3, <2>1, <2>2
<1> HIDE DEF first
<1> QED
  BY <1>1, <1>4 DEF TermsMeaning, deciding, first

\* What the last redirect says when no term decides.
RedirectMeaning(sender, below, d, last) ==
  IF last = "" THEN "neutral"
  ELSE IF \/ Expanded(last, sender, d) \notin Domain
          \/ below[Expanded(last, sender, d)] = "none"
       THEN "permerror" ELSE below[Expanded(last, sender, d)]

LEMMA NoneDecides ==
  ASSUME NEW z, NEW sender, NEW below, NEW d, NEW ts,
         \A j \in DOMAIN ts : ~Decides(z, sender, below, d, ts[j])
  PROVE  TermsMeaning(z, sender, below, d, ts)
           = RedirectMeaning(sender, below, d, LastOf(ts))
<1> DEFINE named == {i \in DOMAIN ts : ts[i].name = "redirect"}
<1>1. {i \in DOMAIN ts : Decides(z, sender, below, d, ts[i])} = {}
  OBVIOUS
<1>2. CASE named = {}
  <2>1. LastOf(ts) = ""
    BY <1>2 DEF LastOf
  <2> QED
    BY <1>1, <1>2, <2>1 DEF TermsMeaning, RedirectMeaning
<1>3. CASE named # {}
  <2> DEFINE last == CHOOSE i \in named : \A j \in named : i >= j
             deciding == {i \in DOMAIN ts : Decides(z, sender, below, d, ts[i])}
  <2>1. LastOf(ts) = ts[last].arg
    BY <1>3 DEF LastOf
  <2>2. TermsMeaning(z, sender, below, d, ts) =
          IF deciding # {}
          THEN IF InError(z, sender, below, d, ts[CHOOSE i \in deciding : \A j \in deciding : i <= j])
               THEN "permerror"
               ELSE qualifierToResult(ts[CHOOSE i \in deciding : \A j \in deciding : i <= j].q)
          ELSE IF named = {} \/ ts[last].arg = "" THEN "neutral"
          ELSE IF \/ Expanded(ts[last].arg, sender, d) \notin Domain
                  \/ below[Expanded(ts[last].arg, sender, d)] = "none"
               THEN "permerror" ELSE below[Expanded(ts[last].arg, sender, d)]
    BY DEF TermsMeaning
  <2> HIDE DEF last, named
  <2> QED
    BY <1>1, <1>3, <2>1, <2>2 DEF RedirectMeaning
<1> QED
  BY <1>2, <1>3

-----------------------------------------------------------------------------
(***************************************************************************)
(* The calls of the stack and the table.                                    *)
(***************************************************************************)
LEMMA TableKept ==
  ASSUME UNCHANGED <<zone, client>>
  PROVE  /\ Table' = Table /\ Identity' = Identity
         /\ \A i : Level(i)' = Level(i) /\ Below(i)' = Below(i)
         /\ \A d : Own(d)' = Own(d)
         /\ \A i, d, k : Undecided(i, d, k)' <=> Undecided(i, d, k)
         /\ \A d, k, caller, target :
              NamesNext(d, k, caller, target)' <=> NamesNext(d, k, caller, target)
<1>1. Identity' = Identity
  BY DEF Identity
<1>2. Table' = Table
  BY <1>1 DEF Table
<1>3. \A i : Level(i)' = Level(i) /\ Below(i)' = Below(i)
  BY <1>2 DEF Level, Below
<1>4. \A d : Own(d)' = Own(d)
  BY DEF Own
<1>5. \A i, d, k : Undecided(i, d, k)' <=> Undecided(i, d, k)
  BY <1>1, <1>3, <1>4 DEF Undecided
<1>6. \A d, k, caller, target :
        NamesNext(d, k, caller, target)' <=> NamesNext(d, k, caller, target)
  <2> TAKE d, k, caller, target
  <2>1. Own(d)' = Own(d)
    BY <1>4
  <2> QED
    BY <1>1, <2>1 DEF NamesNext
<1> QED
  BY <1>1, <1>2, <1>3, <1>4, <1>5, <1>6

\* The calls of a stack, and the level each is evaluated at.
LEMMA Levels ==
  ASSUME IInv, NEW i \in 1..Len(stack), stack # <<>>
  PROVE  /\ stack[i].domain \in Domain /\ stack[i].next \in Nat
         /\ Identity \in Domain /\ Len(stack) \in Nat \ {0} /\ i \in Nat
         /\ Level(i) \in 1..(maxSPFLookups + 1) /\ Level(i + 1) = Level(i) - 1
         /\ Table[Level(i)][stack[i].domain] =
              RecordMeaning(zone, Identity, Below(i), stack[i].domain)
<1>1. stack \in Seq(Frames) /\ Len(stack) \in Nat \ {0}
  BY Top DEF IInv
<1>2. stack[i] \in Frames
  BY <1>1, ElementOfSeq
<1>3. maxSPFLookups \in Nat /\ Paid \in Nat /\ Paid <= maxSPFLookups
  BY Numbers DEF IInv
<1>4. Len(stack) <= 1 + Paid
  BY DEF IInv, PaidInv
<1>5. Level(i) \in 1..(maxSPFLookups + 1) /\ Level(i + 1) = Level(i) - 1
  BY <1>1, <1>3, <1>4 DEF Level
<1>6. stack[i].domain \in Domain /\ stack[i].next \in Nat
  BY <1>2 DEF Frames
<1>7. Identity \in Domain
  BY DEF IInv, StackInv
<1>8. maxSPFLookups + 1 \in Nat
  BY <1>3
<1>9. Table[Level(i)][stack[i].domain] =
        RecordMeaning(zone, Identity, Below(i), stack[i].domain)
  BY <1>5, <1>6, <1>8, EachLevel DEF Table, Below
<1> QED
  BY <1>1, <1>5, <1>6, <1>7, <1>9

\* What a call's terms are.
LEMMA OwnTyped ==
  ASSUME IInv, NEW i \in 1..Len(stack), stack # <<>>, stack[i].next > 0
  PROVE  /\ Own(stack[i].domain) \in Seq(Terms) /\ Len(Own(stack[i].domain)) \in Nat
         /\ DOMAIN Own(stack[i].domain) = 1..Len(Own(stack[i].domain))
         /\ \A k \in 1..Len(Own(stack[i].domain)) : Own(stack[i].domain)[k] \in Terms
<1> DEFINE d == stack[i].domain
<1>1. d \in Domain
  BY Levels
<1>2. zone.txt[d] # <<>>
  BY DEF IInv, StackInv
<1>3. zone.txt \in [Domain -> Seq(Records)]
  BY DEF IInv, TypeOK, IsZone
<1> HIDE DEF d
<1>4. zone.txt[d] \in Seq(Records)
  BY <1>1, <1>3
<1>5. zone.txt[d][1] \in Records
  BY <1>2, <1>4, EmptySeq, ElementOfSeq
<1>6. Own(d) \in Seq(Terms)
  BY <1>5 DEF Own, Records
<1>7. Len(Own(d)) \in Nat /\ DOMAIN Own(d) = 1..Len(Own(d))
      /\ \A k \in 1..Len(Own(d)) : Own(d)[k] \in Terms
  BY <1>6, LenProperties, ElementOfSeq
<1> QED
  BY <1>6, <1>7 DEF d

\* Calls that stay as they are, but for the innermost, keep what they mean.
LEMMA CallsKept ==
  ASSUME CallsMean, UNCHANGED <<zone, client>>, stack # <<>>, Len(stack) \in Nat,
         NEW n \in Nat \ {0}, n <= Len(stack), Len(stack') = n,
         \A i \in 1..n : /\ stack'[i].domain = stack[i].domain
                         /\ stack'[i].caller = stack[i].caller,
         \A i \in 1..n : i < n => stack'[i].next = stack[i].next,
         Passed(n)'
  PROVE  CallsMean'
<1>1. stack'[1].domain = Identity'
  <2>1. 1 \in 1..n
    OBVIOUS
  <2> QED
    BY <2>1, TableKept DEF CallsMean
<1>2. ASSUME NEW i \in 1..n PROVE Passed(i)'
  <2>1. CASE i = n
    BY <2>1
  <2>2. CASE i # n
    <3>1. i < n /\ i \in 1..Len(stack)
      BY <2>2
    <3>2. Passed(i)
      BY <3>1 DEF CallsMean
    <3> QED
      BY <3>1, <3>2, TableKept DEF Passed
  <2> QED
    BY <2>1, <2>2
<1>3. ASSUME NEW i \in 1..n, i < n PROVE Waits(i)'
  <2>1. i \in 1..Len(stack) /\ i < Len(stack) /\ i + 1 \in 1..n
    BY <1>3
  <2>2. Waits(i)
    BY <2>1 DEF CallsMean
  <2> QED
    BY <1>3, <2>1, <2>2, TableKept DEF Waits
<1> QED
  BY <1>1, <1>2, <1>3 DEF CallsMean

\* A call that stands where it stood.
LEMMA StillPassed ==
  ASSUME UNCHANGED <<zone, client>>, NEW n, Passed(n),
         stack'[n].domain = stack[n].domain, stack'[n].next = stack[n].next
  PROVE  Passed(n)'
  BY TableKept DEF Passed

\* A call that goes on after a term that does not decide.
LEMMA PassedOn ==
  ASSUME UNCHANGED <<zone, client>>, NEW n, Passed(n), stack[n].next \in Nat,
         stack[n].next > 0, Len(Own(stack[n].domain)) \in Nat,
         stack[n].next \in 1..Len(Own(stack[n].domain)) =>
           ~Decides(zone, Identity, Below(n), stack[n].domain,
                    Own(stack[n].domain)[stack[n].next]),
         stack'[n].domain = stack[n].domain, stack'[n].next = stack[n].next + 1
  PROVE  Passed(n)'
<1> DEFINE d == stack[n].domain
           k == stack[n].next
<1>1. Undecided(n, d, k)
  BY DEF Passed
<1> HIDE DEF d, k
<1>2. \A j \in 1..Len(Own(d)) : j < k + 1 => j < k \/ j = k
  BY DEF d, k
<1>3. Undecided(n, d, k + 1)
  BY <1>1, <1>2 DEF Undecided, d, k
<1> QED
  BY <1>3, TableKept DEF Passed, d, k

\* A verdict that stays means what it meant.
LEMMA VerdictKept ==
  ASSUME UNCHANGED <<zone, client, verdict>>, VerdictMeans
  PROVE  VerdictMeans'
  BY TableKept DEF VerdictMeans

\* A domain whose record was found means what its terms do, one whose next term
\* decides means what that says, one that has passed them all what its redirect does.
LEMMA MeansTerms ==
  ASSUME IInv, NEW i \in 1..Len(stack), stack # <<>>, Passed(i), stack[i].next > 0
  PROVE  Table[Level(i)][stack[i].domain] =
           TermsMeaning(zone, Identity, Below(i), stack[i].domain, Own(stack[i].domain))
<1> DEFINE d == stack[i].domain
<1>1. Table[Level(i)][d] = RecordMeaning(zone, Identity, Below(i), d)
  BY Levels
<1>2. d \notin zone.oversized /\ Len(zone.txt[d]) = 1 /\ zone.txt[d][1].spf1
  BY DEF Passed, Undecided
<1>3. zone.txt[d] # <<>>
  BY DEF IInv, StackInv
<1>4. ~(1 > 1)
  OBVIOUS
<1> HIDE DEF d
<1>5. RecordMeaning(zone, Identity, Below(i), d)
        = TermsMeaning(zone, Identity, Below(i), d, Own(d))
  BY <1>2, <1>3, <1>4 DEF RecordMeaning, Own
<1> QED
  BY <1>1, <1>5 DEF d

LEMMA MeansTerm ==
  ASSUME IInv, NEW i \in 1..Len(stack), stack # <<>>, Passed(i), stack[i].next > 0,
         stack[i].next <= Len(Own(stack[i].domain)),
         Decides(zone, Identity, Below(i), stack[i].domain,
                 Own(stack[i].domain)[stack[i].next])
  PROVE  Table[Level(i)][stack[i].domain] =
           IF InError(zone, Identity, Below(i), stack[i].domain,
                      Own(stack[i].domain)[stack[i].next])
           THEN "permerror" ELSE qualifierToResult(Own(stack[i].domain)[stack[i].next].q)
<1> DEFINE d == stack[i].domain
           ts == Own(d)
           k == stack[i].next
<1>1. Table[Level(i)][d] = TermsMeaning(zone, Identity, Below(i), d, ts)
  BY MeansTerms
<1>2. Len(ts) \in Nat /\ DOMAIN ts = 1..Len(ts)
  BY OwnTyped
<1>3. k \in 1..Len(ts)
  BY <1>2, Levels
<1>4. \A j \in 1..Len(ts) : j < k => ~Decides(zone, Identity, Below(i), d, ts[j])
  BY DEF Passed, Undecided
<1>5. Decides(zone, Identity, Below(i), d, ts[k])
  OBVIOUS
<1> HIDE DEF d, ts, k
<1>6. TermsMeaning(zone, Identity, Below(i), d, ts) =
        IF InError(zone, Identity, Below(i), d, ts[k]) THEN "permerror"
        ELSE qualifierToResult(ts[k].q)
  BY <1>2, <1>3, <1>4, <1>5, FirstDecides
<1> QED
  BY <1>1, <1>6 DEF d, ts, k

LEMMA MeansRedirect ==
  ASSUME IInv, NEW i \in 1..Len(stack), stack # <<>>, Passed(i), stack[i].next > 0,
         stack[i].next > Len(Own(stack[i].domain)),
         NEW last, last = LastOf(Own(stack[i].domain))
  PROVE  Table[Level(i)][stack[i].domain]
           = RedirectMeaning(Identity, Below(i), stack[i].domain, last)
<1> DEFINE d == stack[i].domain
           ts == Own(d)
           k == stack[i].next
<1>1. Table[Level(i)][d] = TermsMeaning(zone, Identity, Below(i), d, ts)
  BY MeansTerms
<1>2. Len(ts) \in Nat /\ DOMAIN ts = 1..Len(ts) /\ k \in Nat /\ k > Len(ts)
  BY OwnTyped, Levels
<1>3. \A j \in 1..Len(ts) : j < k => ~Decides(zone, Identity, Below(i), d, ts[j])
  BY DEF Passed, Undecided
<1> HIDE DEF d, ts, k
<1>4. \A j \in DOMAIN ts : ~Decides(zone, Identity, Below(i), d, ts[j])
  BY <1>2, <1>3
<1> HIDE DEF d, ts
<1>5. last = LastOf(ts)
  BY DEF d, ts
<1>6. TermsMeaning(zone, Identity, Below(i), d, ts)
        = RedirectMeaning(Identity, Below(i), d, LastOf(ts))
  BY <1>4, NoneDecides
<1> QED
  BY <1>1, <1>5, <1>6 DEF d

-----------------------------------------------------------------------------
(***************************************************************************)
(* What a step within a call does to the meaning, by what becomes of the      *)
(* call.                                                                    *)
(***************************************************************************)
\* While a call runs it is on the way to its domain's meaning.
LEMMA OnTheWay ==
  ASSUME IInv, MeaningInv, Running
  PROVE  /\ stack # <<>> /\ ret = "" /\ verdict = "" /\ WithinLimits /\ CallsMean
         /\ VerdictMeans /\ Len(stack) \in Nat \ {0} /\ Len(stack) \in 1..Len(stack)
         /\ Innermost = stack[Len(stack)] /\ Passed(Len(stack))
         /\ Innermost.domain \in Domain /\ Innermost.next \in Nat
<1>1. stack # <<>> /\ ret = "" /\ verdict = "" /\ WithinLimits
  BY StillWithin
<1>2. Len(stack) \in Nat \ {0} /\ Innermost = stack[Len(stack)]
  BY <1>1, Top DEF IInv
<1>3. Len(stack) \in 1..Len(stack)
  BY <1>2
<1>4. CallsMean /\ VerdictMeans
  BY <1>1 DEF MeaningInv
<1>5. Passed(Len(stack))
  BY <1>3, <1>4 DEF CallsMean
<1> QED
  BY <1>1, <1>2, <1>3, <1>4, <1>5, Levels

\* The innermost call's record is found and no term up to its next decides.
NextUndecided == Undecided(Len(stack), Innermost.domain, Innermost.next + 1)

\* The innermost call goes on to its next term.
Onward == stack' = Continue /\ ret' = ""

LEMMA GoesOn ==
  ASSUME IInv, MeaningInv, Running, UNCHANGED <<zone, client, verdict>>, Onward,
         NextUndecided
  PROVE  MeaningInv'
<1>1. /\ CallsMean /\ VerdictMeans /\ stack # <<>> /\ Len(stack) \in Nat \ {0}
      /\ Innermost = stack[Len(stack)]
  BY OnTheWay
<1>2. PICK n \in Nat \ {0} : n = Len(stack)
  BY <1>1
<1>3. /\ Len(stack') = n
      /\ \A i \in 1..n : /\ stack'[i].domain = stack[i].domain
                         /\ stack'[i].caller = stack[i].caller
                         /\ stack'[i].next = IF i = n THEN stack[i].next + 1
                                             ELSE stack[i].next
  BY <1>1, <1>2, Continued DEF IInv, Onward
<1>4. \A i \in 1..n : i < n => stack'[i].next = stack[i].next
  <2>1. \A i \in 1..n : i < n => i # n
    BY <1>2
  <2> QED
    BY <1>3, <2>1
<1>5. stack'[n].domain = Innermost.domain /\ stack'[n].next = Innermost.next + 1
  <2>1. n \in 1..n
    BY <1>2
  <2> QED
    BY <1>1, <1>2, <1>3, <2>1
<1>6. Passed(n)'
  <2>1. Undecided(n, Innermost.domain, Innermost.next + 1)
    BY <1>2 DEF NextUndecided
  <2> QED
    BY <1>5, <2>1, TableKept DEF Passed
<1>7. CallsMean'
  <2>1. n <= Len(stack) /\ Len(stack) \in Nat
    BY <1>2
  <2> QED
    BY <1>1, <1>3, <1>4, <1>6, <2>1, CallsKept
<1> QED
  BY <1>1, <1>7, VerdictKept DEF MeaningInv, ResultMeans, Onward

LEMMA Concludes ==
  ASSUME IInv, MeaningInv, Running, UNCHANGED <<zone, client, verdict>>, stack' = stack,
         WithinLimits' =>
           ret' # "temperror" /\ ret' = Table[Level(Len(stack))][Innermost.domain]
  PROVE  MeaningInv'
<1>0. /\ CallsMean /\ VerdictMeans /\ stack # <<>> /\ Len(stack) \in Nat \ {0}
      /\ Passed(Len(stack))
  BY OnTheWay
<1>1. PICK n \in Nat \ {0} : n = Len(stack)
  BY <1>0
<1>2. Passed(n)'
  BY <1>0, <1>1, StillPassed
<1>3. CallsMean'
  <2>1. n <= Len(stack) /\ Len(stack') = n /\ Len(stack) \in Nat
    BY <1>1
  <2> QED
    BY <1>0, <1>2, <2>1, CallsKept
<1>4. Innermost' = Innermost /\ Level(Len(stack))' = Level(Len(stack)) /\ Table' = Table
  BY TableKept DEF Innermost, Level
<1>5. WithinLimits' => ResultMeans'
  BY <1>4 DEF ResultMeans
<1> QED
  BY <1>0, <1>3, <1>5, VerdictKept DEF MeaningInv

LEMMA OpensMeans ==
  ASSUME IInv, MeaningInv, Running, UNCHANGED <<zone, client, verdict, ret>>,
         NEW target \in Domain, NEW caller \in {"include", "redirect"},
         stack' = Append(stack, Call(target, caller)),
         NamesNext(Innermost.domain, Innermost.next, caller, target)
  PROVE  MeaningInv'
<1>1. /\ CallsMean /\ VerdictMeans /\ stack # <<>> /\ Len(stack) \in Nat \ {0}
      /\ Innermost = stack[Len(stack)] /\ ret' = ""
  BY OnTheWay
<1>0. PICK n \in Nat \ {0} : n = Len(stack)
  BY <1>1
<1>2. /\ Len(stack') = n + 1
      /\ \A i \in 1..n : stack'[i] = stack[i]
      /\ stack'[n + 1] = Call(target, caller)
  BY <1>0, Opened DEF IInv
<1>3. /\ stack'[n + 1].domain = target /\ stack'[n + 1].caller = caller
      /\ stack'[n + 1].next = 0
  BY <1>2 DEF Call
<1>4. stack'[1].domain = Identity'
  <2>1. 1 \in 1..n
    BY <1>0
  <2> QED
    BY <1>0, <1>1, <1>2, <2>1, TableKept DEF CallsMean
<1>5. ASSUME NEW i \in 1..(n + 1) PROVE Passed(i)'
  <2>1. CASE i = n + 1
    <3>1. ~(0 > 0)
      OBVIOUS
    <3> QED
      BY <1>3, <2>1, <3>1 DEF Passed
  <2>2. CASE i # n + 1
    <3>1. i \in 1..n
      BY <1>0, <2>2
    <3>2. Passed(i)
      BY <1>0, <1>1, <3>1 DEF CallsMean
    <3> QED
      BY <1>2, <3>1, <3>2, StillPassed
  <2> QED
    BY <2>1, <2>2
<1>6. ASSUME NEW i \in 1..(n + 1), i < n + 1 PROVE Waits(i)'
  <2>1. CASE i = n
    <3>1. NamesNext(stack[n].domain, stack[n].next, caller, target)
      BY <1>0, <1>1
    <3>2. stack'[n] = stack[n]
      BY <1>0, <1>2
    <3> QED
      BY <1>3, <2>1, <3>1, <3>2, TableKept DEF Waits
  <2>2. CASE i # n
    <3>1. i \in 1..n /\ i < n /\ i + 1 \in 1..n
      BY <1>0, <1>6, <2>2
    <3>2. Waits(i)
      BY <1>0, <1>1, <3>1 DEF CallsMean
    <3>3. stack'[i] = stack[i] /\ stack'[i + 1] = stack[i + 1]
      BY <1>2, <3>1
    <3> QED
      BY <3>2, <3>3, TableKept DEF Waits
  <2> QED
    BY <2>1, <2>2
<1>7. CallsMean'
  BY <1>2, <1>4, <1>5, <1>6 DEF CallsMean
<1> QED
  BY <1>1, <1>7, VerdictKept DEF MeaningInv, ResultMeans

-----------------------------------------------------------------------------
(***************************************************************************)
(* A term is judged as the reference judges it.                             *)
(***************************************************************************)
TermFails == InError(zone, Identity, Below(Len(stack)), Innermost.domain, term)
TermMatches == Matches(zone, Identity, Below(Len(stack)), Innermost.domain, term)

Judged ==
  /\ Running /\ Innermost.next > 0 /\ Innermost.next <= Len(terms)
  /\ UNCHANGED <<zone, client, verdict>>
  /\ stack' = (IF ret' = "" THEN Continue ELSE stack)
  /\ WithinLimits' =>
       ret' = IF TermFails THEN "permerror"
              ELSE IF TermMatches THEN qualifierToResult(term.q) ELSE ""

LEMMA JudgedMeans ==
  ASSUME IInv, MeaningInv, Judged
  PROVE  MeaningInv'
<1> SUFFICES ASSUME WithinLimits' PROVE MeaningInv'
  BY DEF MeaningInv
<1> DEFINE n == Len(stack)
           d == Innermost.domain
           k == Innermost.next
<1>1. /\ n \in 1..Len(stack) /\ stack # <<>> /\ Innermost = stack[n] /\ Passed(n)
      /\ Running /\ k > 0 /\ k <= Len(terms) /\ UNCHANGED <<zone, client, verdict>>
      /\ k \in Nat
  BY OnTheWay DEF Judged
<1>2. terms = Own(d) /\ term = Own(d)[k]
  BY DEF terms, term, Own
<1>3. Len(Own(d)) \in Nat
  BY <1>1, OwnTyped
<1>4. CASE TermFails \/ TermMatches
  <2>1. Decides(zone, Identity, Below(n), d, Own(d)[k])
    BY <1>2, <1>4 DEF Decides, TermFails, TermMatches
  <2>2. Table[Level(n)][d] =
          IF InError(zone, Identity, Below(n), d, Own(d)[k])
          THEN "permerror" ELSE qualifierToResult(Own(d)[k].q)
    <3>1. stack[n].domain = d /\ stack[n].next = k
      BY <1>1
    <3> HIDE DEF n, d, k
    <3> QED
      BY <1>1, <1>2, <2>1, <3>1, MeansTerm
  <2>3. ret' = IF TermFails THEN "permerror" ELSE qualifierToResult(term.q)
    BY <1>4 DEF Judged
  <2>4. ret' = Table[Level(n)][d]
    BY <1>2, <2>2, <2>3 DEF TermFails
  <2>5. ret' # "" /\ ret' # "temperror"
    BY <2>3 DEF qualifierToResult
  <2>6. stack' = stack
    BY <2>5 DEF Judged
  <2> QED
    BY <1>1, <2>4, <2>5, <2>6, Concludes
<1>5. CASE ~TermFails /\ ~TermMatches
  <2>1. ret' = "" /\ stack' = Continue
    BY <1>5 DEF Judged
  <2>2. ~Decides(zone, Identity, Below(n), d, Own(d)[k])
    BY <1>2, <1>5 DEF Decides, TermFails, TermMatches
  <2>3. Undecided(n, d, k)
    BY <1>1 DEF Passed
  <2> HIDE DEF n, d, k
  <2>4. \A j \in 1..Len(Own(d)) : j < k + 1 => j < k \/ j = k
    BY <1>1, <1>3
  <2>5. Undecided(n, d, k + 1)
    BY <2>2, <2>3, <2>4 DEF Undecided
  <2> QED
    BY <1>1, <2>1, <2>5, GoesOn DEF NextUndecided, Onward, n, d, k
<1> QED
  BY <1>4, <1>5

LEMMA NamesAlike ==
  \A spec : /\ expandDomainSpec(spec) = Expanded(spec, Identity, Innermost.domain)
            /\ mechanismTarget(spec) =
                 IF spec = "" THEN Innermost.domain
                 ELSE Expanded(spec, Identity, Innermost.domain)
  BY DEF expandDomainSpec, mechanismTarget, Expanded

\* Within the limits an answer is judged by itself.
LEMMA Answered ==
  ASSUME TypeOK, NEW bad \in BOOLEAN, NEW cost, NEW void \in BOOLEAN,
         NEW tooMany \in BOOLEAN, NEW matched \in BOOLEAN,
         Ask(bad, cost, void, tooMany, matched), WithinLimits'
  PROVE  ret' = IF bad \/ tooMany THEN "permerror"
                ELSE IF matched THEN qualifierToResult(term.q) ELSE ""
<1>1. lookups \in Nat /\ voidLookups \in Nat /\ maxSPFLookups \in Nat
      /\ maxSPFVoidLookups \in Nat
  BY Numbers
<1>2. lookups' = lookups + 1 /\ voidLookups' \in {voidLookups, voidLookups + 1}
  BY DEF Ask
<1>3. lookups' <= maxSPFLookups /\ voidLookups' <= maxSPFVoidLookups
  BY DEF WithinLimits
<1>4. ~(lookups >= maxSPFLookups)
  BY <1>1, <1>2, <1>3
<1>5. ~(voidLookups' > maxSPFVoidLookups)
  BY <1>1, <1>2, <1>3
<1>6. Conclude(bad \/ tooMany, matched)
  BY <1>4, <1>5 DEF Ask
<1> QED
  BY <1>6 DEF Conclude

LEMMA JudgedAnswer ==
  ASSUME TypeOK, NEW names, At(names), NEW bad \in BOOLEAN, NEW cost, NEW void \in BOOLEAN,
         NEW tooMany \in BOOLEAN, NEW matched \in BOOLEAN,
         Ask(bad, cost, void, tooMany, matched),
         TermFails <=> bad \/ tooMany, ~TermFails => (TermMatches <=> matched)
  PROVE  Judged
<1>1. /\ Running /\ Innermost.next > 0 /\ Innermost.next <= Len(terms)
      /\ UNCHANGED <<zone, client, verdict>>
  BY DEF At
<1>2. stack' = (IF ret' = "" THEN Continue ELSE stack)
  BY DEF Ask, Conclude
<1>3. WithinLimits' =>
        ret' = IF bad \/ tooMany THEN "permerror"
               ELSE IF matched THEN qualifierToResult(term.q) ELSE ""
  BY Answered
<1>4. WithinLimits' =>
        ret' = IF TermFails THEN "permerror"
               ELSE IF TermMatches THEN qualifierToResult(term.q) ELSE ""
  BY <1>3
<1> QED
  BY <1>1, <1>2, <1>4 DEF Judged

\* Records name domains only.
LEMMA NotADomain ==
  /\ BadMacro \notin Domain /\ "" \notin Domain
  BY SpfAssumption DEF SpfAssumption

LEMMA JudgesPlain ==
  ASSUME IInv, Modifier \/ LocalMechanism
  PROVE  Judged
<1>1. CASE Modifier
  <2>1. At({"redirect", "exp"}) /\ Conclude(FALSE, FALSE)
    BY <1>1 DEF Modifier
  <2>2. term.name \in {"redirect", "exp"}
    BY <2>1 DEF At
  <2>3. ~TermFails /\ ~TermMatches
    BY <2>2 DEF TermFails, TermMatches, InError, Matches
  <2> QED
    BY <2>1, <2>3 DEF Judged, At, Conclude
<1>2. CASE LocalMechanism
  <2>1. At({"all", "ip", "unknown"})
        /\ Conclude(term.name = "unknown" \/ (term.name = "ip" /\ term.arg = "malformed"),
                    term.name = "all" \/ term.arg = "covers")
    BY <1>2 DEF LocalMechanism
  <2>2. term.name \in {"all", "ip", "unknown"}
    BY <2>1 DEF At
  <2>3. TermFails <=> term.name = "unknown" \/ (term.name = "ip" /\ term.arg = "malformed")
    BY <2>2 DEF TermFails, InError
  <2>4. ~TermFails => (TermMatches <=> term.name = "all" \/ term.arg = "covers")
    BY <2>2, <2>3 DEF TermMatches, Matches
  <2> QED
    BY <2>1, <2>3, <2>4 DEF Judged, At, Conclude
<1> QED
  BY <1>1, <1>2

LEMMA JudgesA ==
  ASSUME IInv, MechanismA
  PROVE  Judged
<1> DEFINE target == mechanismTarget(term.arg)
           void == zone.a[target] = {}
           matched == anyAddressMatches(zone.a[target], term.wide)
<1>0. TypeOK /\ StackInv /\ At({"a"})
  BY DEF MechanismA, IInv
<1>1. /\ TypeOK /\ StackInv /\ At({"a"}) /\ Running /\ term.arg \in Specs /\ term.name = "a"
  BY <1>0, TermTyped
<1>2. target \in Domain \union {BadMacro}
  BY <1>1, TermNames
<1>3. NameIn(term, Identity, Innermost.domain) = target
  BY <1>1, NamesAlike DEF NameIn
<1>4. TermFails <=> target \notin Domain
  BY <1>1, <1>3 DEF TermFails, InError
<1>5. TermMatches <=> matched
  BY <1>1, <1>3 DEF TermMatches, Matches, Hit, anyAddressMatches
<1>6. void \in BOOLEAN /\ matched \in BOOLEAN
  BY DEF anyAddressMatches
<1>7. CASE target = BadMacro
  <2>1. Ask(TRUE, 0, FALSE, FALSE, FALSE)
    BY <1>7 DEF MechanismA
  <2> QED
    BY <1>1, <1>4, <1>7, <2>1, NotADomain, JudgedAnswer
<1>8. CASE target # BadMacro
  <2>1. Ask(FALSE, 1, void, FALSE, matched)
    BY <1>8 DEF MechanismA
  <2> HIDE DEF void, matched
  <2> QED
    BY <1>1, <1>2, <1>4, <1>5, <1>6, <1>8, <2>1, JudgedAnswer
<1> QED
  BY <1>7, <1>8

LEMMA JudgesMX ==
  ASSUME IInv, MechanismMX
  PROVE  Judged
<1> DEFINE target == mechanismTarget(term.arg)
           hosts == zone.mx[target]
           many == Len(hosts) > maxMXHosts
           cost == IF many THEN 1 ELSE 1 + Len(hosts)
           void == hosts = <<>>
           matched == \E i \in DOMAIN hosts : anyAddressMatches(zone.a[hosts[i]], term.wide)
<1>0. TypeOK /\ StackInv /\ At({"mx"})
  BY DEF MechanismMX, IInv
<1>1. /\ TypeOK /\ StackInv /\ At({"mx"}) /\ Running /\ term.arg \in Specs
      /\ term.name = "mx"
  BY <1>0, TermTyped
<1>2. target \in Domain \union {BadMacro}
  BY <1>1, TermNames
<1>3. NameIn(term, Identity, Innermost.domain) = target
  BY <1>1, NamesAlike DEF NameIn
<1>4. TermFails <=> target \notin Domain \/ many
  BY <1>1, <1>3 DEF TermFails, InError
<1>5. TermMatches <=> matched
  BY <1>1, <1>3 DEF TermMatches, Matches, Hit, anyAddressMatches
<1>6. void \in BOOLEAN /\ many \in BOOLEAN /\ matched \in BOOLEAN
  OBVIOUS
<1>7. CASE target = BadMacro
  <2>1. Ask(TRUE, 0, FALSE, FALSE, FALSE)
    BY <1>7 DEF MechanismMX
  <2> QED
    BY <1>1, <1>4, <1>7, <2>1, NotADomain, JudgedAnswer
<1>8. CASE target # BadMacro
  <2>1. Ask(FALSE, cost, void, many, matched)
    BY <1>8 DEF MechanismMX
  <2> HIDE DEF void, many, matched, cost
  <2> QED
    BY <1>1, <1>2, <1>4, <1>5, <1>6, <1>8, <2>1, JudgedAnswer
<1> QED
  BY <1>7, <1>8

LEMMA JudgesExists ==
  ASSUME IInv, MechanismExists
  PROVE  Judged
<1> DEFINE target == expandDomainSpec(term.arg)
           void == zone.a[target] = {}
           matched == zone.a[target] # {}
<1>0. TypeOK /\ StackInv /\ At({"exists"})
  BY DEF MechanismExists, IInv
<1>1. /\ TypeOK /\ StackInv /\ At({"exists"}) /\ Running /\ term.arg \in Specs
      /\ term.name = "exists"
  BY <1>0, TermTyped
<1>2. target \in Domain \union {BadMacro, ""}
  BY <1>1, TermNames
<1>3. NameIn(term, Identity, Innermost.domain) = target
  BY <1>1, NamesAlike DEF NameIn
<1>4. TermFails <=> target \notin Domain
  BY <1>1, <1>3 DEF TermFails, InError
<1>5. TermMatches <=> matched
  BY <1>1, <1>3 DEF TermMatches, Matches
<1>6. void \in BOOLEAN /\ matched \in BOOLEAN
  OBVIOUS
<1>7. CASE target \in {BadMacro, ""}
  <2>1. Ask(TRUE, 0, FALSE, FALSE, FALSE)
    BY <1>7 DEF MechanismExists
  <2> QED
    BY <1>1, <1>4, <1>7, <2>1, NotADomain, JudgedAnswer
<1>8. CASE target \notin {BadMacro, ""}
  <2>1. Ask(FALSE, 1, void, FALSE, matched)
    BY <1>8 DEF MechanismExists
  <2> HIDE DEF void, matched
  <2> QED
    BY <1>1, <1>2, <1>4, <1>5, <1>6, <1>8, <2>1, JudgedAnswer
<1> QED
  BY <1>7, <1>8

LEMMA JudgesPTR ==
  ASSUME IInv, MechanismPTR
  PROVE  Judged
<1> DEFINE target == IF term.arg = "" THEN Innermost.domain ELSE term.arg
           inside == {n \in zone.ptr : n = target \/ <<n, target>> \in Subdomain}
           cost == 1 + Cardinality(inside)
           matched == \E n \in inside : "client" \in zone.a[n]
<1>0. TypeOK /\ StackInv /\ At({"ptr"})
  BY DEF MechanismPTR, IInv
<1>1. TypeOK /\ StackInv /\ At({"ptr"}) /\ term.name = "ptr"
  BY <1>0, TermTyped
<1>2. Ask(FALSE, cost, FALSE, FALSE, matched)
  BY DEF MechanismPTR
<1>3. NameIn(term, Identity, Innermost.domain) = target
  BY <1>1 DEF NameIn
<1>4. ~TermFails
  BY <1>1 DEF TermFails, InError
<1>5. TermMatches <=> matched
  <2> HIDE DEF target
  <2> QED
    BY <1>1, <1>3 DEF TermMatches, Matches
<1>6. matched \in BOOLEAN
  OBVIOUS
<1> HIDE DEF cost, matched
<1> QED
  BY <1>1, <1>2, <1>4, <1>5, <1>6, JudgedAnswer

LEMMA IncludeMeans ==
  ASSUME IInv, MeaningInv, MechanismInclude
  PROVE  MeaningInv'
<1> DEFINE target == expandDomainSpec(term.arg)
<1>0. TypeOK /\ StackInv /\ At({"include"})
  BY DEF MechanismInclude, IInv
<1>1. Running /\ term.arg \in Specs /\ term.name = "include"
  BY <1>0, TermTyped
<1>2. target \in Domain \union {BadMacro, ""}
  BY <1>0, <1>1, TermNames
<1>3. Expanded(term.arg, Identity, Innermost.domain) = target
      /\ NameIn(term, Identity, Innermost.domain) = target
  BY <1>1, NamesAlike DEF NameIn
<1>4. /\ Innermost.next > 0 /\ Innermost.next <= Len(terms)
      /\ UNCHANGED <<zone, client, verdict>> /\ lookups' = lookups + 1
  BY DEF MechanismInclude, At
<1>5. CASE lookups >= maxSPFLookups \/ target \in {BadMacro, ""}
  <2>1. ret' = "permerror" /\ stack' = stack
    BY <1>5 DEF MechanismInclude
  <2>2. ASSUME WithinLimits' PROVE TermFails
    <3>1. ~(lookups >= maxSPFLookups)
      <4>1. lookups \in Nat /\ maxSPFLookups \in Nat
        BY <1>0, Numbers
      <4>2. lookups' <= maxSPFLookups
        BY <2>2 DEF WithinLimits
      <4> QED
        BY <1>4, <4>1, <4>2
    <3>2. target \notin Domain
      BY <1>5, <3>1, NotADomain
    <3> QED
      BY <1>1, <1>3, <3>2 DEF TermFails, InError
  <2>3. Judged
    BY <1>1, <1>4, <2>1, <2>2 DEF Judged
  <2> QED
    BY <2>3, JudgedMeans
<1>6. CASE ~(lookups >= maxSPFLookups \/ target \in {BadMacro, ""})
  <2>1. stack' = Append(stack, Call(target, "include")) /\ UNCHANGED ret
    BY <1>6 DEF MechanismInclude
  <2>2. target \in Domain
    BY <1>2, <1>6
  <2>3. terms = Own(Innermost.domain) /\ term = Own(Innermost.domain)[Innermost.next]
    BY DEF terms, term, Own
  <2>4. NamesNext(Innermost.domain, Innermost.next, "include", target)
    BY <1>1, <1>3, <1>4, <2>3 DEF NamesNext
  <2> HIDE DEF target
  <2> QED
    BY <1>1, <1>4, <2>1, <2>2, <2>4, OpensMeans
<1> QED
  BY <1>5, <1>6

LEMMA OneOrMore ==
  ASSUME NEW k \in Nat, k # 0, ~(k > 1) PROVE k = 1
  OBVIOUS

LEMMA RecordMeans ==
  ASSUME IInv, MeaningInv, findRecord
  PROVE  MeaningInv'
<1> DEFINE d == Innermost.domain
           n == Len(stack)
           found == zone.txt[d]
           void == found = <<>> /\ d \notin zone.oversized
<1>1. /\ Running /\ Innermost.next = 0 /\ UNCHANGED <<zone, client, verdict>>
      /\ voidLookups' = IF void THEN voidLookups + 1 ELSE voidLookups
      /\ stack' = IF ret' = "" THEN Continue ELSE stack
      /\ UNCHANGED <<zone, client, lookups, redirects, verdict>>
  BY DEF findRecord
<1>2. /\ stack # <<>> /\ n \in 1..Len(stack) /\ Innermost = stack[n] /\ TypeOK
      /\ d \in Domain
  BY <1>1, OnTheWay DEF IInv
<1>3. Table[Level(n)][d] = RecordMeaning(zone, Identity, Below(n), d)
  BY <1>2, Levels
<1>4. found \in Seq(Records)
  BY <1>2 DEF TypeOK, IsZone
<1>5. ASSUME WithinLimits', void PROVE ~(voidLookups >= maxSPFVoidLookups)
  <2>1. voidLookups \in Nat /\ maxSPFVoidLookups \in Nat
    BY <1>2, Numbers
  <2>2. voidLookups' = voidLookups + 1 /\ voidLookups' <= maxSPFVoidLookups
    BY <1>1, <1>5 DEF WithinLimits
  <2> QED
    BY <2>1, <2>2
<1>6. ret' = CASE d \in zone.oversized -> "permerror"
               [] void -> IF voidLookups >= maxSPFVoidLookups
                          THEN "permerror" ELSE "none"
               [] found # <<>> /\ (Len(found) > 1 \/ ~found[1].spf1) -> "permerror"
               [] OTHER -> ""
  BY DEF findRecord
<1> HIDE DEF d, n
<1>7. CASE d \in zone.oversized
  <2>1. ret' = "permerror" /\ stack' = stack
    BY <1>1, <1>6, <1>7
  <2>2. RecordMeaning(zone, Identity, Below(n), d) = "permerror"
    BY <1>7 DEF RecordMeaning
  <2> QED
    BY <1>1, <1>3, <2>1, <2>2, Concludes DEF d, n
<1>8. CASE void
  <2>1. ret' \in {"permerror", "none"} /\ stack' = stack
    BY <1>1, <1>6, <1>8
  <2>2. WithinLimits' => ret' = "none"
    <3>1. ret' = IF voidLookups >= maxSPFVoidLookups THEN "permerror" ELSE "none"
      <4> HIDE DEF found
      <4> QED
        BY <1>6, <1>8
    <3> QED
      BY <1>5, <1>8, <3>1
  <2>3. RecordMeaning(zone, Identity, Below(n), d) = "none"
    BY <1>8 DEF RecordMeaning
  <2> QED
    BY <1>1, <1>3, <2>1, <2>2, <2>3, Concludes DEF d, n
<1>9. CASE /\ d \notin zone.oversized /\ found # <<>>
           /\ Len(found) > 1 \/ ~found[1].spf1
  <2>1. ret' = "permerror"
    <3>1. d \notin zone.oversized /\ ~void /\ found # <<>>
          /\ (Len(found) > 1 \/ ~found[1].spf1)
      BY <1>9
    <3> HIDE DEF void
    <3> QED
      BY <1>6, <3>1
  <2>2. stack' = stack
    BY <1>1, <2>1
  <2>3. RecordMeaning(zone, Identity, Below(n), d) = "permerror"
    BY <1>9 DEF RecordMeaning
  <2> QED
    BY <1>1, <1>3, <2>1, <2>2, <2>3, Concludes DEF d, n
<1>10. CASE /\ d \notin zone.oversized /\ found # <<>>
            /\ ~(Len(found) > 1 \/ ~found[1].spf1)
  <2>1. ret' = ""
    <3>1. d \notin zone.oversized /\ ~void /\ ~(Len(found) > 1 \/ ~found[1].spf1)
      BY <1>10
    <3> HIDE DEF void
    <3> QED
      BY <1>6, <3>1
  <2>2. Onward
    BY <1>1, <2>1 DEF Onward
  <2>3. Len(found) = 1
    <3>1. Len(found) \in Nat /\ Len(found) # 0
      BY <1>4, <1>10, EmptySeq
    <3>2. ~(Len(found) > 1)
      BY <1>10
    <3> QED
      BY <3>1, <3>2, OneOrMore
  <2>4. NextUndecided
    <3>1. Undecided(n, d, 0 + 1)
      <4>1. \A j \in 1..Len(Own(d)) : ~(j < 0 + 1)
        OBVIOUS
      <4> QED
        BY <1>10, <2>3, <4>1 DEF Undecided
    <3> QED
      BY <1>1, <3>1 DEF NextUndecided, d, n
  <2> QED
    BY <1>1, <2>2, <2>4, GoesOn
<1> QED
  BY <1>7, <1>8, <1>9, <1>10

\* After the last term: what the record means is what its redirect does.
LEMMA AtTheEnd ==
  ASSUME IInv, MeaningInv, AtEnd
  PROVE  /\ Running /\ UNCHANGED <<zone, client, verdict>>
         /\ Table[Level(Len(stack))][Innermost.domain]
              = RedirectMeaning(Identity, Below(Len(stack)), Innermost.domain, Redirect)
         /\ Innermost.next > Len(Own(Innermost.domain))
         /\ Redirect = LastOf(Own(Innermost.domain))
<1>1. /\ Running /\ Innermost.next > 0 /\ Innermost.next > Len(terms)
      /\ UNCHANGED <<zone, client, verdict>>
  BY DEF AtEnd
<1>2. /\ stack # <<>> /\ Len(stack) \in 1..Len(stack) /\ Innermost = stack[Len(stack)]
      /\ Passed(Len(stack))
  BY <1>1, OnTheWay
<1>3. terms = Own(Innermost.domain)
  BY DEF terms, Own
<1>4. Redirect = LastOf(terms)
  BY DEF Redirect, LastOf
<1>5. Table[Level(Len(stack))][Innermost.domain]
        = RedirectMeaning(Identity, Below(Len(stack)), Innermost.domain,
                          LastOf(Own(Innermost.domain)))
  BY <1>1, <1>2, <1>3, MeansRedirect
<1> QED
  BY <1>1, <1>3, <1>4, <1>5

LEMMA NoMatchMeans ==
  ASSUME IInv, MeaningInv, NoMatch
  PROVE  MeaningInv'
<1>1. AtEnd /\ Redirect = "" /\ ret' = "neutral" /\ stack' = stack
  BY DEF NoMatch
<1>2. Table[Level(Len(stack))][Innermost.domain] = "neutral"
  BY <1>1, AtTheEnd DEF RedirectMeaning
<1> QED
  BY <1>1, <1>2, AtTheEnd, Concludes

LEMMA RedirectMeans ==
  ASSUME IInv, MeaningInv, FollowRedirect
  PROVE  MeaningInv'
<1> DEFINE target == expandDomainSpec(Redirect)
           bad == target = BadMacro
           long == redirects >= maxSPFRedirects
           spent == lookups >= maxSPFLookups
<1>1. /\ AtEnd /\ Redirect # ""
      /\ redirects' = (IF bad THEN redirects ELSE redirects + 1)
      /\ lookups' = (IF bad \/ long THEN lookups ELSE lookups + 1)
  BY DEF FollowRedirect
<1>2. TypeOK /\ StackInv
  BY DEF IInv
<1>3. target \in Domain \union {BadMacro}
  BY <1>2, RedirectNames
<1>4. target = Expanded(Redirect, Identity, Innermost.domain)
  BY NamesAlike
<1>5. CASE bad \/ long \/ spent
  <2>1. ret' = "permerror" /\ stack' = stack
    BY <1>5 DEF FollowRedirect
  <2>2. ASSUME WithinLimits' PROVE bad
    <3>1. /\ lookups \in Nat /\ maxSPFLookups \in Nat
          /\ redirects \in Nat /\ maxSPFRedirects \in Nat
      BY <1>2, Numbers
    <3>2. redirects' <= maxSPFRedirects /\ lookups' <= maxSPFLookups
      BY <2>2 DEF WithinLimits
    <3>3. /\ ~bad => redirects' = redirects + 1
          /\ ~bad /\ ~long => lookups' = lookups + 1
      BY <1>1
    <3> HIDE DEF bad
    <3>4. ~bad => ~long
      BY <3>1, <3>2, <3>3
    <3>5. ~bad /\ ~long => ~spent
      BY <3>1, <3>2, <3>3
    <3> QED
      BY <1>5, <3>4, <3>5
  <2>3. bad => RedirectMeaning(Identity, Below(Len(stack)), Innermost.domain, Redirect)
               = "permerror"
    BY <1>1, <1>4, NotADomain DEF RedirectMeaning
  <2> HIDE DEF bad
  <2> QED
    BY <1>1, <2>1, <2>2, <2>3, AtTheEnd, Concludes
<1>6. CASE ~(bad \/ long \/ spent)
  <2>1. stack' = Append(stack, Call(target, "redirect")) /\ UNCHANGED ret
    BY <1>6 DEF FollowRedirect
  <2>2. target \in Domain
    BY <1>3, <1>6
  <2>3. NamesNext(Innermost.domain, Innermost.next, "redirect", target)
    BY <1>1, <1>4, AtTheEnd DEF NamesNext
  <2> HIDE DEF target
  <2> QED
    BY <1>1, <2>1, <2>2, <2>3, AtTheEnd, OpensMeans
<1> QED
  BY <1>5, <1>6

-----------------------------------------------------------------------------
(***************************************************************************)
(* A call returns what its domain means, and its caller goes on from there.  *)
(***************************************************************************)
\* A call returns to another.
ToCaller == stack # <<>> /\ ret # "" /\ Innermost.caller # "sender"

\* n is the caller's place in the stack.
LEMMA CallerWaits ==
  ASSUME IInv, MeaningInv, WithinLimits, ToCaller
  PROVE  \E n \in Nat \ {0} :
           /\ n + 1 = Len(stack) /\ n \in 1..Len(stack) /\ Len(Outer) = n
           /\ \A i \in 1..n : Outer[i] = stack[i]
           /\ Outer[Len(Outer)] = stack[n] /\ Includer = stack[n]
           /\ CallsMean /\ Passed(n) /\ stack[n].next > 0 /\ stack[n].next \in Nat
           /\ ret # "temperror" /\ ret = Below(n)[Innermost.domain]
           /\ NamesNext(stack[n].domain, stack[n].next, Innermost.caller, Innermost.domain)
           /\ Innermost.domain \in Domain
<1>1. /\ TypeOK /\ StackInv /\ CallsMean /\ ResultMeans /\ Len(stack) \in Nat \ {0}
      /\ Innermost = stack[Len(stack)] /\ stack \in Seq(Frames) /\ stack # <<>>
  BY Top DEF IInv, MeaningInv, ToCaller
<1>2. Len(stack) # 1
  <2>1. Len(stack) \in 1..Len(stack)
    BY <1>1
  <2> QED
    BY <1>1, <2>1 DEF StackInv, ToCaller
<1>3. PICK n \in Nat \ {0} : n = Len(stack) - 1
  <2>1. Len(stack) - 1 \in Nat \ {0}
    BY <1>1, <1>2
  <2> QED
    BY <2>1
<1>4. n + 1 = Len(stack) /\ n \in 1..Len(stack) /\ n < Len(stack)
      /\ Len(stack) \in 1..Len(stack) /\ n \in 1..n
  BY <1>1, <1>3
<1>5. /\ Len(Outer) = n
      /\ \A i \in 1..n : Outer[i] = stack[i]
  BY <1>1, <1>3, Popped
<1>6. Outer[Len(Outer)] = stack[n] /\ Includer = stack[n]
  BY <1>4, <1>5 DEF Includer
<1>7. Passed(n) /\ Waits(n)
  BY <1>1, <1>4 DEF CallsMean
<1>8. stack[n].next > 0
  BY <1>1, <1>4 DEF StackInv
<1>9. Level(n + 1) = Level(n) - 1 /\ stack[n].next \in Nat
  BY <1>4, Levels
<1>10. ret # "temperror" /\ ret = Below(n)[Innermost.domain]
  BY <1>1, <1>4, <1>9 DEF ResultMeans, Below, ToCaller
<1>11. NamesNext(stack[n].domain, stack[n].next, Innermost.caller, Innermost.domain)
  BY <1>1, <1>4, <1>7 DEF Waits
<1>12. Innermost.domain \in Domain
  BY <1>1, <1>4, Levels
<1> QED
  BY <1>1, <1>4, <1>5, <1>6, <1>7, <1>8, <1>9, <1>10, <1>11, <1>12

\* The caller ends with its domain's meaning.
LEMMA CallerEnds ==
  ASSUME IInv, MeaningInv, CallsMean, stack # <<>>, NEW n \in Nat \ {0},
         n \in 1..Len(stack), n + 1 = Len(stack), Passed(n), Len(Outer) = n,
         \A i \in 1..n : Outer[i] = stack[i],
         UNCHANGED <<zone, client, verdict>>, VerdictMeans, stack' = Outer,
         ret' # "temperror", ret' = Table[Level(n)][stack[n].domain]
  PROVE  MeaningInv'
<1>1. n <= Len(stack) /\ Len(stack) \in Nat
  OBVIOUS
<1>2. n \in 1..n
  OBVIOUS
<1>3. /\ \A i \in 1..n : /\ stack'[i].domain = stack[i].domain
                         /\ stack'[i].caller = stack[i].caller
                         /\ stack'[i].next = stack[i].next
      /\ Len(stack') = n
  OBVIOUS
<1>4. Passed(n)'
  BY <1>2, <1>3, StillPassed
<1>5. CallsMean'
  BY <1>1, <1>3, <1>4, CallsKept
<1>6. Innermost' = stack[n] /\ Level(Len(stack))' = Level(n)
  BY <1>2, <1>3 DEF Innermost, Level
<1>7. ResultMeans'
  BY <1>6, TableKept DEF ResultMeans
<1> QED
  BY <1>5, <1>7, VerdictKept DEF MeaningInv

\* The caller goes on to its next term.
CallerOnward == stack' = [Outer EXCEPT ![Len(Outer)].next = @ + 1] /\ ret' = ""

LEMMA CallerGoesOn ==
  ASSUME IInv, CallsMean, stack # <<>>, NEW n \in Nat \ {0},
         n \in 1..Len(stack), n + 1 = Len(stack), Passed(n), Len(Outer) = n,
         stack[n].next \in Nat, stack[n].next > 0,
         \A i \in 1..n : Outer[i] = stack[i],
         UNCHANGED <<zone, client, verdict>>, VerdictMeans, CallerOnward,
         ~Decides(zone, Identity, Below(n), stack[n].domain,
                  Own(stack[n].domain)[stack[n].next])
  PROVE  MeaningInv'
<1>1. n <= Len(stack) /\ Len(stack) \in Nat
  OBVIOUS
<1>2. Outer \in Seq(Frames) /\ n \in 1..n /\ Outer[n] = stack[n]
  BY Popped DEF IInv
<1>3. Outer[n] \in Frames
  BY <1>2, ElementOfSeq
<1> DEFINE e == [Outer[n] EXCEPT !.next = @ + 1]
<1>4. e \in Frames /\ e.caller = stack[n].caller /\ e.domain = stack[n].domain
      /\ e.next = stack[n].next + 1
  BY <1>2, <1>3 DEF Frames
<1>5. stack' = [Outer EXCEPT ![n] = e]
  BY DEF CallerOnward
<1> HIDE DEF e
<1>6. /\ Len(stack') = n
      /\ \A j \in 1..n : stack'[j] = IF j = n THEN e ELSE Outer[j]
  BY <1>2, <1>4, <1>5, ExceptSeq
<1>7. \A i \in 1..n : i < n => i # n
  OBVIOUS
<1>8. /\ \A i \in 1..n : /\ stack'[i].domain = stack[i].domain
                         /\ stack'[i].caller = stack[i].caller
      /\ \A i \in 1..n : i < n => stack'[i].next = stack[i].next
      /\ stack'[n].next = stack[n].next + 1
  BY <1>2, <1>4, <1>6, <1>7
<1>9. Passed(n)'
  <2>1. Len(Own(stack[n].domain)) \in Nat
    BY OwnTyped
  <2> QED
    BY <1>2, <1>8, <2>1, PassedOn
<1>10. CallsMean'
  BY <1>1, <1>6, <1>8, <1>9, CallsKept
<1> QED
  BY <1>10, VerdictKept DEF MeaningInv, ResultMeans, CallerOnward

LEMMA ReturnToIncludeMeans ==
  ASSUME IInv, MeaningInv, ReturnToInclude
  PROVE  MeaningInv'
<1>1. /\ stack # <<>> /\ ret # "" /\ Innermost.caller = "include"
      /\ UNCHANGED <<zone, client, counters, verdict>>
  BY DEF ReturnToInclude, Returning
<1> SUFFICES ASSUME WithinLimits' PROVE MeaningInv'
  BY DEF MeaningInv
<1>2. WithinLimits
  BY <1>1 DEF WithinLimits, counters
<1>3. CallsMean /\ VerdictMeans
  BY <1>2 DEF MeaningInv
<1>4. PICK n \in Nat \ {0} :
           /\ n + 1 = Len(stack) /\ n \in 1..Len(stack) /\ Len(Outer) = n
           /\ \A i \in 1..n : Outer[i] = stack[i]
           /\ Outer[Len(Outer)] = stack[n] /\ Includer = stack[n]
           /\ CallsMean /\ Passed(n) /\ stack[n].next > 0 /\ stack[n].next \in Nat
           /\ ret # "temperror" /\ ret = Below(n)[Innermost.domain]
           /\ NamesNext(stack[n].domain, stack[n].next, Innermost.caller, Innermost.domain)
           /\ Innermost.domain \in Domain
  BY <1>1, <1>2, CallerWaits DEF ToCaller
<1> DEFINE d == stack[n].domain
           k == stack[n].next
           t == Own(d)[k]
<1>5. /\ k <= Len(Own(d)) /\ t.name = "include"
      /\ Expanded(t.arg, Identity, d) = Innermost.domain
  BY <1>1, <1>4 DEF NamesNext
<1>6. zone.txt[Includer.domain][1].terms[Includer.next] = t
  BY <1>4 DEF Own
<1>7. NameIn(t, Identity, d) = Innermost.domain
  BY <1>5 DEF NameIn
<1> HIDE DEF t
<1>8. /\ InError(zone, Identity, Below(n), d, t) <=> ret \in {"none", "permerror"}
      /\ Matches(zone, Identity, Below(n), d, t) <=> ret = "pass"
  BY <1>4, <1>5, <1>7 DEF InError, Matches
<1>9. Decides(zone, Identity, Below(n), d, t) =>
        Table[Level(n)][d] = IF InError(zone, Identity, Below(n), d, t)
                             THEN "permerror" ELSE qualifierToResult(t.q)
  BY <1>1, <1>4, <1>5, MeansTerm DEF t
<1>10. UNCHANGED <<zone, client, verdict>>
  BY <1>1
<1>11. CASE ret \in {"pass", "none", "permerror"}
  <2>1. ret' = (IF ret = "pass" THEN qualifierToResult(t.q) ELSE "permerror")
        /\ stack' = Outer
    <3>1. CASE ret = "pass"
      BY <1>6, <3>1 DEF ReturnToInclude
    <3>2. CASE ret \in {"none", "permerror"}
      BY <3>2 DEF ReturnToInclude
    <3> QED
      BY <1>11, <3>1, <3>2
  <2>2. ret' = Table[Level(n)][d]
    BY <1>8, <1>9, <1>11, <2>1 DEF Decides
  <2>3. ret' # "temperror"
    BY <2>1 DEF qualifierToResult
  <2> QED
    BY <1>1, <1>3, <1>4, <1>10, <2>1, <2>2, <2>3, CallerEnds
<1>12. CASE ret \notin {"pass", "none", "permerror"}
  <2>1. ret \notin {"pass", "none", "temperror", "permerror"}
    BY <1>4, <1>12
  <2>2. ret' = "" /\ stack' = [Outer EXCEPT ![Len(Outer)].next = @ + 1]
    BY <2>1 DEF ReturnToInclude
  <2>3. CallerOnward
    BY <2>2 DEF CallerOnward
  <2>4. ~Decides(zone, Identity, Below(n), d, Own(d)[k])
    BY <1>8, <1>12 DEF Decides, t
  <2> QED
    BY <1>1, <1>3, <1>4, <1>10, <2>3, <2>4, CallerGoesOn
<1> QED
  BY <1>11, <1>12

LEMMA ReturnToRedirectMeans ==
  ASSUME IInv, MeaningInv, ReturnToRedirect
  PROVE  MeaningInv'
<1>1. /\ stack # <<>> /\ ret # "" /\ Innermost.caller = "redirect" /\ stack' = Outer
      /\ ret' = (IF ret = "none" THEN "permerror" ELSE ret)
      /\ UNCHANGED <<zone, client, counters, verdict>>
  BY DEF ReturnToRedirect, Returning
<1> SUFFICES ASSUME WithinLimits' PROVE MeaningInv'
  BY DEF MeaningInv
<1>2. WithinLimits
  BY <1>1 DEF WithinLimits, counters
<1>3. CallsMean /\ VerdictMeans
  BY <1>2 DEF MeaningInv
<1>4. PICK n \in Nat \ {0} :
           /\ n + 1 = Len(stack) /\ n \in 1..Len(stack) /\ Len(Outer) = n
           /\ \A i \in 1..n : Outer[i] = stack[i]
           /\ Outer[Len(Outer)] = stack[n] /\ Includer = stack[n]
           /\ CallsMean /\ Passed(n) /\ stack[n].next > 0 /\ stack[n].next \in Nat
           /\ ret # "temperror" /\ ret = Below(n)[Innermost.domain]
           /\ NamesNext(stack[n].domain, stack[n].next, Innermost.caller, Innermost.domain)
           /\ Innermost.domain \in Domain
  BY <1>1, <1>2, CallerWaits DEF ToCaller
<1> DEFINE d == stack[n].domain
           k == stack[n].next
<1>5. /\ k > Len(Own(d)) /\ LastOf(Own(d)) # ""
      /\ Expanded(LastOf(Own(d)), Identity, d) = Innermost.domain
  BY <1>1, <1>4 DEF NamesNext
<1>6. Table[Level(n)][d] = RedirectMeaning(Identity, Below(n), d, LastOf(Own(d)))
  BY <1>1, <1>4, <1>5, MeansRedirect
<1>7. ret' = Table[Level(n)][d]
  BY <1>1, <1>4, <1>5, <1>6 DEF RedirectMeaning
<1>8. ret' # "temperror" /\ UNCHANGED <<zone, client, verdict>>
  BY <1>1, <1>4
<1> QED
  BY <1>1, <1>3, <1>4, <1>7, <1>8, CallerEnds

LEMMA ReturnToSenderMeans ==
  ASSUME IInv, MeaningInv, ReturnToSender
  PROVE  MeaningInv'
<1>1. /\ stack # <<>> /\ ret # "" /\ Innermost.caller = "sender" /\ stack' = Outer
      /\ verdict' = ret /\ ret' = "" /\ UNCHANGED <<zone, client, counters>>
      /\ TypeOK /\ StackInv
  BY DEF ReturnToSender, Returning, IInv
<1> SUFFICES ASSUME WithinLimits' PROVE MeaningInv'
  BY DEF MeaningInv
<1>2. WithinLimits
  BY <1>1 DEF WithinLimits, counters
<1>3. CallsMean /\ ResultMeans
  BY <1>2 DEF MeaningInv
<1>4. /\ Len(stack) \in Nat \ {0} /\ Innermost = stack[Len(stack)]
  BY <1>1, Top
<1>5. Len(stack) = 1
  <2>1. Len(stack) \in 1..Len(stack)
    BY <1>4
  <2> QED
    BY <1>1, <1>4, <2>1 DEF StackInv
<1>6. Level(1) = maxSPFLookups + 1
  <2>1. maxSPFLookups \in Nat
    BY <1>1, Numbers
  <2> QED
    BY <2>1 DEF Level
<1>7. ret = Table[maxSPFLookups + 1][Identity] /\ Identity \in Domain
  BY <1>1, <1>3, <1>4, <1>5, <1>6 DEF ResultMeans, CallsMean, StackInv
<1>8. VerdictMeans'
  <2>1. Table' = Table /\ Identity' = Identity
    BY <1>1, TableKept
  <2> QED
    BY <1>1, <1>7, <2>1 DEF VerdictMeans
<1>9. stack' = <<>>
  <2>1. Outer \in Seq(Frames) /\ Len(Outer) = Len(stack) - 1
    BY <1>1, Popped
  <2>2. Len(Outer) = 0
    BY <1>5, <2>1
  <2> QED
    BY <1>1, <2>1, <2>2, EmptySeq
<1>10. CallsMean'
  BY <1>9, NoIndex DEF CallsMean
<1> QED
  BY <1>1, <1>8, <1>10 DEF MeaningInv, ResultMeans

LEMMA VerifySPFMeans ==
  ASSUME IInv, MeaningInv, VerifySPF
  PROVE  MeaningInv'
<1>1. /\ stack = <<>> /\ ret = "" /\ verdict = "" /\ TypeOK /\ ret' = ""
      /\ UNCHANGED <<zone, client>>
  BY DEF VerifySPF, IInv, StackInv
<1>2. CASE client.resolver /\ client.ip /\ Identity \in Domain
  <2> DEFINE call == Call(Identity, "sender")
  <2>1. stack' = <<call>> /\ verdict' = ""
    BY <1>1, <1>2 DEF VerifySPF
  <2>2. call.domain = Identity /\ call.next = 0
    BY DEF Call
  <2> HIDE DEF call
  <2>3. Len(<<call>>) = 1 /\ <<call>>[1] = call
    OBVIOUS
  <2>4. \A i \in 1..1 : i = 1 /\ ~(i < 1)
    OBVIOUS
  <2>5. ~(0 > 0)
    OBVIOUS
  <2>6. \A i \in 1..1 : Passed(i)'
    BY <2>1, <2>2, <2>3, <2>4, <2>5 DEF Passed
  <2>7. stack'[1].domain = Identity'
    BY <1>1, <2>1, <2>2, <2>3, TableKept
  <2>8. CallsMean'
    BY <2>1, <2>3, <2>4, <2>6, <2>7 DEF CallsMean
  <2> QED
    BY <1>1, <2>1, <2>8 DEF MeaningInv, ResultMeans, VerdictMeans
<1>3. CASE ~(client.resolver /\ client.ip /\ Identity \in Domain)
  <2>1. /\ stack' = <<>>
        /\ verdict' = IF ~client.resolver THEN "temperror"
                      ELSE IF ~client.ip THEN "permerror" ELSE "none"
    BY <1>1, <1>3 DEF VerifySPF
  <2>2. CallsMean'
    BY <2>1, NoIndex DEF CallsMean
  <2>3. Identity' = Identity
    BY <1>1, TableKept
  <2>4. VerdictMeans'
    BY <1>1, <1>3, <2>1, <2>3 DEF VerdictMeans
  <2> QED
    BY <1>1, <2>2, <2>4 DEF MeaningInv, ResultMeans
<1> QED
  BY <1>2, <1>3

LEMMA InitMeans ==
  ASSUME Init PROVE MeaningInv
  BY NoIndex DEF Init, MeaningInv, CallsMean, ResultMeans, VerdictMeans

LEMMA MeaningInductive ==
  ASSUME IInv, MeaningInv, [Next]_vars PROVE MeaningInv'
<1>1. CASE VerifySPF
  BY <1>1, VerifySPFMeans
<1>2. CASE findRecord
  BY <1>2, RecordMeans
<1>3. CASE Modifier \/ LocalMechanism
  BY <1>3, JudgesPlain, JudgedMeans
<1>4. CASE MechanismA
  BY <1>4, JudgesA, JudgedMeans
<1>5. CASE MechanismMX
  BY <1>5, JudgesMX, JudgedMeans
<1>6. CASE MechanismExists
  BY <1>6, JudgesExists, JudgedMeans
<1>7. CASE MechanismPTR
  BY <1>7, JudgesPTR, JudgedMeans
<1>8. CASE MechanismInclude
  BY <1>8, IncludeMeans
<1>9. CASE NoMatch
  BY <1>9, NoMatchMeans
<1>10. CASE FollowRedirect
  BY <1>10, RedirectMeans
<1>11. CASE ReturnToInclude
  BY <1>11, ReturnToIncludeMeans
<1>12. CASE ReturnToRedirect
  BY <1>12, ReturnToRedirectMeans
<1>13. CASE ReturnToSender
  BY <1>13, ReturnToSenderMeans
<1>14. CASE UNCHANGED vars
  <2>1. /\ UNCHANGED <<zone, client>> /\ stack' = stack /\ ret' = ret /\ verdict' = verdict
        /\ UNCHANGED counters
    BY <1>14 DEF vars
  <2>2. WithinLimits' <=> WithinLimits
    BY <2>1 DEF WithinLimits, counters
  <2>3. CallsMean' <=> CallsMean
    BY <2>1, TableKept DEF CallsMean, Passed, Waits
  <2>4. ResultMeans' <=> ResultMeans
    BY <2>1, TableKept DEF ResultMeans, Innermost, Level
  <2>5. VerdictMeans' <=> VerdictMeans
    BY <2>1, TableKept DEF VerdictMeans
  <2> QED
    BY <2>2, <2>3, <2>4, <2>5 DEF MeaningInv
<1> QED
  BY <1>1, <1>2, <1>3, <1>4, <1>5, <1>6, <1>7, <1>8, <1>9, <1>10, <1>11, <1>12, <1>13,
     <1>14 DEF Next

\* Within the limits, the verdict is what the sender's record means, for every zone,
\* every client and every limit: no include, redirect, macro or early return of
\* check() and evaluateMechanism makes it anything else (spf.go: check,
\* evaluateMechanism).
THEOREM VerdictIsTheMeaning == Spec => []VerdictIsMeaning
<1>1. MeaningInv => VerdictIsMeaning
  BY DEF MeaningInv, VerdictMeans, VerdictIsMeaning, Meaning, Table
<1> QED
  BY <1>1, InitMeans, MeaningInductive, Invariance, PTL DEF Spec
=============================================================================
