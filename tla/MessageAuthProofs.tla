------------------------- MODULE MessageAuthProofs -------------------------
(***************************************************************************)
(* Proofs about MessageAuth, for any domains, signers, ways to sign, contents *)
(* of DNS and number of steps on the way: what the gateway calls             *)
(* authentic goes back to what an aligned domain signed, and a chain that      *)
(* passes to what each custodian sealed.                                     *)
(*                                                                         *)
(* A signature on the message may be older than any number of edits.         *)
(* SignaturesInv keeps, for each one made with the key of the domain it names, *)
(* the letter it was made of; ChainInv does so for the seals.  The rest is      *)
(* algebra: a verifier that rebuilds the input of a signature rebuilds what    *)
(* the signer saw.                                                          *)
(* What the headers report is what a loop over them has made (CombinedWeighs). *)
(***************************************************************************)
EXTENDS MessageAuth, FiniteSetTheorems, SequenceTheorems, WellFoundedInduction,
  TLAPS

Parts == {"text", "footer", "other"}

\* What a signature sees of a message.
IsLetter(m) == m.from \in Seq(Domain) /\ m.body \in Seq(Parts)

Ranging(q) == {q[i] : i \in DOMAIN q}
IsSequence(q) == q \in Seq(Ranging(q))

HasFields(m) ==
  m = [from |-> m.from, subject |-> m.subject, body |-> m.body, wrapped |-> m.wrapped,
       dkim |-> m.dkim, arc |-> m.arc, reports |-> m.reports, receivedSpf |-> m.receivedSpf]

IsMessage(m) ==
  /\ HasFields(m) /\ IsLetter(m) /\ m.body # <<>>
  /\ IsSequence(m.dkim) /\ IsSequence(m.arc)

\* A signature was made of some letter, with the key of the domain it names
\* only by its owner, who vouched for that letter.
Made(sig, owned) ==
  \E m, d, by, o :
    /\ IsLetter(m) /\ d \in Domain /\ o \in SignOptions
    /\ sig = SignatureBy(m, d, by, o)
    /\ by = d => Covered(m, d, o) \in owned

IsArcSet(set) ==
  /\ set = [d |-> set.d, by |-> set.by, aar |-> set.aar, ams |-> set.ams, cv |-> set.cv,
            alg |-> set.alg, over |-> set.over, fields |-> set.fields]
  /\ set.d \in Domain /\ set.fields \in {"whole", "missing", "twice"}

\* What a custodian sealed: the chain up to its own set, and the letter.
Custody(s) ==
  /\ IsSequence(s.arc) /\ s.arc # <<>>
  /\ LET k == Len(s.arc)
         top == s.arc[k]
     IN  /\ IsArcSet(top) /\ top.by = top.d /\ top.fields = "whole"
         /\ top.over = buildARCSealInput(s.arc, k)
         /\ \E m, o : /\ IsLetter(m) /\ o \in SignOptions
                      /\ top.ams = SignatureBy(m, top.d, top.d, o)
                      /\ s.saw = Covered(m, top.d, o)

\* A seal made with the key of its domain goes back to what that domain sealed.
Kept(set, owned) ==
  IsArcSet(set) /\ (set.by = set.d => \E s \in owned : set.over = s.arc[Len(s.arc)].over)

TransitInv ==
  /\ phase \in {"compose", "transit", "verified"} /\ edits \in 0..MaxEdits
  /\ IsMessage(msg)
  /\ phase = "compose" => Len(msg.from) = 1

AllMade(signatures, owned) == \A i \in DOMAIN signatures : Made(signatures[i], owned)
AllKept(sets, owned) == \A i \in DOMAIN sets : Kept(sets[i], owned)

SignaturesInv == AllMade(msg.dkim, vouched)
ChainInv == AllKept(msg.arc, sealed) /\ \A s \in sealed : Custody(s)

VerdictInv == phase = "verified" => \E dns \in Dns : verdict = Result(msg, dns.spf, dns)

IInv == TransitInv /\ SignaturesInv /\ ChainInv /\ VerdictInv

-----------------------------------------------------------------------------
(***************************************************************************)
(* Sequences.                                                               *)
(***************************************************************************)
LEMMA SequenceDomain ==
  ASSUME NEW q, IsSequence(q)
  PROVE  /\ Len(q) \in Nat /\ DOMAIN q = 1..Len(q)
         /\ q # <<>> => Len(q) \in Nat \ {0} /\ Len(q) \in 1..Len(q) /\ 1 \in 1..Len(q)
<1>1. q \in Seq(Ranging(q))
  BY DEF IsSequence
<1>2. Len(q) \in Nat /\ DOMAIN q = 1..Len(q)
  BY <1>1, LenProperties
<1>3. q # <<>> => Len(q) # 0
  BY <1>1, EmptySeq
<1> QED
  BY <1>2, <1>3

LEMMA TypedSequence ==
  ASSUME NEW S, NEW q \in Seq(S)
  PROVE  IsSequence(q)
<1>1. Len(q) \in Nat /\ q \in [1..Len(q) -> S] /\ DOMAIN q = 1..Len(q)
  BY LenProperties
<1>2. q \in [1..Len(q) -> Ranging(q)]
  BY <1>1 DEF Ranging
<1>3. q \in Seq(Ranging(q))
  BY <1>1, <1>2, SeqDef
<1> QED
  BY <1>3 DEF IsSequence

\* The first elements of a sequence.
LEMMA FirstElements ==
  ASSUME NEW S, NEW q \in Seq(S), NEW n \in 0..Len(q)
  PROVE  /\ SubSeq(q, 1, n) \in Seq(S) /\ Len(SubSeq(q, 1, n)) = n
         /\ DOMAIN SubSeq(q, 1, n) = 1..n
         /\ \A i \in 1..n : SubSeq(q, 1, n)[i] = q[i]
         /\ n = Len(q) => SubSeq(q, 1, n) = q
<1>1. Len(q) \in Nat /\ n \in Int /\ 1 \in Int /\ q \in [1..Len(q) -> S]
  BY LenProperties
<1>2. \A i \in 1..n : i \in 1..Len(q) /\ q[i] \in S
  BY <1>1, ElementOfSeq
<1>3. /\ SubSeq(q, 1, n) \in Seq(S)
      /\ Len(SubSeq(q, 1, n)) = IF 1 <= n THEN n - 1 + 1 ELSE 0
      /\ \A i \in 1..(n - 1 + 1) : SubSeq(q, 1, n)[i] = q[1 + i - 1]
  BY <1>1, <1>2, SubSeqProperties
<1>4. Len(SubSeq(q, 1, n)) = n
  BY <1>1, <1>3
<1>5. DOMAIN SubSeq(q, 1, n) = 1..n
  BY <1>3, <1>4, LenProperties
<1>6. \A i \in 1..n : SubSeq(q, 1, n)[i] = q[i]
  BY <1>1, <1>3
<1>7. ASSUME n = Len(q) PROVE SubSeq(q, 1, n) = q
  BY <1>1, <1>3, <1>4, <1>6, <1>7, SeqEqual
<1> QED
  BY <1>3, <1>4, <1>5, <1>6, <1>7
-----------------------------------------------------------------------------
(***************************************************************************)
(* What a verified signature says of the letter it was made of.             *)
(***************************************************************************)
LEMMA OptionTyped ==
  ASSUME NEW o \in SignOptions
  PROVE  o.h \in Seq(SignedNames) /\ o.l \in Nat /\ o.relaxed \in BOOLEAN /\ o.expired \in BOOLEAN
  BY MessageAuthAssumption DEF MessageAuthAssumption

LEMMA Canonical ==
  ASSUME NEW m, NEW n, NEW relaxed, NEW x, NEW y
  PROVE  /\ canonicalize(m, relaxed, x) = canonicalize(n, relaxed, y) => x = y
         /\ canonicalize(m, relaxed, x) # <<>>
<1>1. CASE relaxed
  BY <1>1 DEF canonicalize
<1>2. CASE ~relaxed
  BY <1>2 DEF canonicalize
<1> QED
  BY <1>1, <1>2

LEMMA Least ==
  ASSUME NEW T \in SUBSET Nat, T # {}
  PROVE  \E i \in T : \A j \in T : i <= j
<1> DEFINE R == OpToRel(<, Nat)
<1>1. PICK i \in T : \A j \in T : ~(<<j, i>> \in R)
  <2> HIDE DEF R
  <2> QED
    BY NatLessThanWellFounded, WFMin DEF R
<1>2. \A j \in T : ~(j < i)
  BY <1>1 DEF OpToRel
<1> QED
  BY <1>2

\* The first name of a list that is "from".
LEMMA FirstFrom ==
  ASSUME NEW h \in Seq(SignedNames), NEW k \in DOMAIN h, h[k] = "from"
  PROVE  \E i \in DOMAIN h : h[i] = "from" /\ \A j \in 1..i : h[j] = "from" => j = i
<1> DEFINE T == {i \in DOMAIN h : h[i] = "from"}
<1>1. DOMAIN h = 1..Len(h) /\ Len(h) \in Nat
  BY LenProperties
<1>2. T \in SUBSET Nat /\ T # {}
  BY <1>1
<1>3. PICK i \in T : \A j \in T : i <= j
  <2> HIDE DEF T
  <2> QED
    BY <1>2, Least
<1>4. i \in 1..Len(h) /\ h[i] = "from"
  BY <1>1
<1>5. ASSUME NEW j \in 1..i, h[j] = "from" PROVE j = i
  <2>1. j \in 1..Len(h) /\ j <= i
    BY <1>1, <1>4
  <2>2. i <= j
    BY <1>1, <1>3, <1>5, <2>1
  <2> QED
    BY <1>4, <2>1, <2>2
<1> QED
  BY <1>1, <1>4, <1>5

\* It signs the last From field.
LEMMA FromField ==
  ASSUME NEW m, m.from \in Seq(Domain), NEW h \in Seq(SignedNames), NEW relaxed, NEW i \in DOMAIN h,
         h[i] = "from", \A j \in 1..i : h[j] = "from" => j = i
  PROVE  buildSignedHeaderInput(m, h, relaxed)[i]
           = IF m.from = <<>> THEN <<>> ELSE canonicalize(m, relaxed, Last(m.from))
<1>1. i \in Nat /\ i \in 1..i /\ Len(m.from) \in Nat /\ (m.from = <<>> <=> Len(m.from) = 0)
  <2>1. DOMAIN h = 1..Len(h) /\ Len(h) \in Nat
    BY LenProperties
  <2> QED
    BY <2>1, LenProperties, EmptySeq
<1>2. {j \in 1..i : h[j] = h[i]} = {i}
  BY <1>1
<1>3. Cardinality({j \in 1..i : h[j] = h[i]}) = 1
  BY <1>2, FS_Singleton
<1> DEFINE values == [from |-> m.from, subject |-> <<m.subject>>, auth |-> m.reports]
           Uses(a) == Cardinality({j \in 1..a : h[j] = h[a]})
           Field(a) == LET have == values[h[a]]
                       IN  IF Uses(a) > Len(have) THEN <<>>
                           ELSE canonicalize(m, relaxed, have[Len(have) + 1 - Uses(a)])
<1>4. buildSignedHeaderInput(m, h, relaxed) = [a \in DOMAIN h |-> Field(a)]
  BY DEF buildSignedHeaderInput
<1>5. values["from"] = m.from /\ Uses(i) = 1
  BY <1>3
<1>6. Field(i) = IF 1 > Len(m.from) THEN <<>> ELSE canonicalize(m, relaxed, m.from[Len(m.from) + 1 - 1])
  BY <1>5
<1>7. Len(m.from) + 1 - 1 = Len(m.from) /\ (1 > Len(m.from) <=> m.from = <<>>)
  BY <1>1
<1> HIDE DEF Field
<1> QED
  BY <1>4, <1>6, <1>7 DEF Last

\* The part of the body that is signed.
LEMMA SignedPart ==
  ASSUME NEW q \in Seq(Parts), NEW n \in Nat
  PROVE  /\ upTo(q, n) \in Seq(Parts) /\ IsPrefix(upTo(q, n), q)
         /\ ~(n < Len(q)) => upTo(q, n) = q
<1> DEFINE k == IF n < Len(q) THEN n ELSE Len(q)
<1>1. Len(q) \in Nat
  BY LenProperties
<1>2. k \in 0..Len(q) /\ (~(n < Len(q)) => k = Len(q))
  BY <1>1
<1>3. upTo(q, n) = SubSeq(q, 1, k)
  BY DEF upTo
<1> HIDE DEF k
<1>4. /\ SubSeq(q, 1, k) \in Seq(Parts) /\ Len(SubSeq(q, 1, k)) = k
      /\ k = Len(q) => SubSeq(q, 1, k) = q
  BY <1>2, FirstElements
<1>5. \A s \in Seq(Parts) : Len(s) = k => SubSeq(s, 1, k) = s
  BY <1>1, <1>2, FirstElements
<1>6. k <= Len(q)
  BY <1>1, <1>2
<1> QED
  BY <1>2, <1>3, <1>4, <1>5, <1>6 DEF IsPrefix

\* Verification passes only when the input is rebuilt as it was signed.
LEMMA PassMeans ==
  ASSUME NEW n, NEW sig, NEW keys, verifyOneMessageSignature(n, sig, keys) = "pass"
  PROVE  /\ tagError(sig.tags) = ""
         /\ sig.bh = canonicalBody(n, sig.tags.relaxed, sig.tags.l)
         /\ sig.by = sig.d /\ sig.over = buildSignedHeaderInput(n, sig.tags.h, sig.tags.relaxed)
<1>1. tagError(sig.tags) # "pass"
  BY DEF tagError
<1> QED
  BY <1>1 DEF verifyOneMessageSignature

\* The verifier shows a From, and a body that begins, as the signer saw them.
LEMMA SignatureSound ==
  ASSUME NEW m, NEW n, IsLetter(m), IsLetter(n), NEW d, NEW by, NEW o \in SignOptions, NEW keys,
         n.from # <<>>, verifyOneMessageSignature(n, SignatureBy(m, d, by, o), keys) = "pass"
  PROVE  /\ by = d /\ Covered(m, d, o).d = d
         /\ Covered(m, d, o).from = Last(n.from)
         /\ IsPrefix(Covered(m, d, o).body, n.body)
         /\ ~BodyTruncated(n, SignatureBy(m, d, by, o)) => Covered(m, d, o).body = n.body
<1> DEFINE sig == SignatureBy(m, d, by, o)
<1>1. /\ sig.d = d /\ sig.by = by /\ sig.tags = o /\ sig.bh = canonicalBody(m, o.relaxed, o.l)
      /\ sig.over = buildSignedHeaderInput(m, o.h, o.relaxed)
  BY DEF SignatureBy
<1> HIDE DEF sig
<1>2. /\ tagError(o) = "" /\ sig.by = sig.d
      /\ canonicalBody(m, o.relaxed, o.l) = canonicalBody(n, o.relaxed, o.l)
      /\ buildSignedHeaderInput(m, o.h, o.relaxed) = buildSignedHeaderInput(n, o.h, o.relaxed)
  BY <1>1, PassMeans DEF sig
<1>3. /\ o.h \in Seq(SignedNames) /\ o.l \in Nat /\ m.from \in Seq(Domain) /\ n.from \in Seq(Domain)
      /\ n.body \in Seq(Parts) /\ m.body \in Seq(Parts)
  BY OptionTyped DEF IsLetter
<1>4. upTo(m.body, o.l) = upTo(n.body, o.l)
  BY <1>2, Canonical DEF canonicalBody
<1>5. m.from # <<>> /\ Last(m.from) = Last(n.from)
  <2>1. \E i \in DOMAIN o.h : o.h[i] = "from"
    BY <1>2 DEF tagError
  <2>2. PICK i \in DOMAIN o.h : o.h[i] = "from" /\ \A j \in 1..i : o.h[j] = "from" => j = i
    BY <1>3, <2>1, FirstFrom
  <2>3. /\ buildSignedHeaderInput(m, o.h, o.relaxed)[i]
             = (IF m.from = <<>> THEN <<>> ELSE canonicalize(m, o.relaxed, Last(m.from)))
        /\ buildSignedHeaderInput(n, o.h, o.relaxed)[i] = canonicalize(n, o.relaxed, Last(n.from))
    BY <1>3, <2>2, FromField
  <2> QED
    BY <1>2, <2>3, Canonical
<1>6. Covered(m, d, o).d = d /\ Covered(m, d, o).body = upTo(n.body, o.l)
      /\ Covered(m, d, o).from = Last(n.from)
  BY <1>4, <1>5 DEF Covered
<1>7. ~BodyTruncated(n, sig) => ~(o.l < Len(n.body))
  BY <1>1, <1>2 DEF BodyTruncated
<1> QED
  BY <1>1, <1>2, <1>3, <1>6, <1>7, SignedPart DEF sig
-----------------------------------------------------------------------------
(***************************************************************************)
(* Edits of a message and of its lists.                                     *)
(***************************************************************************)
Reads(n, from, body, dkim, arc) ==
  HasFields(n) /\ n.from = from /\ n.body = body /\ n.dkim = dkim /\ n.arc = arc

LEMMA FieldEdits ==
  ASSUME NEW m, HasFields(m), NEW x
  PROVE  /\ Reads([m EXCEPT !.from = x], x, m.body, m.dkim, m.arc)
         /\ Reads([m EXCEPT !.body = x], m.from, x, m.dkim, m.arc)
         /\ Reads([m EXCEPT !.dkim = x], m.from, m.body, x, m.arc)
         /\ Reads([m EXCEPT !.arc = x], m.from, m.body, m.dkim, x)
         /\ Reads([m EXCEPT !.subject = x], m.from, m.body, m.dkim, m.arc)
         /\ Reads([m EXCEPT !.wrapped = x], m.from, m.body, m.dkim, m.arc)
  BY DEF HasFields, Reads

\* What is put on top of a list, or at its end.
LEMMA Prepended ==
  ASSUME NEW q, IsSequence(q), NEW x
  PROVE  /\ IsSequence(<<x>> \o q)
         /\ \A i \in DOMAIN (<<x>> \o q) :
              (<<x>> \o q)[i] = x \/ \E j \in DOMAIN q : (<<x>> \o q)[i] = q[j]
<1> DEFINE S == Ranging(q) \union {x}
           r == <<x>> \o q
<1>1. q \in Seq(Ranging(q)) /\ <<x>> \in Seq(S) /\ Len(<<x>>) = 1 /\ <<x>>[1] = x
  BY DEF IsSequence
<1>2. q \in Seq(S)
  BY <1>1, SeqMonotonic
<1>3. r \in Seq(S)
  BY <1>1, <1>2, ConcatProperties
<1>4. IsSequence(r) /\ \A i \in DOMAIN r : r[i] \in S
  BY <1>3, TypedSequence, ElementOfSeq, LenProperties
<1>5. \A y \in S : y = x \/ \E j \in DOMAIN q : y = q[j]
  BY DEF Ranging
<1> HIDE DEF S, r
<1>6. \A i \in DOMAIN r : r[i] = x \/ \E j \in DOMAIN q : r[i] = q[j]
  BY <1>4, <1>5
<1> QED
  BY <1>4, <1>6 DEF r

LEMMA Appended ==
  ASSUME NEW q, IsSequence(q), NEW x
  PROVE  /\ IsSequence(Append(q, x)) /\ Append(q, x) # <<>> /\ Len(Append(q, x)) = Len(q) + 1
         /\ Append(q, x)[Len(q) + 1] = x /\ \A i \in DOMAIN q : Append(q, x)[i] = q[i]
         /\ SubSeq(Append(q, x), 1, Len(q)) = q
         /\ \A i \in DOMAIN Append(q, x) : i = Len(q) + 1 \/ i \in DOMAIN q
<1> DEFINE S == Ranging(q) \union {x}
<1>1. q \in Seq(Ranging(q)) /\ x \in S
  BY DEF IsSequence
<1>2. q \in Seq(S)
  BY <1>1, SeqMonotonic
<1> HIDE DEF S
<1>3. /\ Append(q, x) \in Seq(S) /\ Append(q, x) # <<>> /\ Len(Append(q, x)) = Len(q) + 1
      /\ \A i \in 1..Len(q) : Append(q, x)[i] = q[i]
      /\ Append(q, x)[Len(q) + 1] = x
  BY <1>1, <1>2, AppendProperties
<1>4. IsSequence(Append(q, x))
  BY <1>3, TypedSequence
<1>5. Len(q) \in Nat /\ DOMAIN q = 1..Len(q) /\ DOMAIN Append(q, x) = 1..Len(q) + 1
  BY <1>2, <1>3, LenProperties
<1>6. SubSeq(Append(q, x), 1, Len(q)) = q
  <2>1. Len(q) \in 0..Len(Append(q, x))
    BY <1>3, <1>5
  <2>2. /\ SubSeq(Append(q, x), 1, Len(q)) \in Seq(S)
        /\ Len(SubSeq(Append(q, x), 1, Len(q))) = Len(q)
        /\ \A i \in 1..Len(q) : SubSeq(Append(q, x), 1, Len(q))[i] = Append(q, x)[i]
    BY <1>3, <2>1, FirstElements
  <2> QED
    BY <1>2, <1>3, <2>2, SeqEqual
<1>7. \A i \in DOMAIN Append(q, x) : i = Len(q) + 1 \/ i \in DOMAIN q
  BY <1>5
<1> QED
  BY <1>3, <1>4, <1>5, <1>6, <1>7

\* What is left without the first or the last element.
LEMMA Shortened ==
  ASSUME NEW S, NEW q \in Seq(S), q # <<>>
  PROVE  /\ Tail(q) \in Seq(S) /\ Front(q) \in Seq(S)
         /\ \A i \in DOMAIN Tail(q) : \E j \in DOMAIN q : Tail(q)[i] = q[j]
         /\ \A i \in DOMAIN Front(q) : \E j \in DOMAIN q : Front(q)[i] = q[j]
<1>1. Len(q) \in Nat \ {0} /\ DOMAIN q = 1..Len(q)
  BY EmptySeq, LenProperties
<1>2. /\ Tail(q) \in Seq(S) /\ Len(Tail(q)) = Len(q) - 1
      /\ \A i \in 1..Len(Tail(q)) : Tail(q)[i] = q[i + 1]
  BY HeadTailProperties
<1>3. DOMAIN Tail(q) = 1..Len(q) - 1
  BY <1>2, LenProperties
<1>4. \A i \in 1..Len(q) - 1 : i + 1 \in DOMAIN q /\ i \in DOMAIN q
  BY <1>1
<1>5. Len(q) - 1 \in 0..Len(q)
  BY <1>1
<1>6. Front(q) = SubSeq(q, 1, Len(q) - 1)
  BY DEF Front
<1>7. /\ Front(q) \in Seq(S) /\ DOMAIN Front(q) = 1..Len(q) - 1
      /\ \A i \in 1..Len(q) - 1 : Front(q)[i] = q[i]
  BY <1>5, <1>6, FirstElements
<1>8. \A i \in DOMAIN Tail(q) : \E j \in DOMAIN q : Tail(q)[i] = q[j]
  BY <1>2, <1>3, <1>4
<1>9. \A i \in DOMAIN Front(q) : \E j \in DOMAIN q : Front(q)[i] = q[j]
  BY <1>4, <1>7
<1> QED
  BY <1>2, <1>7, <1>8, <1>9

LEMMA Replaced ==
  ASSUME NEW q, IsSequence(q), NEW k \in DOMAIN q, NEW x
  PROVE  LET r == [q EXCEPT ![k] = x]
         IN  /\ IsSequence(r) /\ DOMAIN r = DOMAIN q /\ r[k] = x
             /\ \A i \in DOMAIN q : i # k => r[i] = q[i]
<1> DEFINE S == Ranging(q) \union {x}
           r == [q EXCEPT ![k] = x]
<1>1. q \in Seq(Ranging(q)) /\ x \in S
  BY DEF IsSequence
<1>2. q \in Seq(S)
  BY <1>1, SeqMonotonic
<1>3. Len(q) \in Nat /\ q \in [1..Len(q) -> S] /\ DOMAIN q = 1..Len(q)
  BY <1>2, LenProperties
<1> HIDE DEF S
<1>4. r \in [1..Len(q) -> S]
  BY <1>1, <1>3
<1>5. r \in Seq(S)
  BY <1>3, <1>4, SeqDef
<1>6. IsSequence(r)
  BY <1>5, TypedSequence
<1>7. DOMAIN r = DOMAIN q /\ r[k] = x /\ \A i \in DOMAIN q : i # k => r[i] = q[i]
  OBVIOUS
<1> QED
  BY <1>6, <1>7
-----------------------------------------------------------------------------
(***************************************************************************)
(* What one owner vouched for or sealed stays so.                           *)
(***************************************************************************)
LEMMA MadeStays ==
  ASSUME NEW sig, NEW owned, NEW more, owned \subseteq more, Made(sig, owned)
  PROVE  Made(sig, more)
<1>1. PICK m, d, by, o :
        /\ IsLetter(m) /\ d \in Domain /\ o \in SignOptions
        /\ sig = SignatureBy(m, d, by, o)
        /\ by = d => Covered(m, d, o) \in owned
  BY DEF Made
<1>2. by = d => Covered(m, d, o) \in more
  BY <1>1
<1> QED
  BY <1>1, <1>2 DEF Made

LEMMA AllStay ==
  ASSUME NEW q, NEW owned, NEW more, owned \subseteq more
  PROVE  /\ AllMade(q, owned) => AllMade(q, more)
         /\ AllKept(q, owned) => AllKept(q, more)
<1>1. AllMade(q, owned) => AllMade(q, more)
  BY MadeStays DEF AllMade
<1>2. AllKept(q, owned) => AllKept(q, more)
  BY DEF AllKept, Kept
<1> QED
  BY <1>1, <1>2

\* The author is the message's only From field, and one of the domains.
LEMMA LetterFrom ==
  ASSUME NEW m, m.from \in Seq(Domain), m.from # <<>>
  PROVE  /\ Len(m.from) \in Nat \ {0} /\ m.from[1] \in Domain /\ fromDomain(m) = m.from[1]
         /\ Len(m.from) <= 1 => /\ Last(m.from) = m.from[1] /\ m.from = <<m.from[1]>>
                                /\ Len(m.from) = 1
<1>1. Len(m.from) \in Nat \ {0}
  BY LenProperties, EmptySeq
<1>2. m.from[1] \in Domain
  BY <1>1, ElementOfSeq
<1>3. ASSUME Len(m.from) <= 1 PROVE Len(m.from) = 1 /\ m.from = <<m.from[1]>>
  <2>1. Len(m.from) = 1
    <3>1. \A n \in Nat \ {0} : n <= 1 => n = 1
      OBVIOUS
    <3> QED
      BY <1>1, <1>3, <3>1
  <2>2. /\ <<m.from[1]>> \in Seq(Domain) /\ Len(<<m.from[1]>>) = 1
        /\ \A i \in 1..1 : <<m.from[1]>>[i] = m.from[i]
    BY <1>2
  <2>3. m.from = <<m.from[1]>>
    BY <2>1, <2>2, SeqEqual
  <2> QED
    BY <2>1, <2>3
<1> QED
  BY <1>1, <1>2, <1>3 DEF Last, fromDomain
-----------------------------------------------------------------------------
(***************************************************************************)
(* The steps.                                                               *)
(***************************************************************************)
LEMMA SignatureMade ==
  ASSUME NEW m, IsLetter(m), NEW d \in Domain, NEW by \in {d, NoDomain}, NEW o \in SignOptions,
         NEW owned
  PROVE  Made(SignatureBy(m, d, by, o), IF by = d THEN owned \union {Covered(m, d, o)} ELSE owned)
<1> DEFINE more == IF by = d THEN owned \union {Covered(m, d, o)} ELSE owned
<1>1. by = d => Covered(m, d, o) \in more
  OBVIOUS
<1> HIDE DEF more
<1>2. Made(SignatureBy(m, d, by, o), more)
  BY <1>1 DEF Made
<1> QED
  BY <1>2 DEF more

LEMMA AddSignatureStep ==
  ASSUME IInv, NEW d \in Domain, NEW by \in {d, NoDomain}, NEW o \in SignOptions,
         AddSignature(d, by, o)
  PROVE  IsMessage(msg)' /\ SignaturesInv' /\ ChainInv'
<1> DEFINE sig == SignatureBy(msg, d, by, o)
           list == <<sig>> \o msg.dkim
           more == IF by = d THEN vouched \union {Covered(msg, d, o)} ELSE vouched
<1>1. /\ msg' = [msg EXCEPT !.dkim = list] /\ vouched' = more /\ sealed' = sealed
  BY DEF AddSignature
<1>2. IsMessage(msg) /\ AllMade(msg.dkim, vouched) /\ ChainInv
  BY DEF IInv, TransitInv, SignaturesInv
<1>3. Made(sig, more)
  BY <1>2, SignatureMade DEF IsMessage
<1>4. vouched \subseteq more
  OBVIOUS
<1> HIDE DEF sig, more
<1>5. AllMade(msg.dkim, more)
  BY <1>2, <1>4, AllStay
<1>6. /\ IsSequence(list)
      /\ \A i \in DOMAIN list : list[i] = sig \/ \E j \in DOMAIN msg.dkim : list[i] = msg.dkim[j]
  BY <1>2, Prepended DEF IsMessage
<1> HIDE DEF list
<1>7. AllMade(list, more)
  BY <1>3, <1>5, <1>6 DEF AllMade
<1>8. Reads(msg', msg.from, msg.body, list, msg.arc)
  BY <1>1, <1>2, FieldEdits DEF IsMessage
<1>9. IsMessage(msg') /\ AllMade(msg'.dkim, vouched') /\ AllKept(msg'.arc, sealed')
  BY <1>1, <1>2, <1>6, <1>7, <1>8 DEF IsMessage, IsLetter, ChainInv, Reads
<1> QED
  BY <1>1, <1>2, <1>9 DEF SignaturesInv, ChainInv

\* An edit of the message that keeps its fields, and whose signatures and sets
\* are those of some owner still.
LEMMA RewriteStep ==
  ASSUME IInv, NEW n, Rewrite(n), IsMessage(n), AllMade(n.dkim, vouched), AllKept(n.arc, sealed)
  PROVE  IInv'
<1>1. /\ phase = "transit" /\ phase' = phase /\ edits < MaxEdits /\ edits' = edits + 1 /\ msg' = n
      /\ vouched' = vouched /\ sealed' = sealed
  BY DEF Rewrite, Edit
<1>2. edits' \in 0..MaxEdits
  BY <1>1, MessageAuthAssumption DEF MessageAuthAssumption, IInv, TransitInv
<1>3. TransitInv'
  BY <1>1, <1>2 DEF TransitInv
<1>4. SignaturesInv' /\ ChainInv'
  BY <1>1 DEF IInv, SignaturesInv, ChainInv
<1>5. VerdictInv'
  BY <1>1 DEF VerdictInv
<1> QED
  BY <1>3, <1>4, <1>5 DEF IInv

LEMMA SubmitStep ==
  ASSUME IInv, Submit
  PROVE  IInv'
<1>1. /\ phase = "compose" /\ phase' = "transit" /\ edits' = edits /\ IsMessage(msg)
      /\ Len(msg.from) = 1 /\ edits \in 0..MaxEdits
  BY DEF Submit, IInv, TransitInv
<1>2. msg.from[1] \in Domain
  <2>1. msg.from \in Seq(Domain)
    BY <1>1 DEF IsMessage, IsLetter
  <2> QED
    BY <1>1, <2>1, ElementOfSeq
<1>3. VerdictInv'
  BY <1>1 DEF VerdictInv
<1>4. ASSUME NEW o \in SignOptions, AddSignature(msg.from[1], msg.from[1], o) PROVE IInv'
  <2>1. IsMessage(msg)' /\ SignaturesInv' /\ ChainInv'
    BY <1>2, <1>4, AddSignatureStep
  <2> QED
    BY <1>1, <1>3, <2>1 DEF IInv, TransitInv
<1>5. ASSUME UNCHANGED <<msg, vouched, sealed, verdict, reported>> PROVE IInv'
  <2>1. IsMessage(msg') /\ SignaturesInv' /\ ChainInv'
    BY <1>1, <1>5 DEF IInv, SignaturesInv, ChainInv
  <2> QED
    BY <1>1, <1>3, <2>1 DEF IInv, TransitInv
<1> QED
  BY <1>4, <1>5 DEF Submit

LEMMA SignStep ==
  ASSUME IInv, NEW d \in Signers, NEW by \in {d, NoDomain}, NEW o \in SignOptions,
         Edit, AddSignature(d, by, o)
  PROVE  IInv'
<1>1. phase' = "transit" /\ edits < MaxEdits /\ edits' = edits + 1
  BY DEF Edit
<1>2. edits' \in 0..MaxEdits
  BY <1>1, MessageAuthAssumption DEF MessageAuthAssumption, IInv, TransitInv
<1>3. d \in Domain
  BY MessageAuthAssumption DEF MessageAuthAssumption
<1>4. IsMessage(msg)' /\ SignaturesInv' /\ ChainInv'
  BY <1>3, AddSignatureStep
<1>5. VerdictInv'
  BY <1>1 DEF VerdictInv
<1> QED
  BY <1>1, <1>2, <1>4, <1>5 DEF IInv, TransitInv

LEMMA AddFromStep ==
  ASSUME IInv, NEW d \in Domain, AddFrom(d)
  PROVE  IInv'
<1>1. IsMessage(msg) /\ msg.from \in Seq(Domain) /\ msg.body \in Seq(Parts)
      /\ AllMade(msg.dkim, vouched) /\ AllKept(msg.arc, sealed)
  BY DEF IInv, TransitInv, SignaturesInv, ChainInv, IsMessage, IsLetter
<1>2. <<d>> \o msg.from \in Seq(Domain) /\ Append(msg.from, d) \in Seq(Domain)
  <2>1. <<d>> \in Seq(Domain)
    OBVIOUS
  <2> QED
    BY <1>1, <2>1, ConcatProperties, AppendProperties
<1>3. ASSUME NEW x \in Seq(Domain), Rewrite([msg EXCEPT !.from = x]) PROVE IInv'
  <2> DEFINE n == [msg EXCEPT !.from = x]
  <2>1. Reads(n, x, msg.body, msg.dkim, msg.arc)
    BY <1>1, FieldEdits DEF IsMessage
  <2>2. Rewrite(n)
    BY <1>3
  <2> HIDE DEF n
  <2>3. IsMessage(n) /\ AllMade(n.dkim, vouched) /\ AllKept(n.arc, sealed)
    BY <1>1, <2>1 DEF IsMessage, IsLetter, Reads
  <2> QED
    BY <2>2, <2>3, RewriteStep
<1> QED
  BY <1>2, <1>3 DEF AddFrom

LEMMA ChangeHeaderStep ==
  ASSUME IInv, ChangeHeader
  PROVE  IInv'
<1>1. IsMessage(msg) /\ HasFields(msg) /\ msg.from \in Seq(Domain) /\ msg.body \in Seq(Parts)
      /\ AllMade(msg.dkim, vouched) /\ AllKept(msg.arc, sealed)
  BY DEF IInv, TransitInv, SignaturesInv, ChainInv, IsMessage, IsLetter
<1>2. CASE Rewrite([msg EXCEPT !.subject = "changed"])
  <2> DEFINE n == [msg EXCEPT !.subject = "changed"]
  <2>1. Reads(n, msg.from, msg.body, msg.dkim, msg.arc)
    BY <1>1, FieldEdits
  <2>2. Rewrite(n)
    BY <1>2
  <2> HIDE DEF n
  <2>3. IsMessage(n) /\ AllMade(n.dkim, vouched) /\ AllKept(n.arc, sealed)
    BY <1>1, <2>1 DEF IsMessage, IsLetter, Reads
  <2> QED
    BY <2>2, <2>3, RewriteStep
<1>3. CASE msg.from # <<>> /\ Rewrite([msg EXCEPT !.from = Tail(@)])
  <2> DEFINE n == [msg EXCEPT !.from = Tail(msg.from)]
  <2>1. Reads(n, Tail(msg.from), msg.body, msg.dkim, msg.arc)
    BY <1>1, FieldEdits
  <2>2. Rewrite(n)
    BY <1>3
  <2>3. Tail(msg.from) \in Seq(Domain)
    BY <1>1, <1>3, Shortened
  <2> HIDE DEF n
  <2>4. IsMessage(n) /\ AllMade(n.dkim, vouched) /\ AllKept(n.arc, sealed)
    BY <1>1, <2>1, <2>3 DEF IsMessage, IsLetter, Reads
  <2> QED
    BY <2>2, <2>4, RewriteStep
<1>4. CASE msg.dkim # <<>> /\ Rewrite([msg EXCEPT !.dkim = Tail(@)])
  <2> DEFINE n == [msg EXCEPT !.dkim = Tail(msg.dkim)]
  <2>1. Reads(n, msg.from, msg.body, Tail(msg.dkim), msg.arc)
    BY <1>1, FieldEdits
  <2>2. Rewrite(n)
    BY <1>4
  <2> HIDE DEF n
  <2>3. msg.dkim \in Seq(Ranging(msg.dkim))
    BY <1>1 DEF IsMessage, IsSequence
  <2>4. /\ Tail(msg.dkim) \in Seq(Ranging(msg.dkim))
        /\ \A i \in DOMAIN Tail(msg.dkim) : \E j \in DOMAIN msg.dkim : Tail(msg.dkim)[i] = msg.dkim[j]
    BY <1>4, <2>3, Shortened
  <2>5. IsSequence(Tail(msg.dkim)) /\ AllMade(Tail(msg.dkim), vouched)
    BY <1>1, <2>4, TypedSequence DEF AllMade
  <2>6. IsMessage(n) /\ AllMade(n.dkim, vouched) /\ AllKept(n.arc, sealed)
    BY <1>1, <2>1, <2>5 DEF IsMessage, IsLetter, Reads
  <2> QED
    BY <2>2, <2>6, RewriteStep
<1> QED
  BY <1>2, <1>3, <1>4 DEF ChangeHeader

LEMMA ChangeBodyStep ==
  ASSUME IInv, ChangeBody
  PROVE  IInv'
<1>1. IsMessage(msg) /\ HasFields(msg) /\ msg.from \in Seq(Domain) /\ msg.body \in Seq(Parts)
      /\ msg.body # <<>> /\ AllMade(msg.dkim, vouched) /\ AllKept(msg.arc, sealed)
  BY DEF IInv, TransitInv, SignaturesInv, ChainInv, IsMessage, IsLetter
<1>2. ASSUME NEW x \in Seq(Parts), x # <<>>, Rewrite([msg EXCEPT !.body = x]) PROVE IInv'
  <2> DEFINE n == [msg EXCEPT !.body = x]
  <2>1. Reads(n, msg.from, x, msg.dkim, msg.arc)
    BY <1>1, FieldEdits
  <2>2. Rewrite(n)
    BY <1>2
  <2> HIDE DEF n
  <2>3. IsMessage(n) /\ AllMade(n.dkim, vouched) /\ AllKept(n.arc, sealed)
    BY <1>1, <1>2, <2>1 DEF IsMessage, IsLetter, Reads
  <2> QED
    BY <2>2, <2>3, RewriteStep
<1>3. CASE Rewrite([msg EXCEPT !.body = Append(@, "footer")])
  <2>1. "footer" \in Parts
    BY DEF Parts
  <2>2. Append(msg.body, "footer") \in Seq(Parts) /\ Append(msg.body, "footer") # <<>>
    BY <1>1, <2>1, AppendProperties
  <2> QED
    BY <1>2, <1>3, <2>2
<1>4. CASE Rewrite([msg EXCEPT !.body = <<"other">> \o Tail(@)])
  <2>1. <<"other">> \in Seq(Parts) /\ Len(<<"other">>) = 1
    BY DEF Parts
  <2>2. Tail(msg.body) \in Seq(Parts)
    BY <1>1, Shortened
  <2>3. /\ <<"other">> \o Tail(msg.body) \in Seq(Parts)
        /\ Len(<<"other">> \o Tail(msg.body)) = 1 + Len(Tail(msg.body))
    BY <2>1, <2>2, ConcatProperties
  <2>4. Len(Tail(msg.body)) \in Nat
    BY <2>2, LenProperties
  <2>5. <<"other">> \o Tail(msg.body) # <<>>
    BY <2>3, <2>4, EmptySeq
  <2> QED
    BY <1>2, <1>4, <2>3, <2>5
<1>5. CASE Rewrite([msg EXCEPT !.wrapped = TRUE])
  <2> DEFINE n == [msg EXCEPT !.wrapped = TRUE]
  <2>1. Reads(n, msg.from, msg.body, msg.dkim, msg.arc)
    BY <1>1, FieldEdits
  <2>2. Rewrite(n)
    BY <1>5
  <2> HIDE DEF n
  <2>3. IsMessage(n) /\ AllMade(n.dkim, vouched) /\ AllKept(n.arc, sealed)
    BY <1>1, <2>1 DEF IsMessage, IsLetter, Reads
  <2> QED
    BY <2>2, <2>3, RewriteStep
<1> QED
  BY <1>3, <1>4, <1>5 DEF ChangeBody

\* A set whose fields are damaged still names the seal it had.
LEMMA DamagedSet ==
  ASSUME NEW set, NEW owned, Kept(set, owned), NEW f \in {"whole", "missing", "twice"}, NEW x
  PROVE  Kept([set EXCEPT !.fields = f], owned) /\ Kept([set EXCEPT !.aar = x], owned)
<1>1. ASSUME NEW n, IsArcSet(n), n.d = set.d, n.by = set.by, n.over = set.over
      PROVE  Kept(n, owned)
  BY <1>1 DEF Kept
<1>2. IsArcSet(set)
  BY DEF Kept
<1>3. /\ IsArcSet([set EXCEPT !.fields = f])
      /\ [set EXCEPT !.fields = f].d = set.d /\ [set EXCEPT !.fields = f].by = set.by
      /\ [set EXCEPT !.fields = f].over = set.over
  BY <1>2 DEF IsArcSet
<1>4. /\ IsArcSet([set EXCEPT !.aar = x])
      /\ [set EXCEPT !.aar = x].d = set.d /\ [set EXCEPT !.aar = x].by = set.by
      /\ [set EXCEPT !.aar = x].over = set.over
  BY <1>2 DEF IsArcSet
<1> QED
  BY <1>1, <1>3, <1>4

LEMMA DamageChainStep ==
  ASSUME IInv, DamageChain
  PROVE  IInv'
<1>1. IsMessage(msg) /\ HasFields(msg) /\ msg.from \in Seq(Domain) /\ msg.body \in Seq(Parts)
      /\ IsSequence(msg.arc) /\ AllMade(msg.dkim, vouched) /\ AllKept(msg.arc, sealed)
  BY DEF IInv, TransitInv, SignaturesInv, ChainInv, IsMessage, IsLetter
<1>2. ASSUME NEW x, IsSequence(x), AllKept(x, sealed), Rewrite([msg EXCEPT !.arc = x])
      PROVE  IInv'
  <2> DEFINE n == [msg EXCEPT !.arc = x]
  <2>1. Reads(n, msg.from, msg.body, msg.dkim, x)
    BY <1>1, FieldEdits
  <2>2. Rewrite(n)
    BY <1>2
  <2> HIDE DEF n
  <2>3. IsMessage(n) /\ AllMade(n.dkim, vouched) /\ AllKept(n.arc, sealed)
    BY <1>1, <1>2, <2>1 DEF IsMessage, IsLetter, Reads
  <2> QED
    BY <2>2, <2>3, RewriteStep
<1>3. ASSUME NEW i \in DOMAIN msg.arc, NEW set, Kept(set, sealed),
             Rewrite([msg EXCEPT !.arc = [msg.arc EXCEPT ![i] = set]])
      PROVE  IInv'
  <2> DEFINE r == [msg.arc EXCEPT ![i] = set]
  <2>1. /\ IsSequence(r) /\ DOMAIN r = DOMAIN msg.arc /\ r[i] = set
        /\ \A j \in DOMAIN msg.arc : j # i => r[j] = msg.arc[j]
    BY <1>1, Replaced
  <2>2. Rewrite([msg EXCEPT !.arc = r])
    BY <1>3
  <2> HIDE DEF r
  <2>3. AllKept(r, sealed)
    BY <1>1, <1>3, <2>1 DEF AllKept
  <2> QED
    BY <1>2, <2>1, <2>2, <2>3
<1>4. ASSUME NEW i \in DOMAIN msg.arc, NEW f \in {"missing", "twice"},
             Rewrite([msg EXCEPT !.arc[i].fields = f])
      PROVE  IInv'
  <2>1. Kept([msg.arc[i] EXCEPT !.fields = f], sealed)
    BY <1>1, DamagedSet DEF AllKept
  <2>2. Rewrite([msg EXCEPT !.arc = [msg.arc EXCEPT ![i] = [msg.arc[i] EXCEPT !.fields = f]]])
    BY <1>4
  <2> QED
    BY <1>3, <2>1, <2>2
<1>5. ASSUME NEW i \in DOMAIN msg.arc, Rewrite([msg EXCEPT !.arc[i].aar.spf = "pass"])
      PROVE  IInv'
  <2> DEFINE found == [msg.arc[i].aar EXCEPT !.spf = "pass"]
  <2>1. Kept([msg.arc[i] EXCEPT !.aar = found], sealed)
    BY <1>1, DamagedSet DEF AllKept
  <2>2. Rewrite([msg EXCEPT !.arc = [msg.arc EXCEPT ![i] = [msg.arc[i] EXCEPT !.aar = found]]])
    BY <1>5
  <2> QED
    BY <1>3, <2>1, <2>2
<1>6. ASSUME NEW i \in DOMAIN msg.arc, Rewrite([msg EXCEPT !.arc = Front(@)])
      PROVE  IInv'
  <2>1. msg.arc \in Seq(Ranging(msg.arc)) /\ msg.arc # <<>>
    BY <1>1, <1>6 DEF IsSequence
  <2>2. /\ Front(msg.arc) \in Seq(Ranging(msg.arc))
        /\ \A k \in DOMAIN Front(msg.arc) : \E j \in DOMAIN msg.arc : Front(msg.arc)[k] = msg.arc[j]
    BY <2>1, Shortened
  <2>3. IsSequence(Front(msg.arc)) /\ AllKept(Front(msg.arc), sealed)
    BY <1>1, <2>2, TypedSequence DEF AllKept
  <2> QED
    BY <1>2, <1>6, <2>3
<1> QED
  BY <1>4, <1>5, <1>6 DEF DamageChain

\* Sealing a chain: the set that is added goes over the chain it ends.
LEMMA SealedChain ==
  ASSUME NEW q, IsSequence(q), NEW d \in Domain, NEW by, NEW aar, NEW ams, NEW cv, NEW alg
  PROVE  LET bare == [d |-> d, by |-> by, aar |-> aar, ams |-> ams, cv |-> cv, alg |-> alg,
                      over |-> <<>>, fields |-> "whole"]
             chain == Append(q, bare)
             set == [bare EXCEPT !.over = buildARCSealInput(chain, Len(chain))]
             after == Append(q, set)
         IN  /\ IsArcSet(set) /\ set.d = d /\ set.by = by /\ set.fields = "whole" /\ set.ams = ams
             /\ IsSequence(after) /\ after # <<>> /\ after[Len(after)] = set
             /\ set.over = buildARCSealInput(after, Len(after))
<1> DEFINE bare == [d |-> d, by |-> by, aar |-> aar, ams |-> ams, cv |-> cv, alg |-> alg,
                    over |-> <<>>, fields |-> "whole"]
           chain == Append(q, bare)
           over == buildARCSealInput(chain, Len(chain))
           set == [bare EXCEPT !.over = over]
           after == Append(q, set)
<1>1. /\ IsArcSet(set) /\ set.d = d /\ set.by = by /\ set.fields = "whole" /\ set.over = over
      /\ set.aar = aar /\ set.ams = ams /\ set.cv = cv /\ set.alg = alg
  BY DEF IsArcSet
<1>2. /\ bare.d = d /\ bare.aar = aar /\ bare.ams = ams /\ bare.cv = cv /\ bare.alg = alg
  OBVIOUS
<1> HIDE DEF bare, over, set
<1>3. Len(q) \in Nat
  BY SequenceDomain
<1>4. /\ Len(chain) = Len(q) + 1 /\ chain[Len(q) + 1] = bare /\ SubSeq(chain, 1, Len(q)) = q
      /\ Len(after) = Len(q) + 1 /\ after[Len(q) + 1] = set /\ SubSeq(after, 1, Len(q)) = q
      /\ IsSequence(after) /\ after # <<>>
  BY Appended
<1>5. Len(q) + 1 - 1 = Len(q)
  BY <1>3
<1> HIDE DEF chain, after
<1>6. buildARCSealInput(chain, Len(q) + 1)
        = [earlier |-> q, aar |-> aar, ams |-> ams, cv |-> cv, d |-> d, alg |-> alg]
  BY <1>2, <1>4, <1>5 DEF buildARCSealInput
<1>7. buildARCSealInput(after, Len(q) + 1)
        = [earlier |-> q, aar |-> aar, ams |-> ams, cv |-> cv, d |-> d, alg |-> alg]
  BY <1>1, <1>4, <1>5 DEF buildARCSealInput
<1>8. over = buildARCSealInput(after, Len(after))
  BY <1>4, <1>6, <1>7 DEF over
<1> QED
  BY <1>1, <1>4, <1>8 DEF bare, chain, over, set, after

LEMMA SealStep ==
  ASSUME IInv, NEW d \in Signers, NEW by \in {d, NoDomain}, NEW o \in SealOptions,
         NEW cv, Seal(d, by, o, cv)
  PROVE  IInv'
<1> DEFINE found == [id |-> d, spf |-> "none", dkim |-> VerifyDKIM(msg, [enabled |-> TRUE,
                       keys |-> [x \in Domain |-> "rsa"]]).result, dmarc |-> ""]
           ams == SignatureBy(msg, d, by, o)
           bare == [d |-> d, by |-> by, aar |-> found, ams |-> ams,
                    cv |-> cv, alg |-> o.alg, over |-> <<>>, fields |-> "whole"]
           chain == Append(msg.arc, bare)
           set == [bare EXCEPT !.over = buildARCSealInput(chain, Len(chain))]
           after == Append(msg.arc, set)
           custody == [arc |-> after, saw |-> Covered(msg, d, o)]
           more == IF by = d THEN sealed \union {custody} ELSE sealed
<1>1. /\ phase' = "transit" /\ edits < MaxEdits /\ edits' = edits + 1
      /\ msg' = [msg EXCEPT !.arc = after] /\ vouched' = vouched
      /\ sealed' = IF by = d THEN sealed \union {[arc |-> msg'.arc, saw |-> Covered(msg, d, o)]}
                   ELSE sealed
  BY DEF Seal, Edit
<1>2. IsMessage(msg) /\ HasFields(msg) /\ IsLetter(msg) /\ IsSequence(msg.arc)
      /\ AllMade(msg.dkim, vouched) /\ AllKept(msg.arc, sealed) /\ \A s \in sealed : Custody(s)
  BY DEF IInv, TransitInv, SignaturesInv, ChainInv, IsMessage
<1>3. d \in Domain /\ o \in SignOptions
  BY MessageAuthAssumption DEF MessageAuthAssumption
<1>4. /\ IsArcSet(set) /\ set.d = d /\ set.by = by /\ set.fields = "whole" /\ set.ams = ams
      /\ IsSequence(after) /\ after # <<>> /\ after[Len(after)] = set
      /\ set.over = buildARCSealInput(after, Len(after))
  <2> HIDE DEF found, ams
  <2> QED
    BY <1>2, <1>3, SealedChain
<1> HIDE DEF set
<1>5. \A i \in DOMAIN after : after[i] = set \/ (i \in DOMAIN msg.arc /\ after[i] = msg.arc[i])
  BY <1>2, Appended
<1> HIDE DEF after
<1>6. Reads(msg', msg.from, msg.body, msg.dkim, after)
  BY <1>1, <1>2, FieldEdits
<1>7. IsMessage(msg')
  BY <1>2, <1>4, <1>6 DEF Reads, IsMessage, IsLetter
<1>8. sealed' = more
  BY <1>1, <1>6 DEF Reads
<1>9. by = d => Custody(custody)
  <2>1. custody.arc = after /\ custody.saw = Covered(msg, d, o)
    OBVIOUS
  <2> HIDE DEF custody
  <2>2. ASSUME by = d
        PROVE  \E m, p : /\ IsLetter(m) /\ p \in SignOptions
                         /\ set.ams = SignatureBy(m, set.d, set.d, p)
                         /\ custody.saw = Covered(m, set.d, p)
    BY <1>2, <1>3, <1>4, <2>1, <2>2
  <2> HIDE DEF ams
  <2> QED
    BY <1>4, <2>1, <2>2 DEF Custody
<1>10. sealed \subseteq more /\ (by = d => custody \in more) /\ custody.arc = after
       /\ \A s \in more : s \in sealed \/ (by = d /\ s = custody)
  OBVIOUS
<1> HIDE DEF custody, more
<1>11. \A s \in more : Custody(s)
  BY <1>2, <1>9, <1>10
<1>12. Kept(set, more)
  BY <1>4, <1>10 DEF Kept
<1>13. AllKept(msg.arc, more)
  BY <1>2, <1>10, AllStay
<1>14. AllKept(after, more)
  BY <1>5, <1>12, <1>13 DEF AllKept
<1>15. edits' \in 0..MaxEdits
  BY <1>1, MessageAuthAssumption DEF MessageAuthAssumption, IInv, TransitInv
<1>16. TransitInv'
  BY <1>1, <1>7, <1>15 DEF TransitInv
<1>17. SignaturesInv'
  BY <1>1, <1>2, <1>6 DEF SignaturesInv, Reads
<1>18. ChainInv'
  BY <1>6, <1>8, <1>11, <1>14 DEF ChainInv, Reads
<1>19. VerdictInv'
  BY <1>1 DEF VerdictInv
<1> QED
  BY <1>16, <1>17, <1>18, <1>19 DEF IInv

LEMMA VerifyAuthStep ==
  ASSUME IInv, NEW dns \in Dns, VerifyAuth(dns)
  PROVE  IInv'
<1>1. /\ phase' = "verified" /\ verdict' = Result(msg, dns.spf, dns)
      /\ edits' = edits /\ msg' = msg /\ vouched' = vouched /\ sealed' = sealed
  BY DEF VerifyAuth
<1>2. verdict' = Result(msg', dns.spf, dns)
  BY <1>1
<1>3. VerdictInv'
  BY <1>2 DEF VerdictInv
<1>4. TransitInv' /\ SignaturesInv' /\ ChainInv'
  BY <1>1 DEF IInv, TransitInv, SignaturesInv, ChainInv
<1> QED
  BY <1>3, <1>4 DEF IInv

LEMMA InitInv ==
  ASSUME Init
  PROVE  IInv
<1>1. PICK d \in Authors, r \in Reported :
        msg = [from |-> <<d>>, subject |-> "subject", body |-> <<"text">>,
               wrapped |-> FALSE, dkim |-> <<>>, arc |-> <<>>,
               reports |-> r.fields, receivedSpf |-> r.receivedSpf]
  BY DEF Init
<1>2. d \in Domain /\ MaxEdits \in Nat
  BY MessageAuthAssumption DEF MessageAuthAssumption
<1>3. <<d>> \in Seq(Domain) /\ Len(<<d>>) = 1 /\ <<"text">> \in Seq(Parts) /\ <<"text">> # <<>>
  BY <1>2 DEF Parts
<1>4. IsSequence(<<>>) /\ DOMAIN <<>> = {}
  <2>1. <<>> \in Seq({}) /\ Len(<<>>) = 0
    OBVIOUS
  <2>2. IsSequence(<<>>)
    BY <2>1, TypedSequence
  <2>3. DOMAIN <<>> = 1..0
    BY <2>1, <2>2, SequenceDomain
  <2> QED
    BY <2>2, <2>3
<1>5. /\ HasFields(msg) /\ msg.from = <<d>> /\ msg.body = <<"text">> /\ msg.dkim = <<>>
      /\ msg.arc = <<>>
  BY <1>1 DEF HasFields
<1>6. IsMessage(msg) /\ Len(msg.from) = 1
  BY <1>3, <1>4, <1>5 DEF IsMessage, IsLetter
<1>7. TransitInv
  BY <1>2, <1>6 DEF Init, TransitInv
<1>8. SignaturesInv /\ ChainInv
  BY <1>4, <1>5 DEF Init, SignaturesInv, ChainInv, AllMade, AllKept
<1>9. VerdictInv
  BY DEF Init, VerdictInv
<1> QED
  BY <1>7, <1>8, <1>9 DEF IInv

LEMMA NextInv ==
  ASSUME IInv, [Next]_vars
  PROVE  IInv'
<1>1. CASE Submit
  BY <1>1, SubmitStep
<1>2. ASSUME NEW d \in Signers, NEW o \in SignOptions, Sign(d, o) PROVE IInv'
  BY <1>2, SignStep DEF Sign
<1>3. ASSUME NEW d \in Signers, NEW o \in SealOptions, SignAsOther(d, o) PROVE IInv'
  <2>1. o \in SignOptions
    BY MessageAuthAssumption DEF MessageAuthAssumption
  <2> QED
    BY <1>3, <2>1, SignStep DEF SignAsOther
<1>4. ASSUME NEW d \in Signers, NEW o \in SealOptions, NEW cv,
             Seal(d, d, o, cv) \/ Seal(d, NoDomain, o, cv)
      PROVE  IInv'
  BY <1>4, SealStep
<1>5. ASSUME NEW d \in Domain, AddFrom(d) PROVE IInv'
  BY <1>5, AddFromStep
<1>6. CASE ChangeHeader
  BY <1>6, ChangeHeaderStep
<1>7. CASE ChangeBody
  BY <1>7, ChangeBodyStep
<1>8. CASE DamageChain
  BY <1>8, DamageChainStep
<1>9. ASSUME NEW dns \in Dns, VerifyAuth(dns) PROVE IInv'
  BY <1>9, VerifyAuthStep
<1>10. CASE UNCHANGED vars
  BY <1>10 DEF vars, IInv, TransitInv, SignaturesInv, ChainInv, VerdictInv
<1> QED
  BY <1>1, <1>2, <1>3, <1>4, <1>5, <1>6, <1>7, <1>8, <1>9, <1>10 DEF Next

LEMMA Invariance ==
  Spec => []IInv
<1>1. Init => IInv
  BY InitInv
<1>2. IInv /\ [Next]_vars => IInv'
  BY NextInv
<1> QED
  BY <1>1, <1>2, PTL DEF Spec
-----------------------------------------------------------------------------
(***************************************************************************)
(* What a verdict says.                                                     *)
(***************************************************************************)
LEMMA SignatureResult ==
  ASSUME NEW m, NEW sig, NEW keys
  PROVE  /\ verifyOneMessageSignature(m, sig, keys) \in DkimResults
         /\ amsResult(m, sig, keys) \in DkimResults
         /\ amsResult(m, sig, keys) = "pass" => verifyOneMessageSignature(m, sig, keys) = "pass"
<1>1. tagError(sig.tags) \in {"permerror", "policy", "fail", ""}
  BY DEF tagError
<1>2. verifyOneMessageSignature(m, sig, keys) \in DkimResults
  BY <1>1 DEF verifyOneMessageSignature, DkimResults
<1> QED
  BY <1>2 DEF amsResult, DkimResults

\* The signatures that are tried are the first ones.
LEMMA Tried ==
  ASSUME NEW q, IsSequence(q), NEW n \in Nat
  PROVE  \A i \in DOMAIN upTo(q, n) : i \in DOMAIN q /\ upTo(q, n)[i] = q[i]
<1> DEFINE k == IF n < Len(q) THEN n ELSE Len(q)
<1>1. Len(q) \in Nat /\ DOMAIN q = 1..Len(q) /\ q \in Seq(Ranging(q))
  BY SequenceDomain DEF IsSequence
<1>2. k \in 0..Len(q)
  BY <1>1
<1>3. upTo(q, n) = SubSeq(q, 1, k)
  BY DEF upTo
<1> HIDE DEF k
<1>4. DOMAIN SubSeq(q, 1, k) = 1..k /\ \A i \in 1..k : SubSeq(q, 1, k)[i] = q[i]
  BY <1>1, <1>2, FirstElements
<1>5. \A i \in 1..k : i \in 1..Len(q)
  BY <1>1, <1>2
<1> QED
  BY <1>1, <1>3, <1>4, <1>5

\* A domain counts as verified only for a signature that passed on a message
\* with at most one From field; the warning is about every signature tried.
LEMMA DkimVerdict ==
  ASSUME NEW m, IsMessage(m), NEW dns
  PROVE  LET dkim == VerifyDKIM(m, dns)
         IN  /\ dkim.result \in DkimResults
             /\ dkim.result = "pass" <=> dkim.domains # {}
             /\ \A d \in dkim.domains :
                  /\ ~(Len(m.from) > 1)
                  /\ \E i \in DOMAIN m.dkim :
                       /\ d = m.dkim[i].d
                       /\ verifyOneMessageSignature(m, m.dkim[i], dns.keys) = "pass"
                       /\ ~dkim.truncated => ~BodyTruncated(m, m.dkim[i])
<1> DEFINE tried == upTo(m.dkim, maxSignatures)
           result == [i \in DOMAIN tried |->
                        verifyOneMessageSignature(m, tried[i], dns.keys)]
           overall == combinedResult(result)
           tested == DKIMResult(m, tried, result, overall)
<1>1. \A r \in DkimResults \ {"pass"} :
        LET dkim == DKIMResult(m, <<>>, <<>>, r)
        IN  dkim.result = r /\ dkim.domains = {}
  <2>1. DOMAIN <<>> = {}
    <3>1. <<>> \in Seq({}) /\ Len(<<>>) = 0
      OBVIOUS
    <3> QED
      BY <3>1, LenProperties
  <2> QED
    BY <2>1 DEF DKIMResult
<1>2. \A i \in DOMAIN tried : i \in DOMAIN m.dkim /\ tried[i] = m.dkim[i]
  BY Tried, MessageAuthAssumption DEF MessageAuthAssumption, IsMessage
<1>3. CASE m.dkim = <<>>
  <2>1. VerifyDKIM(m, dns) = DKIMResult(m, <<>>, <<>>, "none")
    BY <1>3 DEF VerifyDKIM
  <2> QED
    BY <1>1, <2>1 DEF DkimResults
<1>4. CASE m.dkim # <<>> /\ ~dns.enabled
  <2>1. VerifyDKIM(m, dns) = DKIMResult(m, <<>>, <<>>, "temperror")
    BY <1>4 DEF VerifyDKIM
  <2> QED
    BY <1>1, <2>1 DEF DkimResults
<1>5. CASE m.dkim # <<>> /\ dns.enabled /\ Len(m.from) > 1
  <2>1. VerifyDKIM(m, dns) = DKIMResult(m, <<>>, <<>>, "permerror")
    BY <1>5 DEF VerifyDKIM
  <2> QED
    BY <1>1, <2>1 DEF DkimResults
<1>6. CASE m.dkim # <<>> /\ dns.enabled /\ ~(Len(m.from) > 1)
  <2>1. VerifyDKIM(m, dns) = tested
    BY <1>6 DEF VerifyDKIM
  <2>2. DOMAIN result = DOMAIN tried /\ \A i \in DOMAIN tried :
          /\ result[i] = verifyOneMessageSignature(m, tried[i], dns.keys)
          /\ result[i] \in DkimResults
    BY SignatureResult
  <2> HIDE DEF result
  <2>3. tried \in Seq(Ranging(m.dkim))
    <3>1. m.dkim \in Seq(Ranging(m.dkim)) /\ Len(m.dkim) \in Nat /\ maxSignatures \in Nat
      BY SequenceDomain, MessageAuthAssumption DEF MessageAuthAssumption, IsMessage, IsSequence
    <3> DEFINE k == IF maxSignatures < Len(m.dkim) THEN maxSignatures ELSE Len(m.dkim)
    <3>2. k \in 0..Len(m.dkim) /\ tried = SubSeq(m.dkim, 1, k)
      BY <3>1 DEF upTo
    <3> HIDE DEF k, tried
    <3> QED
      BY <3>1, <3>2, FirstElements
  <2>4. Len(tried) \in Nat /\ DOMAIN tried = 1..Len(tried)
    BY <2>3, LenProperties
  <2> HIDE DEF tried
  <2>5. Len(result) = Len(tried)
    <3>1. result \in [1..Len(tried) -> DkimResults]
      BY <2>2, <2>4 DEF result
    <3>2. result \in Seq(DkimResults)
      BY <2>4, <3>1, SeqDef
    <3>3. DOMAIN result = 1..Len(result) /\ Len(result) \in Nat
      BY <3>2, LenProperties
    <3> QED
      BY <2>2, <2>4, <3>3
  <2>6. /\ overall \in DkimResults
        /\ overall = "pass" <=> \E i \in DOMAIN tried : result[i] = "pass"
    BY <2>2, <2>4, <2>5 DEF combinedResult, DkimResults
  <2> HIDE DEF overall
  <2>7. /\ tested.result = overall
        /\ tested.domains = {tried[i].d : i \in {j \in DOMAIN tried : result[j] = "pass"}}
        /\ tested.truncated = \E i \in DOMAIN tried : BodyTruncated(m, tried[i])
    BY DEF DKIMResult
  <2> HIDE DEF tested
  <2>8. tested.result \in DkimResults /\ (tested.result = "pass" <=> tested.domains # {})
    BY <2>6, <2>7
  <2>9. ASSUME NEW d \in tested.domains
        PROVE  \E i \in DOMAIN m.dkim :
                 /\ d = m.dkim[i].d
                 /\ verifyOneMessageSignature(m, m.dkim[i], dns.keys) = "pass"
                 /\ ~tested.truncated => ~BodyTruncated(m, m.dkim[i])
    <3>1. PICK i \in DOMAIN tried : result[i] = "pass" /\ d = tried[i].d
      BY <2>7, <2>9
    <3> QED
      BY <1>2, <2>2, <2>7, <3>1
  <2> QED
    BY <1>6, <2>1, <2>8, <2>9
<1> QED
  BY <1>3, <1>4, <1>5, <1>6

\* A verified domain that aligns with the From has vouched for it.
LEMMA VerifiedVouches ==
  ASSUME IInv, NEW dns \in Dns, NEW d \in VerifyDKIM(msg, dns).domains,
         domainsAlign(d, fromDomain(msg), FALSE)
  PROVE  \E v \in Vouchers : ~VerifyDKIM(msg, dns).truncated => v.body = msg.body
<1>1. IsMessage(msg) /\ IsLetter(msg) /\ AllMade(msg.dkim, vouched)
  BY DEF IInv, TransitInv, SignaturesInv, IsMessage
<1>2. ~(Len(msg.from) > 1)
  BY <1>1, DkimVerdict
<1>3. PICK i \in DOMAIN msg.dkim :
        /\ d = msg.dkim[i].d
        /\ verifyOneMessageSignature(msg, msg.dkim[i], dns.keys) = "pass"
        /\ ~VerifyDKIM(msg, dns).truncated => ~BodyTruncated(msg, msg.dkim[i])
  BY <1>1, DkimVerdict
<1>4. PICK m, c, by, o :
        /\ IsLetter(m) /\ c \in Domain /\ o \in SignOptions
        /\ msg.dkim[i] = SignatureBy(m, c, by, o)
        /\ by = c => Covered(m, c, o) \in vouched
  BY <1>1 DEF AllMade, Made
<1>5. c = d
  BY <1>3, <1>4 DEF SignatureBy
<1>6. msg.from # <<>>
  BY MessageAuthAssumption DEF MessageAuthAssumption, domainsAlign, fromDomain
<1> DEFINE v == Covered(m, c, o)
<1>7. /\ by = c /\ v.d = c /\ v.from = Last(msg.from) /\ IsPrefix(v.body, msg.body)
      /\ ~BodyTruncated(msg, msg.dkim[i]) => v.body = msg.body
  BY <1>1, <1>3, <1>4, <1>6, SignatureSound
<1>8. Last(msg.from) = fromDomain(msg)
  <2>1. msg.from \in Seq(Domain)
    BY <1>1 DEF IsLetter
  <2>2. Len(msg.from) \in Nat /\ fromDomain(msg) = msg.from[1]
        /\ (Len(msg.from) <= 1 => Last(msg.from) = msg.from[1])
    BY <1>6, <2>1, LetterFrom
  <2>3. Len(msg.from) <= 1
    BY <1>2, <2>2
  <2> QED
    BY <2>2, <2>3
<1> HIDE DEF v
<1>9. v \in Vouchers
  BY <1>4, <1>5, <1>7, <1>8 DEF Vouchers, v
<1> QED
  BY <1>3, <1>7, <1>9

\* The record the verdict rests on, and what it asks for.
LEMMA PolicyFound ==
  ASSUME NEW dns \in Dns, NEW from \in Domain, LookupDMARC(dns.dmarc, from) # NoRecord
  PROVE  /\ LookupDMARC(dns.dmarc, from) \in DMARCRecords
         /\ LookupDMARC(dns.dmarc, from).p # "" =>
              applicablePolicy(dns.dmarc, from) \in {"none", "quarantine", "reject"}
<1>1. dns.dmarc \in [Domain -> DMARCRecords \union {NoRecord}]
  BY MessageAuthAssumption DEF MessageAuthAssumption
<1>2. org[from] \in Domain \union {NoDomain}
  BY MessageAuthAssumption DEF MessageAuthAssumption
<1>3. LookupDMARC(dns.dmarc, from) \in DMARCRecords
  BY <1>1, <1>2 DEF LookupDMARC
<1>4. \A r \in DMARCRecords : r.p \in DMARCPolicies /\ r.sp \in DMARCPolicies
  BY DEF DMARCRecords
<1> QED
  BY <1>3, <1>4 DEF applicablePolicy, DMARCPolicies

LEMMA Alignment ==
  ASSUME NEW x, NEW y, NEW strict, domainsAlign(x, y, strict)
  PROVE  domainsAlign(x, y, FALSE)
  BY DEF domainsAlign

\* The record asks for rejection of all mail that fails.
AsksRejection(dmarc) == dmarc.policy = "reject" /\ dmarc.record.pct = 100

LEMMA DmarcVerdict ==
  ASSUME NEW m, NEW dns \in Dns, NEW from \in Domain \union {NoDomain}, NEW spf, NEW dkim
  PROVE  LET dmarc == VerifyDMARC(m, dns, from, spf, dkim)
         IN  /\ dmarc.result \in {"none", "pass", "fail", "temperror", "permerror"}
             /\ dmarc.disposition \in {"none", "quarantine", "reject"}
             /\ dmarc.result = "pass" /\ ~dmarc.spfAligned =>
                  \E d \in dkim.domains : domainsAlign(d, from, FALSE)
             /\ AsksRejection(dmarc) /\ dmarc.result # "pass" => dmarc.disposition = "reject"
<1> DEFINE dmarc == VerifyDMARC(m, dns, from, spf, dkim)
           record == LookupDMARC(dns.dmarc, from)
           policy == applicablePolicy(dns.dmarc, from)
           spfAligned == /\ spf.result = "pass"
                         /\ domainsAlign(spf.domain, from, record.aspf = "s")
           dkimAligned == \E d \in dkim.domains : domainsAlign(d, from, record.adkim = "s")
<1>1. CASE from = NoDomain \/ ~dns.enabled \/ record = NoRecord
  <2>1. PICK r \in {"permerror", "temperror", "none"} : dmarc = NoDMARC(r)
    BY <1>1 DEF VerifyDMARC
  <2> HIDE DEF dmarc
  <2>2. dmarc.result = r /\ dmarc.disposition = "none" /\ dmarc.policy = ""
    BY <2>1 DEF NoDMARC, DMARCResult
  <2> QED
    BY <2>2 DEF dmarc, AsksRejection
<1>2. CASE from # NoDomain /\ dns.enabled /\ record # NoRecord
  <2>1. dmarc = IF record.p = "" THEN DMARCResult("permerror", "none", FALSE, record, "")
                ELSE IF spfAligned \/ dkimAligned
                THEN DMARCResult("pass", "none", spfAligned, record, policy)
                ELSE DMARCResult("fail", sampledDisposition(record, policy), FALSE, record, policy)
    BY <1>2 DEF VerifyDMARC
  <2>2. record.p # "" => policy \in {"none", "quarantine", "reject"}
    BY <1>2, PolicyFound
  <2>3. dkimAligned => \E d \in dkim.domains : domainsAlign(d, from, FALSE)
    BY Alignment
  <2> HIDE DEF dmarc, record, policy, spfAligned, dkimAligned
  <2>4. CASE record.p = ""
    <3>1. dmarc = DMARCResult("permerror", "none", FALSE, record, "")
      BY <2>1, <2>4
    <3>2. dmarc.result = "permerror" /\ dmarc.disposition = "none" /\ dmarc.policy = ""
      BY <3>1 DEF DMARCResult
    <3> QED
      BY <3>2 DEF dmarc, AsksRejection
  <2>5. CASE record.p # "" /\ (spfAligned \/ dkimAligned)
    <3>1. dmarc = DMARCResult("pass", "none", spfAligned, record, policy)
      BY <2>1, <2>5
    <3>2. dmarc.result = "pass" /\ dmarc.disposition = "none" /\ dmarc.spfAligned = spfAligned
      BY <3>1 DEF DMARCResult
    <3> QED
      BY <2>3, <2>5, <3>2 DEF dmarc
  <2>6. CASE record.p # "" /\ ~(spfAligned \/ dkimAligned)
    <3>1. dmarc = DMARCResult("fail", sampledDisposition(record, policy), FALSE, record, policy)
      BY <2>1, <2>6
    <3>2. /\ dmarc.result = "fail" /\ dmarc.disposition = sampledDisposition(record, policy)
          /\ dmarc.policy = policy /\ dmarc.record = record
      BY <3>1 DEF DMARCResult
    <3>3. dmarc.disposition \in {"none", "quarantine", "reject"}
      BY <2>2, <2>6, <3>2 DEF sampledDisposition
    <3>4. ASSUME policy = "reject", record.pct = 100 PROVE dmarc.disposition = "reject"
      <4>1. ~(record.pct < 100)
        BY <3>4
      <4> QED
        BY <3>2, <3>4, <4>1 DEF sampledDisposition
    <3> QED
      BY <3>2, <3>3, <3>4 DEF dmarc, AsksRejection
  <2> QED
    BY <2>4, <2>5, <2>6
<1> QED
  BY <1>1, <1>2

\* A set that passes is whole, and sealed by its domain over the chain before it.
LEMMA SetVerdict ==
  ASSUME NEW m, NEW i, NEW keys
  PROVE  /\ arcSetResult(m, i, keys) \in DkimResults
         /\ arcSetResult(m, i, keys) = "pass" =>
              /\ m.arc[i].fields # "missing"
              /\ m.arc[i].by = m.arc[i].d /\ m.arc[i].over = buildARCSealInput(m.arc, i)
              /\ i = Len(m.arc) => verifyOneMessageSignature(m, m.arc[i].ams, keys) = "pass"
<1> DEFINE ams == amsResult(m, m.arc[i].ams, keys)
           seal == verifyARCSeal(m.arc, i, keys)
<1>1. ams \in DkimResults /\ (ams = "pass" => verifyOneMessageSignature(m, m.arc[i].ams, keys) = "pass")
  BY SignatureResult
<1>2. /\ seal \in DkimResults
      /\ seal = "pass" => /\ m.arc[i].by = m.arc[i].d
                          /\ m.arc[i].over = buildARCSealInput(m.arc, i)
  BY DEF verifyARCSeal, DkimResults
<1> HIDE DEF ams, seal
<1>3. arcSetResult(m, i, keys) =
        CASE m.arc[i].fields = "missing" -> "permerror"
          [] m.arc[i].fields = "whole" /\ m.arc[i].cv # (IF i = 1 THEN "none" ELSE "pass") -> "fail"
          [] OTHER -> IF i = Len(m.arc) /\ ams # "pass" THEN ams ELSE seal
  BY DEF arcSetResult, ams, seal
<1> QED
  BY <1>1, <1>2, <1>3 DEF DkimResults

LEMMA ArcVerdict ==
  ASSUME NEW m, IsMessage(m), NEW dns
  PROVE  /\ VerifyARC(m, dns) \in DkimResults
         /\ VerifyARC(m, dns) = "pass" =>
              /\ m.arc # <<>> /\ Len(m.from) = 1
              /\ \A i \in DOMAIN m.arc : /\ m.arc[i].fields # "twice"
                                        /\ arcSetResult(m, i, dns.keys) = "pass"
<1> DEFINE bad == {i \in DOMAIN m.arc : arcSetResult(m, i, dns.keys) # "pass"}
           first == CHOOSE i \in bad : \A j \in bad : i <= j
<1>1. VerifyARC(m, dns) = IF m.arc = <<>> THEN "none"
        ELSE IF \E i \in DOMAIN m.arc : m.arc[i].fields = "twice" THEN "permerror"
        ELSE IF Len(m.from) # 1 THEN "permerror"
        ELSE IF ~dns.enabled THEN "temperror"
        ELSE IF bad = {} THEN "pass" ELSE arcSetResult(m, first, dns.keys)
  BY DEF VerifyARC
<1>2. arcSetResult(m, first, dns.keys) \in DkimResults
  BY SetVerdict
<1>3. bad # {} => arcSetResult(m, first, dns.keys) # "pass"
  <2>1. bad \in SUBSET Nat
    BY SequenceDomain DEF IsMessage
  <2> HIDE DEF bad
  <2>2. bad # {} => first \in bad
    BY <2>1, Least
  <2> QED
    BY <2>2 DEF bad
<1>4. bad = {} => \A i \in DOMAIN m.arc : arcSetResult(m, i, dns.keys) = "pass"
  OBVIOUS
<1> HIDE DEF bad, first
<1> QED
  BY <1>1, <1>2, <1>3, <1>4 DEF DkimResults

\* A seal that verifies over a chain is that of the chain its domain sealed.
LEMMA SealSound ==
  ASSUME NEW q, IsSequence(q), NEW i \in DOMAIN q, NEW s, Custody(s), IsArcSet(q[i]),
         q[i].by = q[i].d, q[i].fields = "whole", q[i].over = buildARCSealInput(q, i),
         q[i].over = s.arc[Len(s.arc)].over
  PROVE  s.arc = SubSeq(q, 1, i)
<1> DEFINE k == Len(s.arc)
           top == s.arc[k]
<1>1. IsSequence(s.arc) /\ s.arc # <<>>
  BY DEF Custody
<1>2. /\ IsArcSet(top) /\ top.by = top.d /\ top.fields = "whole"
      /\ top.over = buildARCSealInput(s.arc, k)
  BY DEF Custody
<1>3. /\ k \in Nat \ {0} /\ k \in 1..k /\ k - 1 \in 0..k /\ DOMAIN s.arc = 1..k
      /\ s.arc \in Seq(Ranging(s.arc))
  BY <1>1, SequenceDomain DEF IsSequence
<1>4. /\ Len(q) \in Nat /\ i \in 1..Len(q) /\ i \in Nat \ {0} /\ i \in 0..Len(q) /\ i - 1 \in 0..Len(q)
      /\ q \in Seq(Ranging(q))
  BY SequenceDomain DEF IsSequence
<1> HIDE DEF k
<1>5. buildARCSealInput(q, i) = buildARCSealInput(s.arc, k)
  BY <1>2 DEF k
<1>6. /\ SubSeq(q, 1, i - 1) = SubSeq(s.arc, 1, k - 1) /\ q[i].aar = top.aar /\ q[i].ams = top.ams
      /\ q[i].cv = top.cv /\ q[i].d = top.d /\ q[i].alg = top.alg
  BY <1>5 DEF buildARCSealInput
<1>7. q[i].over = top.over
  BY DEF k
<1>8. q[i] = top
  BY <1>2, <1>6, <1>7 DEF IsArcSet
<1>9. /\ Len(SubSeq(q, 1, i - 1)) = i - 1 /\ \A j \in 1..i - 1 : SubSeq(q, 1, i - 1)[j] = q[j]
      /\ SubSeq(q, 1, i) \in Seq(Ranging(q)) /\ Len(SubSeq(q, 1, i)) = i
      /\ \A j \in 1..i : SubSeq(q, 1, i)[j] = q[j]
  BY <1>4, FirstElements
<1>10. /\ Len(SubSeq(s.arc, 1, k - 1)) = k - 1
       /\ \A j \in 1..k - 1 : SubSeq(s.arc, 1, k - 1)[j] = s.arc[j]
  BY <1>3, FirstElements DEF k
<1>11. i = k
  BY <1>3, <1>4, <1>6, <1>9, <1>10
<1>12. ASSUME NEW j \in 1..k PROVE s.arc[j] = SubSeq(q, 1, i)[j]
  <2>1. CASE j = k
    BY <1>8, <1>9, <1>11, <2>1
  <2>2. CASE j # k
    <3>1. j \in 1..k - 1
      BY <1>3, <1>12, <2>2
    <3> QED
      BY <1>6, <1>9, <1>10, <1>11, <3>1
  <2> QED
    BY <2>1, <2>2
<1>13. Len(s.arc) = k
  BY DEF k
<1>14. Len(s.arc) = Len(SubSeq(q, 1, i))
  BY <1>9, <1>11, <1>13
<1> QED
  BY <1>3, <1>9, <1>12, <1>13, <1>14, SeqEqual
-----------------------------------------------------------------------------
(***************************************************************************)
(* The theorems.                                                            *)
(***************************************************************************)
LEMMA VerdictIs ==
  ASSUME NEW dns, verdict = Result(msg, dns.spf, dns)
  PROVE  /\ verdict.dkim = VerifyDKIM(msg, dns) /\ verdict.arc = VerifyARC(msg, dns)
         /\ verdict.dmarc = VerifyDMARC(msg, dns, fromDomain(msg), dns.spf, VerifyDKIM(msg, dns))
         /\ verdict.authenticated = (verdict.dmarc.result = "pass")
         /\ verdict.disposition = IF verdict.dmarc.result = "pass" THEN "none"
                                  ELSE verdict.dmarc.disposition
  BY DEF Result

LEMMA FromTyped ==
  ASSUME NEW m, IsLetter(m)
  PROVE  fromDomain(m) \in Domain \union {NoDomain}
<1>1. m.from \in Seq(Domain)
  BY DEF IsLetter
<1>2. CASE m.from = <<>>
  BY <1>2 DEF fromDomain
<1>3. CASE m.from # <<>>
  BY <1>1, <1>3, LetterFrom
<1> QED
  BY <1>2, <1>3

LEMMA VerdictTyped ==
  ASSUME IInv, phase = "verified"
  PROVE  /\ verdict.dkim.result \in DkimResults
         /\ verdict.dkim.result = "pass" <=> verdict.dkim.domains # {}
         /\ verdict.arc \in DkimResults
         /\ verdict.dmarc.result \in {"none", "pass", "fail", "temperror", "permerror"}
         /\ verdict.disposition \in {"none", "quarantine", "reject"}
<1>1. PICK dns \in Dns : verdict = Result(msg, dns.spf, dns)
  BY DEF IInv, VerdictInv
<1>2. IsMessage(msg) /\ fromDomain(msg) \in Domain \union {NoDomain}
  BY FromTyped DEF IInv, TransitInv, IsMessage
<1> DEFINE dkim == VerifyDKIM(msg, dns)
           arc == VerifyARC(msg, dns)
           dmarc == VerifyDMARC(msg, dns, fromDomain(msg), dns.spf, dkim)
<1>3. dkim.result \in DkimResults /\ (dkim.result = "pass" <=> dkim.domains # {})
  BY <1>2, DkimVerdict
<1>4. arc \in DkimResults
  BY <1>2, ArcVerdict
<1> HIDE DEF dkim
<1>5. /\ dmarc.result \in {"none", "pass", "fail", "temperror", "permerror"}
      /\ dmarc.disposition \in {"none", "quarantine", "reject"}
  BY <1>2, DmarcVerdict
<1> HIDE DEF arc, dmarc
<1>6. /\ verdict.dkim = dkim /\ verdict.arc = arc /\ verdict.dmarc = dmarc
      /\ verdict.disposition = IF dmarc.result = "pass" THEN "none" ELSE dmarc.disposition
  BY <1>1, VerdictIs DEF dkim, arc, dmarc
<1> QED
  BY <1>3, <1>4, <1>5, <1>6

\* Whatever was done to the message on the way, its From fields hold domains, and
\* every result of the verification is one of those it documents: a domain counts
\* as verified exactly when DKIM passes (dkim.go: VerifyDKIM; arc.go: VerifyARC;
\* dmarc.go: VerifyDMARC).
THEOREM TypeCorrect ==
  Spec => []TypeOK
<1>1. ASSUME IInv PROVE TypeOK
  <2>1. msg.from \in Seq(Domain)
    BY <1>1 DEF IInv, TransitInv, IsMessage, IsLetter
  <2>2. \A i \in DOMAIN msg.from : msg.from[i] \in Domain
    BY <2>1, LenProperties, ElementOfSeq
  <2>3. phase \in {"compose", "transit", "verified"} /\ edits \in 0..MaxEdits
    BY <1>1 DEF IInv, TransitInv
  <2> QED
    BY <1>1, <2>2, <2>3, VerdictTyped DEF TypeOK
<1> QED
  BY <1>1, Invariance, PTL

\* A domain aligned with the From vouched for what DKIM authenticates.
LEMMA Authentic ==
  ASSUME IInv, ByDKIM
  PROVE  \E v \in Vouchers : ~verdict.dkim.truncated => v.body = msg.body
<1>1. PICK dns \in Dns : verdict = Result(msg, dns.spf, dns)
  BY DEF IInv, VerdictInv, ByDKIM
<1>2. fromDomain(msg) \in Domain \union {NoDomain}
  BY FromTyped DEF IInv, TransitInv, IsMessage
<1> DEFINE dkim == VerifyDKIM(msg, dns)
           dmarc == VerifyDMARC(msg, dns, fromDomain(msg), dns.spf, dkim)
<1>3. /\ verdict.dkim = dkim /\ verdict.dmarc = dmarc
      /\ verdict.authenticated = (verdict.dmarc.result = "pass")
  BY <1>1, VerdictIs
<1>4. ASSUME NEW d \in dkim.domains, domainsAlign(d, fromDomain(msg), FALSE)
      PROVE  \E v \in Vouchers : ~dkim.truncated => v.body = msg.body
  BY <1>4, VerifiedVouches
<1> HIDE DEF dkim
<1>5. dmarc.result = "pass" /\ ~dmarc.spfAligned =>
        \E d \in dkim.domains : domainsAlign(d, fromDomain(msg), FALSE)
  BY <1>2, DmarcVerdict
<1> HIDE DEF dmarc
<1>6. dmarc.result = "pass" /\ ~dmarc.spfAligned
  BY <1>3 DEF ByDKIM
<1> QED
  BY <1>3, <1>4, <1>5, <1>6

\* For any number of signatures, edits, hops and From fields: what DKIM
\* authenticates shows the From that a domain aligned with it signed, over a body
\* that still begins with what was signed (dkim.go: the one-From rule, the From
\* that h= must name, instances consumed from the bottom, l=).
THEOREM AuthenticityHolds ==
  Spec => []AuthenticMeansSigned
<1>1. IInv => AuthenticMeansSigned
  BY Authentic DEF AuthenticMeansSigned
<1> QED
  BY <1>1, Invariance, PTL

\* Whenever the body is not exactly what such a domain signed, the warning is
\* there (dkim.go: BodyTruncated; verify.go: Warnings).
THEOREM TruncationHolds ==
  Spec => []TruncationIsFlagged
<1>1. IInv => TruncationIsFlagged
  BY Authentic DEF TruncationIsFlagged
<1> QED
  BY <1>1, Invariance, PTL

\* Whatever DNS holds: a message that no domain aligned with its From has signed,
\* and for which SPF does not speak, is rejected where the record that governs
\* the From asks for it of all mail (dmarc.go: VerifyDMARC, the sampled
\* disposition; verify.go: Disposition).
THEOREM RejectionHolds ==
  Spec => []UnsignedIsRejected
<1>1. ASSUME IInv, phase = "verified", verdict.dmarc.policy = "reject",
             verdict.dmarc.record.pct = 100, ~verdict.dmarc.spfAligned, Vouchers = {}
      PROVE  verdict.disposition = "reject"
  <2>1. PICK dns \in Dns : verdict = Result(msg, dns.spf, dns)
    BY <1>1 DEF IInv, VerdictInv
  <2>2. fromDomain(msg) \in Domain \union {NoDomain}
    BY <1>1, FromTyped DEF IInv, TransitInv, IsMessage
  <2> DEFINE dkim == VerifyDKIM(msg, dns)
             dmarc == VerifyDMARC(msg, dns, fromDomain(msg), dns.spf, dkim)
  <2>3. /\ verdict.dmarc = dmarc /\ verdict.authenticated = (dmarc.result = "pass")
        /\ verdict.disposition = IF dmarc.result = "pass" THEN "none" ELSE dmarc.disposition
    BY <2>1, VerdictIs
  <2> HIDE DEF dkim
  <2>4. AsksRejection(dmarc) /\ dmarc.result # "pass" => dmarc.disposition = "reject"
    BY <2>2, DmarcVerdict
  <2> HIDE DEF dmarc
  <2>5. dmarc.result # "pass"
    <3>1. SUFFICES ASSUME dmarc.result = "pass" PROVE FALSE
      OBVIOUS
    <3>2. ByDKIM
      BY <1>1, <2>3, <3>1 DEF ByDKIM
    <3> QED
      BY <1>1, <3>2, Authentic
  <2>6. AsksRejection(dmarc)
    BY <1>1, <2>3 DEF AsksRejection
  <2> QED
    BY <2>3, <2>4, <2>5, <2>6
<1>2. IInv => UnsignedIsRejected
  BY <1>1 DEF UnsignedIsRejected
<1> QED
  BY <1>2, Invariance, PTL

\* For a chain of any length: arc=pass only when each custodian sealed the chain as
\* it stood when it passed the message on, and the newest one passed on this From
\* and a body that this one begins with (arc.go: VerifyARC, verifyARCSeal,
\* buildARCSealInput).
THEOREM CustodyHolds ==
  Spec => []ChainIsVouched
<1>1. ASSUME IInv, phase = "verified", verdict.arc = "pass"
      PROVE  /\ \A i \in DOMAIN msg.arc : \E s \in sealed : s.arc = SubSeq(msg.arc, 1, i)
             /\ \E s \in sealed : /\ s.arc = msg.arc
                                  /\ <<s.saw.from>> = msg.from
                                  /\ IsPrefix(s.saw.body, msg.body)
  <2>1. PICK dns \in Dns : verdict = Result(msg, dns.spf, dns)
    BY <1>1 DEF IInv, VerdictInv
  <2>2. IsMessage(msg) /\ IsLetter(msg) /\ IsSequence(msg.arc) /\ AllKept(msg.arc, sealed)
        /\ \A s \in sealed : Custody(s)
    BY <1>1 DEF IInv, TransitInv, ChainInv, IsMessage
  <2>3. VerifyARC(msg, dns) = "pass"
    BY <1>1, <2>1, VerdictIs
  <2>4. /\ msg.arc # <<>> /\ Len(msg.from) = 1
        /\ \A i \in DOMAIN msg.arc : /\ msg.arc[i].fields # "twice"
                                    /\ arcSetResult(msg, i, dns.keys) = "pass"
    BY <2>2, <2>3, ArcVerdict
  <2>5. ASSUME NEW i \in DOMAIN msg.arc
        PROVE  \E s \in sealed : Custody(s) /\ s.arc = SubSeq(msg.arc, 1, i)
    <3>1. IsArcSet(msg.arc[i]) /\ Kept(msg.arc[i], sealed)
      BY <2>2 DEF AllKept, Kept
    <3>2. /\ msg.arc[i].by = msg.arc[i].d /\ msg.arc[i].over = buildARCSealInput(msg.arc, i)
          /\ msg.arc[i].fields # "missing" /\ msg.arc[i].fields # "twice"
      BY <2>4, SetVerdict
    <3>3. msg.arc[i].fields = "whole"
      BY <3>1, <3>2 DEF IsArcSet
    <3>4. PICK s \in sealed : msg.arc[i].over = s.arc[Len(s.arc)].over
      BY <3>1, <3>2 DEF Kept
    <3>5. Custody(s)
      BY <2>2
    <3>6. s.arc = SubSeq(msg.arc, 1, i)
      BY <2>2, <3>1, <3>2, <3>3, <3>4, <3>5, SealSound
    <3> QED
      BY <3>5, <3>6
  <2>6. \E s \in sealed : /\ s.arc = msg.arc
                         /\ <<s.saw.from>> = msg.from
                         /\ IsPrefix(s.saw.body, msg.body)
    <3> DEFINE n == Len(msg.arc)
    <3>1. n \in Nat /\ n \in DOMAIN msg.arc /\ n \in 0..n /\ msg.arc \in Seq(Ranging(msg.arc))
      BY <2>2, <2>4, SequenceDomain DEF IsSequence
    <3>2. SubSeq(msg.arc, 1, n) = msg.arc
      BY <3>1, FirstElements
    <3>3. verifyOneMessageSignature(msg, msg.arc[n].ams, dns.keys) = "pass"
      BY <2>4, <3>1, SetVerdict
    <3>4. PICK s \in sealed : Custody(s) /\ s.arc = msg.arc
      BY <2>5, <3>1, <3>2
    <3>5. PICK m, o : /\ IsLetter(m) /\ o \in SignOptions
                      /\ msg.arc[n].ams = SignatureBy(m, msg.arc[n].d, msg.arc[n].d, o)
                      /\ s.saw = Covered(m, msg.arc[n].d, o)
      BY <3>4 DEF Custody
    <3>6. msg.from \in Seq(Domain) /\ msg.from # <<>>
      <4>1. msg.from \in Seq(Domain)
        BY <2>2 DEF IsLetter
      <4>2. Len(msg.from) = 1 /\ Len(<<>>) = 0
        BY <2>4
      <4>3. msg.from # <<>>
        BY <4>2
      <4> QED
        BY <4>1, <4>3
    <3>7. s.saw.from = Last(msg.from) /\ IsPrefix(s.saw.body, msg.body)
      BY <2>2, <3>3, <3>5, <3>6, SignatureSound
    <3>8. <<Last(msg.from)>> = msg.from
      <4>1. Len(msg.from) <= 1
        BY <2>4
      <4> QED
        BY <3>6, <4>1, LetterFrom
    <3> QED
      BY <3>4, <3>7, <3>8
  <2> QED
    BY <2>5, <2>6
<1>2. IInv => ChainIsVouched
  BY <1>1 DEF ChainIsVouched
<1> QED
  BY <1>2, Invariance, PTL
-----------------------------------------------------------------------------
(***************************************************************************)
(* What the headers report.  A function on 0..n that is defined step by step  *)
(* exists, and what holds at 0 and from each step to the next holds at n.     *)
(***************************************************************************)
\* A set that has 0 and with each number the next has all of them.
LEMMA SetInduction ==
  ASSUME NEW S \in SUBSET Nat, 0 \in S, \A n \in S : n + 1 \in S
  PROVE  S = Nat
<1> DEFINE R == Nat \ S
<1> SUFFICES ASSUME R # {} PROVE FALSE
  OBVIOUS
<1>1. R \in SUBSET Nat
  OBVIOUS
<1> HIDE DEF R
<1>2. PICK n \in R : \A m \in R : n <= m
  BY <1>1, Least
<1>3. n \in Nat /\ n # 0
  BY <1>1, <1>2 DEF R
<1>4. n - 1 \in S
  BY <1>2, <1>3 DEF R
<1> QED
  BY <1>2, <1>3, <1>4 DEF R

\* There is a function that starts from a and takes one step after another.
HasRun(A, a, len, step) ==
  \E g \in [0..len -> A] : g[0] = a /\ \A n \in 1..len : g[n] = step[<<g[n - 1], n>>]

\* A function on 0..n defined step by step exists, and has the type of the steps.
LEMMA Recursion ==
  ASSUME NEW A, NEW a \in A, NEW len \in Nat, NEW step \in [A \X (1..len) -> A]
  PROVE  HasRun(A, a, len, step)
<1> DEFINE Upto(g, m) == /\ g \in [0..m -> A] /\ g[0] = a
                         /\ \A n \in 1..m : g[n] = step[<<g[n - 1], n>>]
           S == {m \in Nat : m <= len => \E g \in [0..m -> A] : Upto(g, m)}
<1>1. 0 \in S
  <2>1. Upto([n \in 0..0 |-> a], 0)
    OBVIOUS
  <2> QED
    BY <2>1
<1>2. ASSUME NEW m \in S PROVE m + 1 \in S
  <2> SUFFICES ASSUME m + 1 <= len PROVE \E g \in [0..(m + 1) -> A] : Upto(g, m + 1)
    OBVIOUS
  <2>1. PICK g \in [0..m -> A] : Upto(g, m)
    OBVIOUS
  <2> DEFINE h == [n \in 0..(m + 1) |-> IF n <= m THEN g[n] ELSE step[<<g[m], m + 1>>]]
  <2>2. step[<<g[m], m + 1>>] \in A
    OBVIOUS
  <2>3. h \in [0..(m + 1) -> A]
    BY <2>2
  <2>4. h[0] = a
    BY <2>1
  <2>5. ASSUME NEW n \in 1..(m + 1) PROVE h[n] = step[<<h[n - 1], n>>]
    <3>1. CASE n <= m
      BY <2>1, <3>1
    <3>2. CASE n = m + 1
      <4>1. h[m] = g[m] /\ h[m + 1] = step[<<g[m], m + 1>>]
        OBVIOUS
      <4>2. n - 1 = m
        BY <3>2
      <4> QED
        BY <3>2, <4>1, <4>2
    <3> QED
      BY <3>1, <3>2
  <2> QED
    BY <2>3, <2>4, <2>5
<1> HIDE DEF S
<1>3. S = Nat
  <2>1. S \in SUBSET Nat
    BY DEF S
  <2> QED
    BY <1>1, <1>2, <2>1, SetInduction
<1>4. PICK g \in [0..len -> A] : Upto(g, len)
  <2>1. len \in S
    BY <1>3
  <2> HIDE DEF Upto
  <2> QED
    BY <2>1 DEF S
<1> QED
  BY <1>4 DEF HasRun

\* What a rank tells of the result that has it.
Ranked(e, k) ==
  /\ k = 4 <=> e = "fail"
  /\ k = 3 <=> e = "pass"
  /\ k # 0 => e # ""

LEMMA Ranks ==
  ASSUME NEW e
  PROVE  \E k \in 0..4 : rank(e) = k /\ Ranked(e, k)
<1> DEFINE Fits(k) == Ranked(e, k)
<1> USE DEF Ranked
<1>1. ASSUME e # "fail", e # "pass", e # "", NEW k \in {1, 2} PROVE Fits(k)
  <2>1. k # 4 /\ k # 3
    OBVIOUS
  <2> QED
    BY <1>1, <2>1
<1>2. e # "fail" /\ e # "pass" => Fits(0)
  OBVIOUS
<1>3. CASE e = "fail"
  <2>1. rank(e) = 4
    BY <1>3 DEF rank
  <2>2. Fits(4)
    BY <1>3
  <2> QED
    BY <2>1, <2>2
<1>4. CASE e = "pass"
  <2>1. rank(e) = 3
    BY <1>4 DEF rank
  <2>2. Fits(3)
    BY <1>4
  <2> QED
    BY <2>1, <2>2
<1>5. CASE e \in {"softfail", "permerror", "temperror"}
  <2>1. rank(e) = 2
    BY <1>5 DEF rank
  <2>2. e # "fail" /\ e # "pass" /\ e # ""
    BY <1>5
  <2>3. Fits(2)
    BY <1>1, <2>2
  <2> HIDE DEF Ranked
  <2> QED
    BY <2>1, <2>3
<1>6. CASE e \in {"neutral", "none"}
  <2>1. rank(e) = 1
    BY <1>6 DEF rank
  <2>2. e # "fail" /\ e # "pass" /\ e # ""
    BY <1>6
  <2>3. Fits(1)
    BY <1>1, <2>2
  <2> HIDE DEF Ranked
  <2> QED
    BY <2>1, <2>3
<1>7. CASE e \notin {"fail", "pass", "softfail", "permerror", "temperror", "neutral", "none"}
  <2>1. rank(e) = 0
    BY <1>7 DEF rank
  <2>2. Fits(0)
    BY <1>2, <1>7
  <2> QED
    BY <2>1, <2>2
<1> QED
  BY <1>3, <1>4, <1>5, <1>6, <1>7

\* One more result never covers up a stronger one, nor is it lost to a weaker.
LEMMA Stronger ==
  ASSUME NEW e, NEW x
  PROVE  /\ strongerResult(e, x) \in {e, x}
         /\ strongerResult(e, x) = "fail" <=> e = "fail" \/ x = "fail"
         /\ strongerResult(e, x) = "pass"
              <=> (e = "pass" \/ x = "pass") /\ e # "fail" /\ x # "fail"
         /\ strongerResult(e, x) = "" <=> e = "" /\ x = ""
<1>1. PICK k \in 0..4 : rank(e) = k /\ Ranked(e, k)
  BY Ranks
<1>2. PICK n \in 0..4 : rank(x) = n /\ Ranked(x, n)
  BY Ranks
<1>3. strongerResult(e, x) = IF e = "" \/ n > k THEN x ELSE e
  BY <1>1, <1>2 DEF strongerResult
<1>4. /\ n > k /\ k = 4 => FALSE
      /\ n > k /\ k = 3 => n = 4
      /\ n > k /\ n = 0 => FALSE
      /\ ~(n > k) /\ n = 4 => k = 4
      /\ ~(n > k) /\ n = 3 => k \in {3, 4}
  OBVIOUS
<1>5. CASE e = "" \/ n > k
  <2>1. strongerResult(e, x) = x
    BY <1>3, <1>5
  <2>2. e = "fail" => x = "fail"
    BY <1>1, <1>2, <1>4, <1>5 DEF Ranked
  <2>3. e = "pass" => x = "fail"
    BY <1>1, <1>2, <1>4, <1>5 DEF Ranked
  <2>4. x = "" => e = ""
    BY <1>1, <1>2, <1>4, <1>5 DEF Ranked
  <2>5. x = "fail" => x # "pass"
    OBVIOUS
  <2> QED
    BY <2>1, <2>2, <2>3, <2>4, <2>5
<1>6. CASE ~(e = "" \/ n > k)
  <2>1. strongerResult(e, x) = e
    BY <1>3, <1>6
  <2>2. x = "fail" => e = "fail"
    BY <1>1, <1>2, <1>4, <1>6 DEF Ranked
  <2>3. x = "pass" => e = "fail" \/ e = "pass"
    BY <1>1, <1>2, <1>4, <1>6 DEF Ranked
  <2>4. e = "pass" => e # "fail"
    OBVIOUS
  <2> QED
    BY <1>6, <2>1, <2>2, <2>3, <2>4
<1> QED
  BY <1>5, <1>6

\* Some of the first n fields says r.
Says(reports, method, n, r) == \E i \in 1..n : reports[i][method] = r

\* result is what the first n fields come to.
Weighs(reports, method, n, result) ==
  /\ result = "fail" <=> Says(reports, method, n, "fail")
  /\ result = "pass" <=> /\ Says(reports, method, n, "pass")
                         /\ ~Says(reports, method, n, "fail")
  /\ result = "" <=> \A i \in 1..n : reports[i][method] = ""

LEMMA OneMore ==
  ASSUME NEW reports, NEW method, NEW n \in Nat, NEW e, Weighs(reports, method, n, e)
  PROVE  Weighs(reports, method, n + 1, strongerResult(e, reports[n + 1][method]))
<1> DEFINE x == reports[n + 1][method]
<1>1. ASSUME NEW r
      PROVE  Says(reports, method, n + 1, r) <=> Says(reports, method, n, r) \/ x = r
  <2>1. \A i \in 1..(n + 1) : i \in 1..n \/ i = n + 1
    OBVIOUS
  <2>2. 1..n \subseteq 1..(n + 1) /\ n + 1 \in 1..(n + 1)
    OBVIOUS
  <2> QED
    BY <2>1, <2>2 DEF Says
<1>2. (\A i \in 1..(n + 1) : reports[i][method] = "")
        <=> (\A i \in 1..n : reports[i][method] = "") /\ x = ""
  <2>1. \A i \in 1..(n + 1) : i \in 1..n \/ i = n + 1
    OBVIOUS
  <2>2. 1..n \subseteq 1..(n + 1) /\ n + 1 \in 1..(n + 1)
    OBVIOUS
  <2> QED
    BY <2>1, <2>2
<1> HIDE DEF x
<1> DEFINE more == strongerResult(e, x)
<1>3. /\ more = "fail" <=> e = "fail" \/ x = "fail"
      /\ more = "pass" <=> (e = "pass" \/ x = "pass") /\ e # "fail" /\ x # "fail"
      /\ more = "" <=> e = "" /\ x = ""
  BY Stronger
<1>4. /\ Says(reports, method, n + 1, "fail") <=> Says(reports, method, n, "fail") \/ x = "fail"
      /\ Says(reports, method, n + 1, "pass") <=> Says(reports, method, n, "pass") \/ x = "pass"
  BY <1>1
<1> HIDE DEF more
<1>5. more = "fail" <=> Says(reports, method, n + 1, "fail")
  BY <1>3, <1>4 DEF Weighs
<1>6. more = "pass" <=> Says(reports, method, n + 1, "pass")
                        /\ ~Says(reports, method, n + 1, "fail")
  BY <1>3, <1>4 DEF Weighs
<1>7. more = "" <=> \A i \in 1..(n + 1) : reports[i][method] = ""
  BY <1>2, <1>3 DEF Weighs
<1>8. Weighs(reports, method, n + 1, more)
  BY <1>5, <1>6, <1>7 DEF Weighs
<1> QED
  BY <1>8 DEF more, x

LEMMA CombinedWeighs ==
  ASSUME NEW reports, NEW method, Len(reports) \in Nat
  PROVE  Weighs(reports, method, Len(reports), Combined(reports, method))
<1> DEFINE len == Len(reports)
           A == {""} \union {reports[i][method] : i \in 1..len}
           step == [x \in A \X (1..len) |-> strongerResult(x[1], reports[x[2]][method])]
           Runs(g) == g = [n \in 0..len |-> IF n = 0 THEN ""
                              ELSE strongerResult(g[n - 1], reports[n][method])]
           read == CHOOSE g : Runs(g)
<1>1. len \in Nat
  OBVIOUS
<1>2. "" \in A /\ \A e \in A, n \in 1..len : strongerResult(e, reports[n][method]) \in A
  BY DEF strongerResult
<1> HIDE DEF A, len
<1>3. step \in [A \X (1..len) -> A]
  BY <1>2
<1>4. \E g : Runs(g)
  <2> HIDE DEF step
  <2>1. HasRun(A, "", len, step)
    BY <1>1, <1>2, <1>3, Recursion
  <2>2. PICK g \in [0..len -> A] : g[0] = "" /\ \A n \in 1..len : g[n] = step[<<g[n - 1], n>>]
    BY <2>1 DEF HasRun
  <2>3. \A n \in 1..len : step[<<g[n - 1], n>>] = strongerResult(g[n - 1], reports[n][method])
    <3> TAKE n \in 1..len
    <3>1. n - 1 \in 0..len
      BY <1>1
    <3>2. g[n - 1] \in A
      BY <2>2, <3>1
    <3> QED
      BY <3>2 DEF step
  <2>4. \A n \in 0..len : g[n] = IF n = 0 THEN ""
                                 ELSE strongerResult(g[n - 1], reports[n][method])
    <3> TAKE n \in 0..len
    <3>1. n # 0 => n \in 1..len
      BY <1>1
    <3> QED
      BY <2>2, <2>3, <3>1
  <2>5. DOMAIN g = 0..len /\ g = [n \in 0..len |-> g[n]]
    BY <2>2
  <2> QED
    BY <2>4, <2>5
<1>5. Runs(read)
  BY <1>4
<1>6. Combined(reports, method) = read[len]
  BY DEF Combined, len
<1> HIDE DEF read
<1> DEFINE S == {n \in Nat : n <= len => Weighs(reports, method, n, read[n])}
<1>7. 0 \in S
  <2>1. read[0] = ""
    <3>1. 0 \in 0..len
      BY <1>1
    <3> QED
      BY <1>5, <3>1
  <2>2. Weighs(reports, method, 0, "")
    BY DEF Weighs, Says
  <2> QED
    BY <2>1, <2>2
<1>8. ASSUME NEW n \in S PROVE n + 1 \in S
  <2> SUFFICES ASSUME n + 1 <= len PROVE Weighs(reports, method, n + 1, read[n + 1])
    OBVIOUS
  <2>1. n + 1 \in 0..len /\ n + 1 # 0 /\ (n + 1) - 1 = n /\ n \in Nat
    BY <1>1
  <2>2. read[n + 1] = strongerResult(read[n], reports[n + 1][method])
    BY <1>5, <2>1
  <2>3. Weighs(reports, method, n, read[n])
    BY <1>1
  <2> QED
    BY <2>1, <2>2, <2>3, OneMore
<1> HIDE DEF S
<1>9. S = Nat
  <2>1. S \in SUBSET Nat
    BY DEF S
  <2> QED
    BY <1>7, <1>8, <2>1, SetInduction
<1>10. Weighs(reports, method, len, read[len])
  BY <1>1, <1>9 DEF S
<1> QED
  BY <1>6, <1>10 DEF len

-----------------------------------------------------------------------------
(***************************************************************************)
(* The fields that report stay a list on the way, and what the gateway has    *)
(* made of them is what it makes of the message as it is.                    *)
(***************************************************************************)
ReportsInv ==
  /\ IsSequence(msg.reports)
  /\ phase = "verified" => reported = parseAuthResults(msg)

LEMMA ReportsList ==
  ASSUME IInv, ReportsInv
  PROVE  Len(Reports(msg)) \in Nat /\ DOMAIN Reports(msg) = 1..Len(Reports(msg))
<1> DEFINE found == [i \in DOMAIN msg.arc |-> [msg.arc[i].aar EXCEPT !.id = "i="]]
           R == Ranging(found)
           S == Ranging(msg.reports) \union R
<1>1. IsSequence(msg.arc)
  BY DEF IInv, TransitInv, IsMessage
<1>2. Len(msg.arc) \in Nat /\ DOMAIN msg.arc = 1..Len(msg.arc)
  BY <1>1, SequenceDomain
<1>3. found \in [1..Len(msg.arc) -> R]
  BY <1>2 DEF Ranging
<1> HIDE DEF found, R
<1>4. found \in Seq(R)
  BY <1>2, <1>3, SeqDef
<1>5. Len(found) \in Nat /\ found \in [1..Len(found) -> R]
  BY <1>4, LenProperties
<1>6. Reverse(found) \in Seq(R)
  <2>1. Reverse(found) \in [1..Len(found) -> R]
    BY <1>5 DEF Reverse
  <2> QED
    BY <1>5, <2>1, SeqDef
<1>7. msg.reports \in Seq(Ranging(msg.reports))
  BY DEF ReportsInv, IsSequence
<1> HIDE DEF S
<1>8. msg.reports \in Seq(S) /\ Reverse(found) \in Seq(S)
  BY <1>6, <1>7, SeqMonotonic DEF S
<1>9. msg.reports \o Reverse(found) \in Seq(S)
  BY <1>8, ConcatProperties
<1>10. Reports(msg) = msg.reports \o Reverse(found)
  BY DEF Reports, found
<1> QED
  BY <1>9, <1>10, LenProperties

LEMMA ReportsInit ==
  ASSUME Init
  PROVE  ReportsInv
<1>1. PICK d \in Authors, r \in Reported :
        msg = [from |-> <<d>>, subject |-> "subject", body |-> <<"text">>,
               wrapped |-> FALSE, dkim |-> <<>>, arc |-> <<>>,
               reports |-> r.fields, receivedSpf |-> r.receivedSpf]
  BY DEF Init
<1>2. IsSequence(r.fields)
  BY MessageAuthAssumption, TypedSequence DEF MessageAuthAssumption
<1>3. msg.reports = r.fields
  BY <1>1
<1>4. phase = "compose"
  BY DEF Init
<1> QED
  BY <1>2, <1>3, <1>4 DEF ReportsInv

\* An edit of some other field leaves the reports.
LEMMA Unreported ==
  ASSUME NEW m, HasFields(m), NEW x
  PROVE  /\ [m EXCEPT !.from = x].reports = m.reports
         /\ [m EXCEPT !.body = x].reports = m.reports
         /\ [m EXCEPT !.dkim = x].reports = m.reports
         /\ [m EXCEPT !.arc = x].reports = m.reports
         /\ [m EXCEPT !.subject = x].reports = m.reports
         /\ [m EXCEPT !.wrapped = x].reports = m.reports
  BY DEF HasFields

LEMMA ReportsNext ==
  ASSUME IInv, ReportsInv, [Next]_vars
  PROVE  ReportsInv'
<1>1. HasFields(msg)
  BY DEF IInv, TransitInv, IsMessage
<1>2. ASSUME phase' # "verified", msg'.reports = msg.reports PROVE ReportsInv'
  BY <1>2 DEF ReportsInv
<1>3. ASSUME NEW d, NEW by, NEW o, AddSignature(d, by, o) PROVE msg'.reports = msg.reports
  <2>1. msg' = [msg EXCEPT !.dkim = <<SignatureBy(msg, d, by, o)>> \o msg.dkim]
    BY <1>3 DEF AddSignature
  <2> QED
    BY <1>1, <2>1, Unreported
<1>4. ASSUME Edit PROVE phase' # "verified"
  BY <1>4 DEF Edit
<1>5. ASSUME NEW n, Rewrite(n), n.reports = msg.reports PROVE ReportsInv'
  BY <1>2, <1>4, <1>5 DEF Rewrite
<1>6. CASE Submit
  <2>1. phase' # "verified"
    BY <1>6 DEF Submit
  <2>2. msg'.reports = msg.reports
    BY <1>3, <1>6 DEF Submit
  <2> QED
    BY <1>2, <2>1, <2>2
<1>7. ASSUME NEW d \in Signers, NEW o, Sign(d, o) \/ SignAsOther(d, o) PROVE ReportsInv'
  BY <1>2, <1>3, <1>4, <1>7 DEF Sign, SignAsOther
<1>8. ASSUME NEW d, NEW by, NEW o, NEW cv, Seal(d, by, o, cv) PROVE ReportsInv'
  <2>1. Edit
    BY <1>8 DEF Seal
  <2>2. \E after : msg' = [msg EXCEPT !.arc = after]
    BY <1>8 DEF Seal
  <2>3. msg'.reports = msg.reports
    BY <1>1, <2>2, Unreported
  <2> QED
    BY <1>2, <1>4, <2>1, <2>3
<1>9. ASSUME NEW d \in Domain, AddFrom(d) PROVE ReportsInv'
  BY <1>1, <1>5, <1>9, Unreported DEF AddFrom
<1>10. CASE ChangeHeader
  BY <1>1, <1>5, <1>10, Unreported DEF ChangeHeader
<1>11. CASE ChangeBody
  BY <1>1, <1>5, <1>11, Unreported DEF ChangeBody
<1>12. CASE DamageChain
  BY <1>1, <1>5, <1>12, Unreported DEF DamageChain
<1>13. ASSUME NEW dns \in Dns, VerifyAuth(dns) PROVE ReportsInv'
  <2>1. reported' = parseAuthResults(msg) /\ msg' = msg
    BY <1>13 DEF VerifyAuth
  <2>2. reported' = parseAuthResults(msg')
    BY <2>1
  <2> QED
    BY <2>1, <2>2 DEF ReportsInv
<1>14. CASE UNCHANGED vars
  BY <1>14 DEF vars, ReportsInv
<1>15. ASSUME NEW d \in Signers, NEW o \in SealOptions, NEW cv,
              Seal(d, d, o, cv) \/ Seal(d, NoDomain, o, cv)
       PROVE  ReportsInv'
  BY <1>8, <1>15
<1> QED
  BY <1>6, <1>7, <1>9, <1>10, <1>11, <1>12, <1>13, <1>14, <1>15 DEF Next

\* What the gateway reports of a method is what the fields come to.
LEMMA ReportedOf ==
  ASSUME IInv, ReportsInv, phase = "verified"
  PROVE  FailureIsNotErased
<1> DEFINE q == Reports(msg)
           len == Len(q)
<1>1. len \in Nat /\ DOMAIN q = 1..len
  BY ReportsList
<1>2. \A method : Weighs(q, method, len, Combined(q, method))
  BY <1>1, CombinedWeighs
<1>3. reported = parseAuthResults(msg)
  BY DEF ReportsInv
<1>4. /\ reported.spf = IF Combined(q, "spf") = "" THEN msg.receivedSpf ELSE Combined(q, "spf")
      /\ reported.dkim = Combined(q, "dkim") /\ reported.dmarc = Combined(q, "dmarc")
  BY <1>3 DEF parseAuthResults
<1> HIDE DEF q
<1>5. ASSUME NEW method \in {"dkim", "dmarc"}
      PROVE  /\ reported[method] = "fail" <=> Says(q, method, len, "fail")
             /\ reported[method] = "pass"
                  <=> Says(q, method, len, "pass") /\ ~Says(q, method, len, "fail")
  BY <1>2, <1>4 DEF Weighs
<1>6. CASE Combined(q, "spf") = ""
  <2>1. reported.spf = msg.receivedSpf /\ \A i \in 1..len : q[i].spf = ""
    BY <1>2, <1>4, <1>6 DEF Weighs
  <2> QED
    BY <1>1, <1>5, <2>1 DEF FailureIsNotErased, Says, q
<1>7. CASE Combined(q, "spf") # ""
  <2>1. /\ reported.spf = "fail" <=> Says(q, "spf", len, "fail")
        /\ reported.spf = "pass"
             <=> Says(q, "spf", len, "pass") /\ ~Says(q, "spf", len, "fail")
        /\ ~ \A i \in 1..len : q[i].spf = ""
    BY <1>2, <1>4, <1>7 DEF Weighs
  <2> QED
    BY <1>1, <1>5, <2>1 DEF FailureIsNotErased, Says, q
<1> QED
  BY <1>6, <1>7

\* However many fields report on the message and in whatever order, a reported
\* failure is never covered up by a pass, nor either of them by anything else
\* (auth.go: strongerResult, parseAuthResults).
THEOREM FailureKept ==
  Spec => []FailureIsNotErased
<1>1. Init => ReportsInv
  BY ReportsInit
<1>2. IInv /\ ReportsInv /\ [Next]_vars => ReportsInv'
  BY ReportsNext
<1>3. IInv /\ ReportsInv => FailureIsNotErased
  <2>1. phase # "verified" => FailureIsNotErased
    BY DEF FailureIsNotErased
  <2> QED
    BY <2>1, ReportedOf
<1> QED
  BY <1>1, <1>2, <1>3, Invariance, PTL DEF Spec
=============================================================================
