--------------------------- MODULE PolicyRunProofs ---------------------------
(***************************************************************************)
(* Proofs about PolicyRun: type correctness, the finality of a block, and    *)
(* that neither an action nor a header edit of a message that goes on is     *)
(* lost, for every set of names, codes, messages and host actions and for    *)
(* runs of any length.                                                      *)
(***************************************************************************)
EXTENDS PolicyRun, TLAPS, WellFoundedInduction

(***************************************************************************)
(* A set of naturals that is not empty has a least element.                 *)
(***************************************************************************)
LEMMA LeastElement ==
  ASSUME NEW T, T \subseteq Nat, T # {}
  PROVE  \E x \in T : \A y \in T : x <= y
<1> DEFINE R == {ss \in Nat \X Nat : ss[1] < ss[2]}
<1>1. IsWellFoundedOn(R, Nat)
  BY NatLessThanWellFounded DEF OpToRel
<1>2. \E x \in T : \A y \in T : <<y, x>> \notin R
  <2> HIDE DEF R
  <2> QED  BY <1>1, WFMin
<1>3. PICK x \in T : \A y \in T : <<y, x>> \notin R
  BY <1>2
<1>4. ASSUME NEW y \in T PROVE x <= y
  <2>1. ~(y < x)
    BY <1>3
  <2> QED  BY <2>1
<1> QED  BY <1>4

(***************************************************************************)
(* The first action that blocks goes on deciding when others follow.         *)
(***************************************************************************)
LEMMA AppendKeepsFirstBlock ==
  ASSUME NEW acts \in Seq(Actions), NEW act \in Actions, NEW q \in BOOLEAN,
         policyDisposition(acts, q).code # 250
  PROVE  policyDisposition(Append(acts, act), q).code
           = policyDisposition(acts, q).code
<1> DEFINE longer == Append(acts, act)
           Blocking(s) == {i \in DOMAIN s : Blocks(s[i], q)}
           First(s) == CHOOSE i \in Blocking(s) : \A j \in Blocking(s) : i <= j
<1>1. /\ DOMAIN acts = 1..Len(acts) /\ Len(acts) \in Nat
      /\ DOMAIN longer = 1..(Len(acts) + 1)
      /\ \A i \in DOMAIN acts : longer[i] = acts[i]
  OBVIOUS
<1>2. Blocking(acts) # {}
  BY DEF policyDisposition
<1>3. Blocking(acts) \subseteq Blocking(longer) /\ Blocking(longer) \subseteq Nat
      /\ \A i \in Blocking(longer) : i \in Blocking(acts) \/ i = Len(acts) + 1
  BY <1>1
<1>4. PICK least \in Blocking(acts) : \A j \in Blocking(acts) : least <= j
  BY <1>2, <1>3, LeastElement
<1>5. \A j \in Blocking(longer) : least <= j
  BY <1>1, <1>3, <1>4
<1>6. First(acts) = least
  <2>1. First(acts) \in Blocking(acts) /\ \A j \in Blocking(acts) : First(acts) <= j
    BY <1>4
  <2> HIDE DEF First, Blocking
  <2> QED  BY <2>1, <1>3, <1>4
<1>7. First(longer) = least
  <2>1. First(longer) \in Blocking(longer) /\ \A j \in Blocking(longer) : First(longer) <= j
    BY <1>3, <1>4, <1>5
  <2> HIDE DEF First, Blocking
  <2> QED  BY <2>1, <1>3, <1>4, <1>5
<1>8. policyDisposition(acts, q).code = BlockCode(acts[First(acts)])
  BY <1>2 DEF policyDisposition
<1>9. policyDisposition(longer, q).code = BlockCode(longer[First(longer)])
  BY <1>2, <1>3 DEF policyDisposition
<1>10. longer[least] = acts[least]
  BY <1>1, <1>4
<1> HIDE DEF First, longer
<1> QED  BY <1>6, <1>7, <1>8, <1>9, <1>10 DEF longer

(***************************************************************************)
(* A blocked message is answered with a status of failure, and one that is   *)
(* not blocked has no action that blocks.                                   *)
(***************************************************************************)
LEMMA DispositionCode ==
  ASSUME NEW acts, NEW q
  PROVE  /\ policyDisposition(acts, q).code \in {250} \union 400..599
         /\ policyDisposition(acts, q).code = 250 =>
              \A i \in DOMAIN acts : ~Blocks(acts[i], q)
<1>1. \A a : BlockCode(a) \in 400..599
  BY DEF BlockCode
<1>2. CASE {i \in DOMAIN acts : Blocks(acts[i], q)} = {}
  BY <1>2 DEF policyDisposition
<1>3. CASE {i \in DOMAIN acts : Blocks(acts[i], q)} # {}
  <2>1. \E a : policyDisposition(acts, q).code = BlockCode(a)
    BY <1>3 DEF policyDisposition
  <2> QED  BY <1>1, <2>1
<1> QED  BY <1>2, <1>3

LEMMA RelayCode ==
  ASSUME NEW acts, NEW q, NEW host
  PROVE  /\ RelayDisposition(acts, q, host).code \in {250} \union 400..599
         /\ policyDisposition(acts, q \/ host).code # 250 =>
              RelayDisposition(acts, q, host).code
                = policyDisposition(acts, q \/ host).code
         /\ RelayDisposition(acts, q, host).code = 250 =>
              /\ policyDisposition(acts, q \/ host).code = 250
              /\ ~host => ~HasUnsupportedAction(acts)
<1>1. policyDisposition(acts, q \/ host).code \in {250} \union 400..599
  BY DispositionCode
<1> QED  BY <1>1 DEF RelayDisposition

(***************************************************************************)
(* What a policy notes is an action.                                        *)
(***************************************************************************)
LEMMA NotesAreActions ==
  /\ PlainActions \union AddressActions \subseteq Actions
  /\ \A v \in LookupVerbs \union LocalVerbs \union {"accept"} : Act(v) \in Actions
  /\ \A code \in Nat : SmtpError(code) \in Actions
<1> USE DEF Actions, Act, ActTo, SmtpError
<1>1. \A v \in Verbs : Act(v) \in Actions
  OBVIOUS
<1>2. \A v \in Verbs, r \in Addr : ActTo(v, r) \in Actions
  OBVIOUS
<1>3. "smtp_error" \in Verbs
  BY DEF Verbs
<1>4. {"accept", "discard", "drop", "bounce", "quarantine", "reject",
       "defer", "fileinto", "fileinto:Spam", "tag", "auto_reply", "add_to_digest", "log",
       "reply_with_smtp_dsn", "set_dlp", "skip_dlp", "skip_malware_check",
       "skip_spam_check", "skip_whitelist_check", "force_second_pass",
       "set_filter_rules"} \subseteq Verbs
  BY DEF Verbs, RejectVerbs, QuarantineVerbs, HostVerbs, PassVerbs, LocalVerbs
<1>5. LookupVerbs \union LocalVerbs \union {"accept"} \subseteq Verbs
  BY DEF Verbs, PassVerbs
<1>6. ReplaceVerbs \union CopyVerbs \subseteq Verbs
  BY DEF Verbs
<1>7. PlainActions \subseteq Actions
  <2> HIDE DEF Actions, Act
  <2> QED  BY <1>1, <1>4 DEF PlainActions
<1>8. AddressActions \subseteq Actions
  <2> HIDE DEF Actions, ActTo
  <2> QED  BY <1>2, <1>6 DEF AddressActions
<1>9. \A code \in Nat : SmtpError(code) \in Actions
  BY <1>3
<1> HIDE DEF Actions, Act, ActTo, SmtpError
<1> QED  BY <1>1, <1>5, <1>7, <1>8, <1>9

(***************************************************************************)
(* Recording a removal keeps what is recorded, covers the field, and records *)
(* no field twice.                                                          *)
(***************************************************************************)
LEMMA RemoveHeaderRecords ==
  ASSUME NEW names \in SUBSET Name, NEW n \in Name,
         \A l, m \in names : field[l] = field[m] => l = m
  PROVE  /\ RemoveHeader(names, n) \in SUBSET Name
         /\ names \subseteq RemoveHeader(names, n)
         /\ \E m \in RemoveHeader(names, n) : field[m] = field[n]
         /\ \A l, m \in RemoveHeader(names, n) : field[l] = field[m] => l = m
BY DEF RemoveHeader

LEMMA RemoveMetadataRecords ==
  ASSUME TypeOK
  PROVE  /\ RemoveMetadata \in SUBSET Name
         /\ removed \subseteq RemoveMetadata
         /\ \A n \in Metadata : \E m \in RemoveMetadata : field[m] = field[n]
         /\ \A l, m \in RemoveMetadata : field[l] = field[m] => l = m
<1>1. \A n \in Metadata : RemoveHeader(removed, n) # removed
                            => \A m \in removed : field[m] # field[n]
  BY DEF RemoveHeader
<1>2. \A n \in Metadata : RemoveHeader(removed, n) = removed
                            => \E m \in removed : field[m] = field[n]
  BY DEF RemoveHeader
<1> QED  BY <1>1, <1>2, PolicyRunAssumption DEF TypeOK, RemoveMetadata

(***************************************************************************)
(* The invariant is inductive.                                              *)
(***************************************************************************)
LEMMA RunInvInit == Init => RunInv
<1> SUFFICES ASSUME Init PROVE RunInv
  OBVIOUS
<1>1. TypeOK
  BY PolicyRunAssumption DEF Init, TypeOK
<1>2. EditsRecorded /\ DecidedFromActions
  BY DEF Init, EditsRecorded, DecidedFromActions
<1> QED  BY <1>1, <1>2 DEF RunInv

LEMMA CallsBounded ==
  ASSUME TypeOK, InScript
  PROVE  calls' \in 0..MaxCalls
BY PolicyRunAssumption DEF TypeOK, InScript

\* The steps that only note an action.
LEMMA NotingKeepsInv ==
  ASSUME RunInv, InScript, UNCHANGED <<phase, headerVars>>,
         actions' \in Seq(Actions)
  PROVE  RunInv'
<1> USE DEF configVars, headerVars, messageVars
<1>0. TypeOK /\ calls' \in 0..MaxCalls
  BY CallsBounded DEF RunInv
<1>1. TypeOK'
  BY <1>0 DEF TypeOK, InScript
<1>2. EditsRecorded'
  BY DEF RunInv, EditsRecorded
<1>3. DecidedFromActions'
  BY DEF DecidedFromActions, InScript
<1> QED  BY <1>1, <1>2, <1>3 DEF RunInv

\* The steps that end a run without success.
LEMMA FailingKeepsInv ==
  ASSUME RunInv, RunFails
  PROVE  RunInv'
<1> USE DEF RunFails, configVars, headerVars, messageVars
<1>1. TypeOK'
  BY DEF RunInv, TypeOK
<1>2. EditsRecorded' /\ DecidedFromActions'
  BY DEF RunInv, EditsRecorded, DecidedFromActions
<1> QED  BY <1>1, <1>2 DEF RunInv

\* The steps that record removals.
LEMMA RemovingKeepsInv ==
  ASSUME RunInv, InScript, UNCHANGED <<phase, modified>>,
         actions' \in Seq(Actions),
         removed' \in SUBSET Name, removed \subseteq removed',
         \A l, m \in removed' : field[l] = field[m] => l = m,
         NEW gone \in SUBSET Field,
         \A f \in gone : \E m \in removed' : field[m] = f,
         asked' = [asked EXCEPT !.removed = @ \union gone]
  PROVE  RunInv'
<1>1. asked \in [removed : SUBSET Field, added : SUBSET Name]
  BY DEF RunInv, TypeOK
<1>2. /\ asked'.removed = asked.removed \union gone
      /\ asked'.added = asked.added
      /\ asked' \in [removed : SUBSET Field, added : SUBSET Name]
  BY <1>1
<1>3. TypeOK'
  <2>1. TypeOK /\ calls' \in 0..MaxCalls
    BY CallsBounded DEF RunInv
  <2> QED  BY <1>2, <2>1 DEF TypeOK, InScript, configVars, messageVars
<1>4. EditsRecorded'
  BY <1>2 DEF RunInv, EditsRecorded
<1>5. DecidedFromActions'
  BY DEF DecidedFromActions, InScript
<1> QED  BY <1>3, <1>4, <1>5 DEF RunInv

LEMMA RunInvNext == RunInv /\ [Next]_vars => RunInv'
<1> SUFFICES ASSUME RunInv, [Next]_vars PROVE RunInv'
  OBVIOUS
<1>0. actions \in Seq(Actions) /\ removed \in SUBSET Name /\ TypeOK
      /\ \A l, m \in removed : field[l] = field[m] => l = m
  BY DEF RunInv, TypeOK
<1>1. ASSUME NEW act \in PlainActions \union AddressActions, Note(act)
      PROVE  RunInv'
  <2>1. act \in Actions
    BY NotesAreActions
  <2>2. actions' \in Seq(Actions)
    BY <1>0, <1>1, <2>1 DEF Note
  <2> QED  BY <1>1, <2>2, NotingKeepsInv DEF Note
<1>2. ASSUME NEW v \in LookupVerbs, Lookup(v)
      PROVE  RunInv'
  <2>1. Act(v) \in Actions
    BY NotesAreActions
  <2>2. actions' \in Seq(Actions)
    BY <1>0, <1>2, <2>1 DEF Lookup
  <2> QED  BY <1>2, <2>2, NotingKeepsInv DEF Lookup
<1>3. ASSUME NEW code \in Codes, reply_with_smtp_error(code)
      PROVE  RunInv'
  <2>1. SmtpError(code) \in Actions
    BY NotesAreActions, PolicyRunAssumption
  <2>2. actions' \in Seq(Actions)
    BY <1>0, <1>3, <2>1 DEF reply_with_smtp_error
  <2> QED  BY <1>3, <2>2, NotingKeepsInv DEF reply_with_smtp_error
<1>4. ASSUME NEW code \in Codes, BadSmtpError(code)
      PROVE  RunInv'
  BY <1>4, FailingKeepsInv DEF BadSmtpError
<1>5. CASE clear_actions
  <2>1. actions' \in Seq(Actions)
    BY <1>5 DEF clear_actions
  <2> QED  BY <1>5, <2>1, NotingKeepsInv DEF clear_actions
<1>6. ASSUME NEW n \in Name, add_header(n)
      PROVE  RunInv'
  <2>1. Act("add_header") \in Actions
    BY NotesAreActions DEF LocalVerbs
  <2>2. actions' \in Seq(Actions)
    BY <1>0, <1>6, <2>1 DEF add_header
  <2>3. asked \in [removed : SUBSET Field, added : SUBSET Name]
    BY <1>0 DEF TypeOK
  <2>4. /\ asked'.removed = asked.removed
        /\ asked'.added = asked.added \union {n}
        /\ asked' \in [removed : SUBSET Field, added : SUBSET Name]
    BY <1>6, <2>3 DEF add_header
  <2>5. TypeOK'
    <3>1. InScript /\ calls' \in 0..MaxCalls
      BY <1>0, <1>6, CallsBounded DEF add_header
    <3> QED  BY <1>0, <1>6, <2>2, <2>4, <3>1
       DEF TypeOK, add_header, InScript, configVars, messageVars
  <2>6. EditsRecorded'
    BY <1>6, <2>4 DEF RunInv, EditsRecorded, add_header
  <2>7. DecidedFromActions'
    BY <1>6 DEF DecidedFromActions, add_header, InScript
  <2> QED  BY <2>5, <2>6, <2>7 DEF RunInv
<1>7. ASSUME NEW n \in Name, remove_header(n)
      PROVE  RunInv'
  <2>1. Act("remove_header") \in Actions
    BY NotesAreActions DEF LocalVerbs
  <2>2. actions' \in Seq(Actions)
    BY <1>0, <1>7, <2>1 DEF remove_header
  <2>3. /\ removed' \in SUBSET Name /\ removed \subseteq removed'
        /\ \E m \in removed' : field[m] = field[n]
        /\ \A l, m \in removed' : field[l] = field[m] => l = m
    BY <1>0, <1>7, RemoveHeaderRecords DEF remove_header
  <2>4. {field[n]} \in SUBSET Field
    BY PolicyRunAssumption
  <2> QED  BY <1>7, <2>2, <2>3, <2>4, RemovingKeepsInv DEF remove_header
<1>8. ASSUME NEW extra \in Name, protect_metadata(extra)
      PROVE  RunInv'
  <2> DEFINE gone == {field[n] : n \in Metadata \union {extra}}
  <2>1. Act("protect_metadata") \in Actions
    BY NotesAreActions DEF LocalVerbs
  <2>2. actions' \in Seq(Actions)
    BY <1>0, <1>8, <2>1 DEF protect_metadata
  <2>3. /\ removed' \in SUBSET Name /\ RemoveMetadata \subseteq removed'
        /\ \E m \in removed' : field[m] = field[extra]
        /\ \A l, m \in removed' : field[l] = field[m] => l = m
    BY <1>0, <1>8, RemoveMetadataRecords, RemoveHeaderRecords DEF protect_metadata
  <2>4. removed \subseteq removed' /\ \A f \in gone : \E m \in removed' : field[m] = f
    BY <1>0, <2>3, RemoveMetadataRecords
  <2>5. gone \in SUBSET Field
    BY PolicyRunAssumption
  <2>6. asked' = [asked EXCEPT !.removed = @ \union gone]
    BY <1>8 DEF protect_metadata
  <2> HIDE DEF gone
  <2> QED  BY <1>8, <2>2, <2>3, <2>4, <2>5, <2>6, RemovingKeepsInv DEF protect_metadata
<1>9. CASE ProtectMetadataFails
  <2>1. /\ removed' \in SUBSET Name /\ removed \subseteq removed'
        /\ \A l, m \in removed' : field[l] = field[m] => l = m
    BY <1>0, <1>9, RemoveMetadataRecords DEF ProtectMetadataFails
  <2>2. TypeOK'
    BY <1>0, <1>9, <2>1 DEF TypeOK, ProtectMetadataFails, configVars, messageVars
  <2>3. EditsRecorded'
    BY <1>9, <2>1 DEF RunInv, EditsRecorded, ProtectMetadataFails
  <2>4. DecidedFromActions'
    BY <1>9 DEF DecidedFromActions, ProtectMetadataFails
  <2> QED  BY <2>2, <2>3, <2>4 DEF RunInv
<1>10. CASE Cancel
  BY <1>10, FailingKeepsInv DEF Cancel
<1>11. CASE Return
  <2>1. Act("accept") \in Actions
    BY NotesAreActions
  <2>2. actions' \in Seq(Actions)
    BY <1>0, <1>11, <2>1 DEF Return
  <2>3. TypeOK'
    BY <1>0, <1>11, <2>2 DEF TypeOK, Return, configVars, headerVars, messageVars
  <2>4. EditsRecorded' /\ DecidedFromActions'
    BY <1>11 DEF RunInv, EditsRecorded, DecidedFromActions, Return, headerVars
  <2> QED  BY <2>3, <2>4 DEF RunInv
<1>12. CASE Decide
  <2>1. Disposition.code \in {250} \union 400..599
    BY RelayCode DEF Disposition
  <2>2. /\ UNCHANGED <<forwardQuarantine, hostAdapter, evaluate, calls, actions,
                       modified, removed, asked>>
        /\ headers' = Strip /\ added' = modified /\ verdict' = Disposition.code
    BY <1>12 DEF Decide, applyHeaderChanges, configVars, headerVars
  <2>3. /\ phase' \in {"refused", "relayed", "handed", "unsupported"}
        /\ phase' # "refused" => Disposition.code = 250
        /\ phase' = "relayed" => ~hostAdapter
        /\ phase' = "handed" => HostUnderstands(actions, Advertised)
    BY <1>12 DEF Decide
  <2>4. TypeOK'
    BY <1>0, <2>1, <2>2, <2>3 DEF TypeOK, Strip
  <2>5. EditsRecorded'
    BY <2>2 DEF RunInv, EditsRecorded
  <2>6. DecidedFromActions'
    BY <1>0, <2>2, <2>3 DEF DecidedFromActions, Strip, TypeOK, Disposition
  <2> QED  BY <2>4, <2>5, <2>6 DEF RunInv
<1>13. CASE UNCHANGED vars
  <2> USE <1>13 DEF vars, configVars, headerVars, messageVars
  <2>1. TypeOK'
    BY <1>0 DEF TypeOK
  <2>2. EditsRecorded' /\ DecidedFromActions'
    BY DEF RunInv, EditsRecorded, DecidedFromActions, Disposition
  <2> QED  BY <2>1, <2>2 DEF RunInv
<1> QED  BY <1>1, <1>2, <1>3, <1>4, <1>5, <1>6, <1>7, <1>8, <1>9, <1>10, <1>11,
            <1>12, <1>13 DEF Next

THEOREM RunInvariance == Spec => []RunInv
BY RunInvInit, RunInvNext, PTL DEF Spec

(***************************************************************************)
(* Type correctness (TypeOK): in particular a status other than 250 that     *)
(* answers DATA is always a 4xx or 5xx one, and no field is recorded for     *)
(* removal in two spellings.                                               *)
(***************************************************************************)
THEOREM RunTypeCorrect == Spec => []TypeOK
<1>1. RunInv => TypeOK
  BY DEF RunInv
<1> QED  BY <1>1, RunInvariance, PTL

(***************************************************************************)
(* A message that goes on shows every header edit the script asked for       *)
(* (HeaderEditsHold).                                                       *)
(***************************************************************************)
THEOREM EditsSurvive == Spec => []HeaderEditsHold
<1>1. RunInv => HeaderEditsHold
  BY DEF RunInv, EditsRecorded, DecidedFromActions, HeaderEditsHold
<1> QED  BY <1>1, RunInvariance, PTL

(***************************************************************************)
(* A message that goes on leaves no action behind that nobody carries out    *)
(* (NothingIgnored).                                                        *)
(***************************************************************************)
THEOREM NoActionIsIgnored == Spec => []NothingIgnored
<1>1. RunInv => NothingIgnored
  <2> SUFFICES ASSUME RunInv, NEW i \in DOMAIN actions
               PROVE  /\ phase = "relayed" =>
                           \/ actions[i].verb \in CarriedOut
                           \/ /\ actions[i].verb \in {"quarantine", "fileinto:Spam"}
                              /\ forwardQuarantine
                      /\ phase = "handed" =>
                           NameOf(actions[i]) \in Advertised \union
                             {"log", "add_header", "remove_header", "protect_metadata"}
    BY DEF NothingIgnored
  <2>1. actions[i].verb \in Verbs
    <3>1. actions \in Seq(Actions)
      BY DEF RunInv, TypeOK
    <3>2. actions[i] \in Actions
      BY <3>1
    <3> QED  BY <3>2 DEF Actions
  <2>2. CASE phase = "relayed"
    <3>1. /\ ~hostAdapter /\ hostAdapter \in BOOLEAN
          /\ RelayDisposition(actions, forwardQuarantine, hostAdapter).code = 250
      BY <2>2 DEF RunInv, TypeOK, DecidedFromActions, Disposition
    <3>2. /\ ~HasUnsupportedAction(actions)
          /\ policyDisposition(actions, forwardQuarantine \/ hostAdapter).code = 250
      BY <3>1, RelayCode
    <3>3. ~Blocks(actions[i], forwardQuarantine \/ hostAdapter)
      BY <3>2, DispositionCode
    <3>4. actions[i].verb \notin HostVerbs
      BY <3>2 DEF HasUnsupportedAction
    <3>5. /\ actions[i].verb \notin RejectVerbs \union {"defer", "smtp_error"}
          /\ actions[i].verb \in QuarantineVerbs => forwardQuarantine
      BY <3>1, <3>3 DEF Blocks
    <3>6. actions[i].verb \in QuarantineVerbs \union ReplaceVerbs \union CopyVerbs
                               \union PassVerbs
      BY <2>1, <3>4, <3>5 DEF Verbs
    <3> QED  BY <2>2, <3>5, <3>6 DEF CarriedOut, QuarantineVerbs, PassVerbs, LocalVerbs
  <2>3. CASE phase = "handed"
    <3>1. HostUnderstands(actions, Advertised)
      BY <2>3 DEF RunInv, DecidedFromActions
    <3> QED  BY <2>3, <3>1 DEF HostUnderstands, LocalVerbs
  <2> QED  BY <2>2, <2>3
<1> QED  BY <1>1, RunInvariance, PTL

(***************************************************************************)
(* Once a policy has blocked a message, it stays blocked with the status of  *)
(* the first blocking action until clear_actions (BlockIsFinal).            *)
(***************************************************************************)
THEOREM BlocksAreFinal == Spec => BlockIsFinal
<1> DEFINE Kept ==
      Blocked # 250 /\ actions' # <<>> =>
        /\ Blocked' = Blocked
        /\ phase' \notin {"relayed", "handed", "unsupported"}
        /\ phase' = "refused" => verdict' = Blocked
<1>1. RunInv /\ [Next]_vars => [Kept]_vars
  <2> SUFFICES ASSUME RunInv, Next, Blocked # 250, actions' # <<>>
               PROVE  /\ Blocked' = Blocked
                      /\ phase' \notin {"relayed", "handed", "unsupported"}
                      /\ phase' = "refused" => verdict' = Blocked
    OBVIOUS
  <2> DEFINE trusted == forwardQuarantine \/ hostAdapter
  <2>0. /\ actions \in Seq(Actions) /\ trusted \in BOOLEAN
        /\ policyDisposition(actions, trusted).code # 250
    BY DEF RunInv, TypeOK, Blocked
  <2>1. ASSUME NEW act \in Actions, actions' = Append(actions, act),
               InScript, UNCHANGED phase
        PROVE  /\ Blocked' = Blocked
               /\ phase' \notin {"relayed", "handed", "unsupported", "refused"}
    <3>1. policyDisposition(Append(actions, act), trusted).code
            = policyDisposition(actions, trusted).code
      BY <2>0, AppendKeepsFirstBlock
    <3>2. trusted' = trusted
      BY <2>1 DEF InScript, configVars
    <3>3. Blocked' = policyDisposition(actions', trusted').code
      BY DEF Blocked
    <3>4. Blocked' = Blocked
      BY <2>1, <3>1, <3>2, <3>3 DEF Blocked
    <3> QED  BY <2>1, <3>4 DEF InScript
  <2>2. ASSUME UNCHANGED <<forwardQuarantine, hostAdapter, actions>>,
               phase' \in {"failed", "decide"}
        PROVE  /\ Blocked' = Blocked
               /\ phase' \notin {"relayed", "handed", "unsupported", "refused"}
    BY <2>2 DEF Blocked
  <2>3. actions # <<>>
    <3>1. policyDisposition(<<>>, trusted).code = 250
      BY DEF policyDisposition
    <3> QED  BY <2>0, <3>1
  <2>4. ASSUME NEW act \in PlainActions \union AddressActions, Note(act)
        PROVE  Kept
    <3>1. act \in Actions
      BY NotesAreActions
    <3> QED  BY <2>1, <2>4, <3>1 DEF Note
  <2>5. ASSUME NEW v \in LookupVerbs, Lookup(v)
        PROVE  Kept
    <3>1. Act(v) \in Actions
      BY NotesAreActions
    <3> QED  BY <2>1, <2>5, <3>1 DEF Lookup
  <2>6. ASSUME NEW code \in Codes, reply_with_smtp_error(code)
        PROVE  Kept
    <3>1. SmtpError(code) \in Actions
      BY NotesAreActions, PolicyRunAssumption
    <3> QED  BY <2>1, <2>6, <3>1 DEF reply_with_smtp_error
  <2>7. ASSUME NEW n \in Name, add_header(n) \/ remove_header(n) \/ protect_metadata(n)
        PROVE  Kept
    <3>1. \A v \in {"add_header", "remove_header", "protect_metadata"} : Act(v) \in Actions
      BY NotesAreActions DEF LocalVerbs
    <3>2. \E act \in Actions : actions' = Append(actions, act)
      BY <2>7, <3>1 DEF add_header, remove_header, protect_metadata
    <3> QED  BY <2>1, <2>7, <3>2 DEF add_header, remove_header, protect_metadata
  <2>8. CASE clear_actions
    BY <2>8 DEF clear_actions
  <2>9. CASE Cancel \/ ProtectMetadataFails \/ \E code \in Codes : BadSmtpError(code)
    BY <2>2, <2>9 DEF Cancel, ProtectMetadataFails, BadSmtpError, RunFails, configVars
  <2>10. CASE Return
    BY <2>2, <2>3, <2>10 DEF Return, configVars
  <2>11. CASE Decide
    <3>1. Disposition.code = policyDisposition(actions, trusted).code
      BY <2>0, RelayCode DEF Disposition
    <3>2. Disposition.code # 250 /\ Disposition.code = Blocked
      BY <2>0, <3>1 DEF Blocked
    <3>3. phase' = "refused" /\ verdict' = Blocked
      BY <2>11, <3>2 DEF Decide
    <3>4. Blocked' = Blocked
      BY <2>11 DEF Decide, Blocked, configVars
    <3> QED  BY <3>3, <3>4
  <2> QED  BY <2>4, <2>5, <2>6, <2>7, <2>8, <2>9, <2>10, <2>11 DEF Next
<1>2. QED  BY <1>1, RunInvariance, PTL DEF Spec, BlockIsFinal
=============================================================================
