------------------------- MODULE PolicyDisposition -------------------------
(***************************************************************************)
(* How the delivery paths read the actions a policy leaves behind           *)
(* (cmd/mailscript/delivery.go, the tail of processWithMailScript).  A       *)
(* policy only accumulates actions; what happens to the message is decided   *)
(* afterwards, from the whole list.                                         *)
(*                                                                         *)
(* An action string "verb:argument" is a record: the verb, the address a     *)
(* redirect names, the number an smtp_error names (0 when it is no number).  *)
(* fileinto:Spam, which the code tells from other folders, is a verb.        *)
(* Reasons and logging are left out.                                        *)
(***************************************************************************)
EXTENDS Naturals, Sequences

CONSTANTS
  Addr,      \* envelope recipient addresses
  NoAddr     \* the address field of an action that names none

ASSUME AddrAssumption == NoAddr \notin Addr

\* An action whose argument the delivery code does not read.
Act(verb) == [verb |-> verb, to |-> NoAddr, code |-> 0]
ActTo(verb, r) == [verb |-> verb, to |-> r, code |-> 0]
SmtpError(code) == [verb |-> "smtp_error", to |-> NoAddr, code |-> code]

RejectVerbs == {"reject", "bounce", "drop", "discard"}

QuarantineVerbs == {"quarantine", "fileinto:Spam"}

\* Slip: the list misses the action of a builtin whose name differs from it.
HostVerbsIncomplete ==
  {"fileinto", "auto_reply", "force_second_pass", "reply_with_smtp_dsn",
   "set_dlp", "skip_dlp", "skip_malware_check", "skip_spam_check",
   "skip_whitelist_check", "set_filter_rules", "add_to_next_digest"}

\* Actions only a host that owns the mailbox can carry out.
HostVerbs ==
  {"fileinto", "auto_reply", "force_second_pass", "reply_with_smtp_dsn",
   "set_dlp", "skip_dlp", "skip_malware_check", "skip_spam_check",
   "skip_whitelist_check", "set_filter_rules", "add_to_digest"}

\* Actions that rewrite the envelope when the proxy itself delivers.
ReplaceVerbs == {"redirect", "divert_to"}
CopyVerbs == {"screen_to"}

\* Actions the host adapter never needs to know: the proxy has applied them.
LocalVerbs == {"log", "add_header", "remove_header", "protect_metadata"}

\* Notes the DNS lookup builtins leave among the actions.
LookupVerbs == {"rbl_check", "mx_rbl_check", "domain_resolve"}

PassVerbs == LocalVerbs \union LookupVerbs \union {"accept", "tag"}

Verbs == RejectVerbs \union QuarantineVerbs \union HostVerbs
           \union ReplaceVerbs \union CopyVerbs \union PassVerbs
           \union {"defer", "smtp_error"}

Actions == [verb : Verbs, to : Addr \union {NoAddr}, code : Nat]

(***************************************************************************)
(* policyDisposition: the first action that blocks decides.                 *)
(***************************************************************************)
Blocks(action, forwardQuarantine) ==
  \/ action.verb \in RejectVerbs \union {"defer", "smtp_error"}
  \/ action.verb \in QuarantineVerbs /\ ~forwardQuarantine

BlockCode(action) ==
  CASE action.verb = "defer" -> 451
    [] action.verb = "smtp_error" ->
         IF action.code \in 400..599 THEN action.code ELSE 451
    [] OTHER -> 550

\* Slip: the last action that blocks decides.
policyDispositionByLast(actions, forwardQuarantine) ==
  LET blocking == {i \in DOMAIN actions : Blocks(actions[i], forwardQuarantine)}
      last     == CHOOSE i \in blocking : \A j \in blocking : i >= j
  IN  IF blocking = {}
      THEN [code |-> 250,
            quarantine |-> \E i \in DOMAIN actions :
                             actions[i].verb \in QuarantineVerbs]
      ELSE [code |-> BlockCode(actions[last]), quarantine |-> FALSE]

policyDisposition(actions, forwardQuarantine) ==
  LET blocking == {i \in DOMAIN actions : Blocks(actions[i], forwardQuarantine)}
      first    == CHOOSE i \in blocking : \A j \in blocking : i <= j
  IN  IF blocking = {}
      THEN [code |-> 250,
            quarantine |-> \E i \in DOMAIN actions :
                             actions[i].verb \in QuarantineVerbs]
      ELSE [code |-> BlockCode(actions[first]), quarantine |-> FALSE]

\* unsupportedDeliveryAction # "": an action this process would have to ignore.
HasUnsupportedAction(actions) ==
  \E i \in DOMAIN actions : actions[i].verb \in HostVerbs

(***************************************************************************)
(* The decision processWithMailScript takes: the disposition, with a        *)
(* message that would be relayed deferred instead when its plan needs a host *)
(* and there is none.                                                       *)
(***************************************************************************)
RelayDisposition(actions, forwardQuarantine, hostAdapter) ==
  LET d == policyDisposition(actions, forwardQuarantine \/ hostAdapter)
  IN  IF d.code = 250 /\ HasUnsupportedAction(actions) /\ ~hostAdapter
      THEN [code |-> 451, quarantine |-> FALSE]
      ELSE d

\* The name the host adapter reads in an action string, up to the colon.
NameOf(action) ==
  IF action.verb = "fileinto:Spam" THEN "fileinto" ELSE action.verb

\* hostAdapter.deliver: the host has advertised what the plan asks of it.
HostUnderstands(actions, advertised) ==
  \A i \in DOMAIN actions : NameOf(actions[i]) \in LocalVerbs \union advertised

(***************************************************************************)
(* The recipients deliver() relays to: redirects replace the envelope,       *)
(* screening copies are added to it.                                        *)
(***************************************************************************)
AddressesOf(actions, verbs) ==
  {actions[i].to : i \in {j \in DOMAIN actions : actions[j].verb \in verbs}}

Rewrites(actions) ==
  AddressesOf(actions, ReplaceVerbs \union CopyVerbs) # {}

TargetRecipients(recipients, actions) ==
  LET replacements == AddressesOf(actions, ReplaceVerbs)
  IN  (IF replacements # {} THEN replacements ELSE recipients)
        \union AddressesOf(actions, CopyVerbs)
=============================================================================
