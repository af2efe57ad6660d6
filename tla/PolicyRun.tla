------------------------------ MODULE PolicyRun ------------------------------
(***************************************************************************)
(* One run of a policy over one message and what the gateway makes of it     *)
(* (pkg/rules: ExecuteEngineWithOptions and the builtins with an effect in    *)
(* engine.go, builtins_analysis.go and message.go; cmd/mailscript:            *)
(* processWithMailScript in proxy.go, deliver in host_adapter.go).           *)
(*                                                                         *)
(* A script is any sequence of builtin calls.  They only note what is to be   *)
(* done, in three places: the actions, the headers to add and the headers to  *)
(* remove.  The run may end at any call: by its own return, by an error of a  *)
(* builtin, or by the step or time limit.  What the gateway does with the     *)
(* message is decided afterwards.                                           *)
(*                                                                         *)
(* A header name as written belongs to a field, the name without its case.   *)
(* Values, and builtins that only read, are left out.                        *)
(***************************************************************************)
EXTENDS PolicyDisposition, FiniteSets

CONSTANTS
  Name,         \* header names a script writes
  Field,        \* header fields
  field,        \* the field of each name
  Metadata,     \* the names protect_metadata removes
  Codes,        \* numbers a script passes to reply_with_smtp_error
  Advertised,   \* the actions the delivery host advertises
  Messages,     \* the headers the client's message may have
  MaxCalls      \* bound of the model: calls of builtins with an effect

ASSUME PolicyRunAssumption ==
  /\ field \in [Name -> Field]
  /\ Metadata \subseteq Name
  /\ \A m, n \in Metadata : field[m] = field[n] => m = n
  /\ Messages \subseteq SUBSET Name
  /\ Codes \subseteq Nat
  /\ "accept" \in Advertised
  /\ MaxCalls \in Nat

VARIABLES
  forwardQuarantine, hostAdapter,  \* how the proxy was started
  evaluate,                        \* the script defines evaluate()
  phase,      \* "script", "decide", then the decision
  calls,
  actions, modified, removed,  \* MessageContext: Actions, ModifiedHeaders, RemovedHeaders
  headers,    \* headers of the client's message in s.data
  added,      \* headers prepended to s.data
  verdict,    \* s.replyCode
  asked       \* history: the fields the script removed, the names it added

configVars == <<forwardQuarantine, hostAdapter, evaluate>>
headerVars == <<modified, removed, asked>>
messageVars == <<headers, added>>
vars == <<configVars, phase, calls, actions, headerVars, messageVars, verdict>>

Init ==
  /\ forwardQuarantine \in BOOLEAN /\ hostAdapter \in BOOLEAN
  /\ evaluate \in BOOLEAN
  /\ phase = "script" /\ calls = 0
  /\ actions = <<>> /\ modified = {} /\ removed = {}
  /\ headers \in Messages /\ added = {}
  /\ verdict = 0 /\ asked = [removed |-> {}, added |-> {}]

InScript ==
  /\ phase = "script" /\ calls < MaxCalls
  /\ calls' = calls + 1
  /\ UNCHANGED <<configVars, messageVars, verdict>>

\* An error of a builtin, or the limits of the run: the whole run fails.
RunFails ==
  /\ phase' = "failed"
  /\ verdict' = 451
  /\ UNCHANGED <<configVars, calls, actions, headerVars, messageVars>>

(***************************************************************************)
(* The builtins.                                                            *)
(***************************************************************************)
PlainActions ==
  {Act(v) : v \in {"accept", "discard", "drop", "bounce", "quarantine", "reject",
                   "defer", "fileinto", "fileinto:Spam", "tag", "auto_reply",
                   "add_to_digest", "log", "reply_with_smtp_dsn", "set_dlp",
                   "skip_dlp", "skip_malware_check", "skip_spam_check",
                   "skip_whitelist_check", "force_second_pass", "set_filter_rules"}}

AddressActions == {ActTo(v, r) : v \in ReplaceVerbs \union CopyVerbs, r \in Addr}

Note(act) ==
  /\ InScript
  /\ act \in PlainActions \union AddressActions
  /\ actions' = Append(actions, act)
  /\ UNCHANGED <<phase, headerVars>>

\* rbl_check, mx_in_rbl, domain_resolution: what they return is not modelled.
Lookup(v) ==
  /\ InScript
  /\ actions' = Append(actions, Act(v))
  /\ UNCHANGED <<phase, headerVars>>

reply_with_smtp_error(code) ==
  /\ InScript
  /\ code \in 400..599
  /\ actions' = Append(actions, SmtpError(code))
  /\ UNCHANGED <<phase, headerVars>>

BadSmtpError(code) ==
  /\ phase = "script"
  /\ code \notin 400..599
  /\ RunFails

clear_actions ==
  /\ InScript
  /\ actions' = <<>>
  /\ UNCHANGED <<phase, headerVars>>

add_header(n) ==
  /\ InScript
  /\ modified' = modified \union {n}
  /\ actions' = Append(actions, Act("add_header"))
  /\ asked' = [asked EXCEPT !.added = @ \union {n}]
  /\ UNCHANGED <<phase, removed>>

\* Slip: recorded names are compared as they are written.
RemoveHeaderAsWritten(names, n) == names \union {n}

\* RemoveHeader: a field is recorded once, as first written.
RemoveHeader(names, n) ==
  IF \E m \in names : field[m] = field[n] THEN names ELSE names \union {n}

remove_header(n) ==
  /\ InScript
  /\ removed' = RemoveHeader(removed, n)
  /\ actions' = Append(actions, Act("remove_header"))
  /\ asked' = [asked EXCEPT !.removed = @ \union {field[n]}]
  /\ UNCHANGED <<phase, modified>>

RemoveMetadata == removed \union {n \in Metadata : RemoveHeader(removed, n) # removed}

protect_metadata(extra) ==
  /\ InScript
  /\ removed' = RemoveHeader(RemoveMetadata, extra)
  /\ actions' = Append(actions, Act("protect_metadata"))
  /\ asked' = [asked EXCEPT !.removed =
                 @ \union {field[n] : n \in Metadata \union {extra}}]
  /\ UNCHANGED <<phase, modified>>

\* An extra name no header can have is met after the others were recorded.
ProtectMetadataFails ==
  /\ phase = "script"
  /\ removed' = RemoveMetadata
  /\ phase' = "failed" /\ verdict' = 451
  /\ UNCHANGED <<configVars, calls, actions, modified, asked, messageVars>>

(***************************************************************************)
(* The end of the run.                                                      *)
(***************************************************************************)
\* Any other error, the step limit or the time limit.
Cancel == phase = "script" /\ RunFails

\* A script without evaluate() that left no action accepts.
Return ==
  /\ phase = "script"
  /\ phase' = "decide"
  /\ actions' = IF actions = <<>> /\ ~evaluate THEN <<Act("accept")>> ELSE actions
  /\ UNCHANGED <<configVars, calls, headerVars, messageVars, verdict>>

Strip == {n \in headers : \A m \in removed : field[m] # field[n]}

\* Slip: the script's own additions are there when the removals are applied.
ApplyAdditionsFirst ==
  /\ headers' = Strip
  /\ added' = {n \in modified : \A m \in removed : field[m] # field[n]}

\* applyHeaderChanges: removals, then additions.
applyHeaderChanges ==
  /\ headers' = Strip
  /\ added' = modified

Disposition == RelayDisposition(actions, forwardQuarantine, hostAdapter)

Decide ==
  /\ phase = "decide"
  /\ applyHeaderChanges
  /\ verdict' = Disposition.code
  /\ phase' = IF Disposition.code # 250 THEN "refused"
              ELSE IF ~hostAdapter THEN "relayed"
              ELSE IF HostUnderstands(actions, Advertised) THEN "handed"
              ELSE "unsupported"
  /\ UNCHANGED <<configVars, calls, actions, headerVars>>

Next ==
  \/ \E act \in PlainActions \union AddressActions : Note(act)
  \/ \E v \in LookupVerbs : Lookup(v)
  \/ \E code \in Codes : reply_with_smtp_error(code) \/ BadSmtpError(code)
  \/ clear_actions
  \/ \E n \in Name : add_header(n) \/ remove_header(n) \/ protect_metadata(n)
  \/ ProtectMetadataFails
  \/ Cancel \/ Return \/ Decide

Spec == Init /\ [][Next]_vars
-----------------------------------------------------------------------------
(***************************************************************************)
(* Properties                                                               *)
(***************************************************************************)
\* The type invariant; a field is recorded for removal once, however it is
\* spelt (message.go: RemoveHeader).
TypeOK ==
  /\ forwardQuarantine \in BOOLEAN /\ hostAdapter \in BOOLEAN /\ evaluate \in BOOLEAN
  /\ phase \in {"script", "decide", "failed", "refused", "relayed", "handed",
                "unsupported"}
  /\ calls \in 0..MaxCalls
  /\ actions \in Seq(Actions)
  /\ modified \subseteq Name /\ removed \subseteq Name
  /\ \A m, n \in removed : field[m] = field[n] => m = n
  /\ headers \subseteq Name /\ added \subseteq Name
  /\ verdict \in {0, 250} \union 400..599
  /\ asked \in [removed : SUBSET Field, added : SUBSET Name]

Blocked == policyDisposition(actions, forwardQuarantine \/ hostAdapter).code

(***************************************************************************)
(* Once a policy has blocked a message, nothing it does later but            *)
(* clear_actions lets the message through or changes the status the sender   *)
(* will read: "An accept() does not override a blocking action.  The first   *)
(* blocking action determines the SMTP failure" (docs/INTEGRATION.md:118).   *)
(***************************************************************************)
BlockIsFinal ==
  [][Blocked # 250 /\ actions' # <<>> =>
       /\ Blocked' = Blocked
       /\ phase' \notin {"relayed", "handed", "unsupported"}
       /\ phase' = "refused" => verdict' = Blocked]_vars

\* What the gateway itself does for an action of a message it relays: nothing
\* is left to do, it rewrites the envelope, or it marks the message.
CarriedOut ==
  {"accept", "log", "tag", "add_header", "remove_header", "protect_metadata"}
    \union LookupVerbs \union ReplaceVerbs \union CopyVerbs

(***************************************************************************)
(* A message that goes on leaves no action behind that nobody carries out:   *)
(* the gateway does all of them, or the host has said it can ("cannot be     *)
(* silently ignored when this process owns delivery", delivery.go:50).  The  *)
(* names of the builtins, the gateway's list and the host's are three.       *)
(***************************************************************************)
NothingIgnored ==
  \A i \in DOMAIN actions :
    /\ phase = "relayed" =>
         \/ actions[i].verb \in CarriedOut
         \/ actions[i].verb \in {"quarantine", "fileinto:Spam"} /\ forwardQuarantine
    /\ phase = "handed" =>
         NameOf(actions[i]) \in Advertised \union
           {"log", "add_header", "remove_header", "protect_metadata"}

(***************************************************************************)
(* A message that goes on carries none of the client's copies of a field the *)
(* script removed at any time, in any spelling, and every header it added,   *)
(* replacements of what it removed included; clear_actions takes back        *)
(* neither (engine.go: the edits are kept apart from the actions).           *)
(***************************************************************************)
HeaderEditsHold ==
  phase \in {"relayed", "handed"} =>
    /\ \A n \in headers : field[n] \notin asked.removed
    /\ asked.added \subseteq added

\* The invariant behind it: what the script has asked for is recorded, and a
\* message that goes on has been decided on from the actions it left.
EditsRecorded ==
  /\ \A f \in asked.removed : \E m \in removed : field[m] = f
  /\ asked.added \subseteq modified

DecidedFromActions ==
  phase \in {"relayed", "handed"} =>
    /\ headers \subseteq {n \in Name : \A m \in removed : field[m] # field[n]}
    /\ added = modified
    /\ Disposition.code = 250
    /\ phase = "relayed" => ~hostAdapter
    /\ phase = "handed" => HostUnderstands(actions, Advertised)

RunInv == TypeOK /\ EditsRecorded /\ DecidedFromActions

\* The actions a policy can ask for (SPEC.md:552, section 8.1), but those that
\* block and those for which the gateway answers itself.
SpecActions ==
  {"accept", "quarantine", "fileinto", "divert_to", "screen_to", "redirect", "tag",
   "auto_reply", "add_to_digest", "reply_with_smtp_dsn", "set_dlp", "skip_dlp",
   "skip_malware_check", "skip_spam_check", "skip_whitelist_check",
   "force_second_pass", "set_filter_rules"}

(***************************************************************************)
(* A host that executes every action there is, and says so, is handed every  *)
(* message that is not refused: it "must advertise accept and every delivery *)
(* action it can execute" (docs/INTEGRATION.md:133), and no lookup is one.   *)
(***************************************************************************)
FullHostIsAsked == SpecActions \subseteq Advertised => phase # "unsupported"
=============================================================================
