--------------------------- MODULE ReplyPipeline ---------------------------
(***************************************************************************)
(* Replies and the connection deadline, on a plaintext connection            *)
(* (handleSMTPConnection, handleDATA and writeLine in proxy.go).             *)
(*                                                                         *)
(* The command loop sets a deadline of five minutes before each command and  *)
(* nothing renews it while the command runs: receiving the message, the      *)
(* policy and the delivery of DATA share it.  Once it has passed, a write    *)
(* fails, writeLine drops the error, and the loop sets the next deadline.    *)
(* The client may send commands ahead (EHLO offers PIPELINING) and matches   *)
(* replies to what it sent by their order.  SmtpSession takes each reply to  *)
(* arrive, or the connection to be gone; this module looks at the rest.      *)
(***************************************************************************)
EXTENDS Naturals, Sequences

CONSTANT MaxCommands   \* bound of the model: commands the client sends

VARIABLES
  sent,      \* what the client has sent and the proxy has not read
  expect,    \* what the client awaits replies to, in order
  wire,      \* replies on their way to the client
  commands,  \* how many commands the client has sent
  proc,      \* the session: "loop", "body", "work", "closed"
  deadline,  \* "armed" or "expired"
  results,   \* how the delivery of each message ended
  told       \* what the client takes the answer to each message to be

vars == <<sent, expect, wire, commands, proc, deadline, results, told>>

Init ==
  /\ sent = <<>> /\ expect = <<>> /\ wire = <<>> /\ commands = 0
  /\ proc = "loop" /\ deadline = "armed"
  /\ results = <<>> /\ told = <<>>

\* DATA ends a pipelined group: the client waits for the 354.
Send(command) ==
  /\ commands < MaxCommands
  /\ expect # <<>> => expect[Len(expect)] # "DATA"
  /\ commands' = commands + 1
  /\ sent' = Append(sent, command)
  /\ expect' = Append(expect, command)
  /\ UNCHANGED <<wire, proc, deadline, results, told>>

Receive ==
  /\ wire # <<>> /\ expect # <<>>
  /\ wire' = Tail(wire)
  /\ \/ /\ Head(expect) = "DATA" /\ Head(wire) = "354"
        /\ sent' = Append(sent, "message")
        /\ expect' = Append(Tail(expect), "message")
        /\ UNCHANGED told
     \/ /\ Head(expect) = "message"
        /\ told' = Append(told, Head(wire))
        /\ expect' = Tail(expect) /\ UNCHANGED sent
     \/ /\ Head(expect) # "message" /\ <<Head(expect), Head(wire)>> # <<"DATA", "354">>
        /\ expect' = Tail(expect) /\ UNCHANGED <<sent, told>>
  /\ UNCHANGED <<commands, proc, deadline, results>>

\* writeLine: what cannot be written is dropped.
writeLine(reply) ==
  wire' = IF deadline = "armed" THEN Append(wire, reply) ELSE wire

\* The loop is back at its top: a new deadline.
NextCommand == proc' = "loop" /\ deadline' = "armed"

\* A command that takes no time: RSET, MAIL, RCPT.
Command ==
  /\ proc = "loop" /\ deadline = "armed"
  /\ sent # <<>> /\ Head(sent) \notin {"DATA", "message"}
  /\ sent' = Tail(sent)
  /\ writeLine("250")
  /\ NextCommand
  /\ UNCHANGED <<expect, commands, results, told>>

Data ==
  /\ proc = "loop" /\ deadline = "armed"
  /\ sent # <<>> /\ Head(sent) = "DATA"
  /\ sent' = Tail(sent)
  /\ writeLine("354")
  /\ proc' = "body"
  /\ UNCHANGED <<expect, commands, deadline, results, told>>

\* A read past the deadline fails.  What was in the read buffer by then is a
\* message read in time, whose deadline passes during the work.
ReadMessage ==
  /\ proc = "body" /\ deadline = "armed"
  /\ sent # <<>> /\ Head(sent) = "message"
  /\ sent' = Tail(sent)
  /\ proc' = "work"
  /\ UNCHANGED <<expect, wire, commands, deadline, results, told>>

\* The policy and the delivery, and the reply that ends DATA: what the next hop
\* did with the message is the status the client is to be told.
Deliver ==
  /\ proc = "work"
  /\ \E status \in {"250", "450"} :
       /\ results' = Append(results, status)
       /\ writeLine(status)
  /\ NextCommand
  /\ UNCHANGED <<sent, expect, commands, told>>

\* Five minutes have passed since the command was read.
Expire ==
  /\ proc # "closed" /\ deadline = "armed"
  /\ deadline' = "expired"
  /\ UNCHANGED <<sent, expect, wire, commands, proc, results, told>>

\* A read past the deadline fails and the session ends.
ReadTimesOut ==
  /\ proc \in {"loop", "body"} /\ deadline = "expired"
  /\ proc' = "closed"
  /\ UNCHANGED <<sent, expect, wire, commands, deadline, results, told>>

Next ==
  \/ \E command \in {"DATA", "RSET"} : Send(command)
  \/ Receive
  \/ Command \/ Data \/ ReadMessage \/ Deliver
  \/ Expire \/ ReadTimesOut

Spec == Init /\ [][Next]_vars

\* "Acceptance transfers responsibility only after upstream delivery"
\* (proxy.go:606): a client that reads 250 as the answer to a message reads it
\* of a message the next hop has taken.
AcceptedMeansDelivered ==
  \A i \in DOMAIN told : told[i] = "250" => results[i] = "250"
=============================================================================
