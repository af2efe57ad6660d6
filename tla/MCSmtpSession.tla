--------------------------- MODULE MCSmtpSession ---------------------------
(***************************************************************************)
(* Instances of SmtpSession: the values of its constants for the runs.       *)
(***************************************************************************)
EXTENDS SmtpSession

CONSTANTS a, b, c

MCAddr == {a, b, c}

\* Runs that leave the header of the marker alone, and one that writes it.
Leaving(plans) == [actions : plans, addsMarker : {FALSE}]
Marking(acts) == [actions |-> acts, addsMarker |-> TRUE]

\* One plan of each kind the delivery code tells apart, blocking actions
\* before and after others included; and a policy that writes the marker
\* itself, of a message it accepts and of one it quarantines.
RelayRuns ==
  Leaving({ <<>>,
    <<Act("accept"), Act("reject")>>,
    <<Act("defer"), Act("accept")>>,
    <<SmtpError(554), Act("defer")>>,
    <<Act("quarantine"), Act("tag")>>,
    <<Act("fileinto"), Act("log")>>,
    <<ActTo("redirect", c)>>,
    <<ActTo("screen_to", c)>>,
    <<ActTo("screen_to", a), ActTo("divert_to", b), ActTo("redirect", c)>>,
    <<ActTo("redirect", NoAddr)>> })
  \union { Marking(<<Act("add_header"), Act("accept")>>),
           Marking(<<Act("fileinto:Spam")>>) }

\* A relay with trusted quarantine, a submission service that also has a
\* service account, and a gateway that hands over to a delivery host.
Relay == [submission |-> FALSE, tls |-> FALSE, upstreamTLS |-> FALSE,
          serviceAccount |-> FALSE, forwardQuarantine |-> TRUE,
          hostAdapter |-> FALSE]
SubmissionService ==
  [Relay EXCEPT !.submission = TRUE, !.tls = TRUE, !.upstreamTLS = TRUE,
                !.serviceAccount = TRUE, !.forwardQuarantine = FALSE]
HostGateway == [Relay EXCEPT !.hostAdapter = TRUE, !.forwardQuarantine = FALSE]

AllConfigs == {Relay, SubmissionService, HostGateway}

\* Plans without rewriting, for the runs about sessions.
PlainRuns ==
  Leaving({ <<Act("accept")>>, <<Act("discard")>>, <<Act("quarantine")>> })

HostSupports == {"accept", "fileinto", "quarantine"}
=============================================================================
