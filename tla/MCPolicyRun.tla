---------------------------- MODULE MCPolicyRun ----------------------------
(***************************************************************************)
(* Instances of PolicyRun: a field in two spellings and one in one.          *)
(***************************************************************************)
EXTENDS PolicyRun

MCAddr == {"monitor"}
MCName == {"X-Client-IP", "x-client-ip", "X-Note"}
MCField == {"client-ip", "note"}
MCfield == [n \in MCName |-> IF n = "X-Note" THEN "note" ELSE "client-ip"]
MCMetadata == {"X-Client-IP"}

\* A message with none of the headers, and one with each.
MCMessages == {{}, MCName}

\* Both ends of the range reply_with_smtp_error takes, and what is next to it.
MCCodes == {399, 400, 599, 600}

SomeActions == {"accept", "quarantine", "fileinto"}
=============================================================================
