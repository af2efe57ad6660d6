---------------------------- MODULE PolicyReload ----------------------------
(***************************************************************************)
(* The policy the proxy runs and its replacement while messages are being    *)
(* evaluated (pkg/rules/policy.go; reloadPolicy in lifecycle.go; the SIGHUP   *)
(* loop of runProxy in proxy.go).                                           *)
(*                                                                         *)
(* LoadPolicy reads the root script and, one after the other, the modules it *)
(* loads; an administrator may edit the files in between.  What it gathered  *)
(* is published as one snapshot, or thrown away at the first error.  The     *)
(* engine later walks the same way over the snapshot (thread.Load,           *)
(* engine.go), so both are walks over files that load files.                *)
(***************************************************************************)
EXTENDS Naturals, Sequences, FiniteSets

CONSTANTS
  File, root,
  Sources,      \* what a file may contain: [loads, ok, fails, actions]
  Versions,     \* states of the directory an administrator may leave: [File -> Sources]
  maxModules,   \* the limit on a snapshot
  MaxEdits, MaxSignals   \* bounds of the model

ASSUME PolicyReloadAssumption ==
  /\ root \in File /\ Versions \subseteq [File -> Sources]
  /\ \A s \in Sources : s.loads \in Seq(File) /\ s.ok \in BOOLEAN /\ s.fails \in BOOLEAN
  /\ maxModules \in Nat /\ MaxEdits \in Nat /\ MaxSignals \in Nat

VARIABLES
  files, edits,
  reload,      \* the signal channel, of capacity 1, holds a signal
  signals,
  reader,      \* LoadPolicy at work
  policy,      \* the published snapshot, a function from files to sources
  installed,   \* history: every snapshot published
  signalled    \* history: no file was edited since the last signal

reloadVars == <<files, edits, reload, signals, reader, policy, installed, signalled>>

NoPolicy == <<>>

(***************************************************************************)
(* A walk: the files being read, innermost first, each with its source and   *)
(* the loads still to follow; the sources read.                             *)
(***************************************************************************)
NoWalk == [status |-> "idle", stack |-> <<>>, done |-> <<>>]

Frame(file, source) == [file |-> file, source |-> source, todo |-> source.loads]

OnStack(walk, f) == \E i \in DOMAIN walk.stack : walk.stack[i].file = f

\* The walk after file f, whose source is given.
Enter(walk, f, source) ==
  IF source.ok THEN [walk EXCEPT !.stack = <<Frame(f, source)>> \o @]
  ELSE [walk EXCEPT !.status = "failed"]

\* The loads of the innermost file are done: it is kept as it was read.
Leave(walk) ==
  LET top == Head(walk.stack)
      rest == [walk EXCEPT !.stack = Tail(@),
                           !.done = [f \in {top.file} \union DOMAIN @ |->
                                       IF f = top.file THEN top.source ELSE @[f]]]
  IN  IF rest.stack = <<>> THEN [rest EXCEPT !.status = "complete"] ELSE rest

\* A load statement: a file already read is not read again, a file being read
\* is a cycle.  sources are the files there are.
Follow(walk, sources) ==
  LET f == Head(Head(walk.stack).todo)
      past == [walk EXCEPT !.stack[1].todo = Tail(@)]
  IN  CASE f \in DOMAIN walk.done -> past
        [] f \notin DOMAIN walk.done /\ (OnStack(walk, f) \/ f \notin DOMAIN sources) ->
             [walk EXCEPT !.status = "failed"]
        [] OTHER -> Enter(past, f, sources[f])

(***************************************************************************)
(* The proxy's main loop.                                                   *)
(***************************************************************************)
\* The first load comes before anything is served.
InitReload ==
  /\ files \in Versions /\ edits = 0
  /\ reload = TRUE /\ signals = 0
  /\ reader = NoWalk /\ policy = NoPolicy /\ installed = {} /\ signalled = TRUE

\* Slip: the signal is taken only while the loop waits for it.
SighupUnbuffered ==
  /\ signals < MaxSignals /\ signals' = signals + 1
  /\ reload' = (reload \/ reader.status = "idle")
  /\ signalled' = TRUE
  /\ UNCHANGED <<files, edits, reader, policy, installed>>

\* SIGHUP: a signal finding the channel full is dropped.
Sighup ==
  /\ signals < MaxSignals /\ signals' = signals + 1
  /\ reload' = TRUE /\ signalled' = TRUE
  /\ UNCHANGED <<files, edits, reader, policy, installed>>

\* The loop takes the signal; read opens the root script.
ReloadPolicy ==
  /\ reload /\ reader.status = "idle"
  /\ reload' = FALSE
  /\ reader' = Enter([NoWalk EXCEPT !.status = "reading"], root, files[root])
  /\ UNCHANGED <<files, edits, signals, policy, installed, signalled>>

\* The limits are looked at after each file is read.
WithinLimits(walk) ==
  Cardinality(DOMAIN walk.done) <= maxModules /\ Len(walk.stack) <= maxModules

ReadModule ==
  /\ reader.status = "reading" /\ Head(reader.stack).todo # <<>>
  /\ LET next == Follow(reader, files)
     IN  reader' = IF WithinLimits(next) THEN next ELSE [next EXCEPT !.status = "failed"]
  /\ UNCHANGED <<files, edits, reload, signals, policy, installed, signalled>>

\* Slip: what is kept is read again when the loads have been followed.
KeepSourceReread ==
  /\ reader.status = "reading" /\ Head(reader.stack).todo = <<>>
  /\ reader' = Leave([reader EXCEPT !.stack[1].source = files[reader.stack[1].file]])
  /\ UNCHANGED <<files, edits, reload, signals, policy, installed, signalled>>

KeepSource ==
  /\ reader.status = "reading" /\ Head(reader.stack).todo = <<>>
  /\ reader' = Leave(reader)
  /\ UNCHANGED <<files, edits, reload, signals, policy, installed, signalled>>

\* p.policy.Store.
Publish ==
  /\ reader.status = "complete"
  /\ policy' = reader.done /\ installed' = installed \union {reader.done}
  /\ reader' = NoWalk
  /\ UNCHANGED <<files, edits, reload, signals, signalled>>

\* An error: the policy in force stays, and at the start there is none to run.
RetainPrevious ==
  /\ reader.status = "failed"
  /\ reader' = IF policy = NoPolicy THEN [reader EXCEPT !.status = "stopped"] ELSE NoWalk
  /\ UNCHANGED <<files, edits, reload, signals, policy, installed, signalled>>

\* The administrator replaces one file.
EditFile(f) ==
  /\ edits < MaxEdits /\ edits' = edits + 1
  /\ \E v \in Versions : v[f] # files[f] /\ files' = [files EXCEPT ![f] = v[f]]
  /\ signalled' = FALSE
  /\ UNCHANGED <<reload, signals, reader, policy, installed>>

MainLoop == ReloadPolicy \/ ReadModule \/ KeepSource \/ Publish \/ RetainPrevious

NextReload == MainLoop \/ Sighup \/ \E f \in File : EditFile(f)
=============================================================================
