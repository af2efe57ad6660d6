---------------------------- MODULE MailboxWalk ----------------------------
(***************************************************************************)
(* The commands that walk mailboxes: process (cmd/mailscript/process.go)      *)
(* evaluates the messages of an mbox or Maildir, train (train.go) reads       *)
(* labelled ones and fits a model (pkg/ml/model.go), and the daemon commands  *)
(* (daemon.go) read the inbox of a mail service, monitor by polling it.  A    *)
(* mail reader may file messages of a Maildir while it is walked.            *)
(***************************************************************************)
EXTENDS Naturals, Sequences, FiniteSets, SequencesExt

CONSTANTS
  Command,      \* of {"process", "train", "daemon test", "daemon monitor"}
  Inputs,       \* what is read: sequences of labelled sources
  Limits,       \* --max, --max-per-corpus, --limit: 0 for none
  holdoutPercent,
  MaxArrivals   \* bound of the model: messages that arrive in the inbox

SubDirs == <<"cur", "new", ".">>

\* A line that begins with "From " starts a message; terminated is about the last.
IsMbox(src) ==
  src \in [label : STRING, kind : {"mbox"}, lines : Seq({"From", "text"}), terminated : BOOLEAN]

\* files: the numbers by which the files of each directory sort; sub: the
\* numbers of subdirectories.  The name of a message is its own in all of them.
IsMaildir(src) ==
  /\ src \in [label : STRING, kind : {"maildir"}, sub : SUBSET Nat,
             dir : [ToSet(SubDirs) -> {"absent", "unreadable", "readable"}],
             files : [ToSet(SubDirs) -> SUBSET Nat]]
  /\ \A c \in ToSet(SubDirs) :
       /\ src.files[c] \intersect src.sub = {}
       /\ \A d \in ToSet(SubDirs) : c # d => src.files[c] \intersect src.files[d] = {}

ASSUME MailboxAssumption ==
  /\ Command \subseteq {"process", "train", "daemon test", "daemon monitor"}
  /\ \A input \in Inputs : /\ input \in Seq(ToSet(input))
                           /\ \A src \in ToSet(input) : IsMbox(src) \/ IsMaildir(src)
  /\ Limits \subseteq Nat /\ holdoutPercent \in 1..99 /\ MaxArrivals \in Nat

VARIABLES
  command, sources, limit,
  status,      \* "reading", "fitting", "saving", "done", "failed"
  at,          \* [source, pos, before]: the source, the line or directory of it, and
               \* how many documents the sources before it gave
  buffer,      \* lines of the mbox message being collected
  listing,     \* [open, names]: what is left of a directory's listing
  results,     \* the messages met in each source
  corpus,      \* the documents that training reads, [source, of]
  split,       \* the documents of the model and of its evaluation, as indices
  modelFile,   \* "earlier", "partial" or "new"
  inbox, arrived,      \* the daemon's inbox
  lastCount, seen,     \* the monitor, and history: what it evaluated
  moved                \* history: a mail reader was at work

walkVars == <<command, sources, limit, status, at, buffer, listing, results, corpus, split,
              modelFile, inbox, arrived, lastCount, seen, moved>>

Unlisted == [open |-> FALSE, names |-> {}]

NoResults == [s \in DOMAIN sources |-> <<>>]

InitWalk ==
  /\ command \in Command /\ sources \in Inputs /\ limit \in Limits
  /\ CASE command = "process" -> Len(sources) = 1
       [] command = "train" -> Len(sources) > 1
       [] OTHER -> sources = <<>>
  /\ status = "reading" /\ at = [source |-> 1, pos |-> 1, before |-> 0]
  /\ buffer = <<>> /\ listing = Unlisted /\ results = NoResults /\ corpus = <<>>
  /\ split = [fitted |-> {}, heldOut |-> {}] /\ modelFile = "earlier"
  /\ inbox = <<>> /\ arrived = 0 /\ lastCount = 0 /\ seen = <<>> /\ moved = FALSE

IdleWalk ==
  /\ command = "none" /\ sources = <<>> /\ limit = 0
  /\ status = "done" /\ at = [source |-> 1, pos |-> 1, before |-> 0]
  /\ buffer = <<>> /\ listing = Unlisted /\ results = NoResults /\ corpus = <<>>
  /\ split = [fitted |-> {}, heldOut |-> {}] /\ modelFile = "earlier"
  /\ inbox = <<>> /\ arrived = 0 /\ lastCount = 0 /\ seen = <<>> /\ moved = FALSE

Steady == UNCHANGED <<command, sources, limit, inbox, arrived, lastCount, seen, moved>>

Source == sources[at.source]
Read(kind) ==
  /\ status = "reading" /\ at.source \in DOMAIN sources /\ Source.kind = kind
  /\ Steady /\ UNCHANGED <<status, split, modelFile>>

\* A message is met: process evaluates it, train makes a document of it; either
\* may fail.
Meet(of) == results' = [results EXCEPT ![at.source] = Append(@, of)]
Learn(of) == corpus' = Append(corpus, [source |-> at.source, of |-> of])
MeetWhole(of) == Meet(of) /\ ((command = "train" /\ Learn(of)) \/ UNCHANGED corpus)
MeetNone == UNCHANGED <<results, corpus>>

\* What --max counts.
Taken == IF command = "process" THEN Len(results[at.source]) ELSE Len(corpus) - at.before

NextSource == at' = [source |-> at.source + 1, pos |-> 1, before |-> Len(corpus')]
NextPosition == at' = [at EXCEPT !.pos = @ + 1]

(***************************************************************************)
(* mbox: one line, the last one followed by nothing.                        *)
(***************************************************************************)
Line == IF at.pos <= Len(Source.lines) THEN Source.lines[at.pos] ELSE "nothing"
AtEOF == at.pos > Len(Source.lines) \/ (at.pos = Len(Source.lines) /\ ~Source.terminated)
Collected == IF Line = "text" THEN Append(buffer, at.pos) ELSE buffer

\* Slip: a boundary line just ends the message before it, one without text too.
ProcessMboxLineEager ==
  /\ command = "process" /\ Read("mbox")
  /\ IF Line = "From" \/ AtEOF
     THEN MeetWhole(Collected) /\ buffer' = <<>> ELSE buffer' = Collected /\ MeetNone
  /\ IF AtEOF THEN NextSource ELSE NextPosition
  /\ UNCHANGED listing

\* The limit is looked at when a boundary ends a message, not at the end.
ProcessMboxLine ==
  /\ command = "process" /\ Read("mbox")
  /\ LET whole == Collected # <<>> /\ (Line = "From" \/ AtEOF)
         full  == Line = "From" /\ limit > 0 /\ Taken + 1 > limit
     IN  /\ IF whole /\ ~full THEN MeetWhole(Collected) ELSE MeetNone
         /\ buffer' = IF whole THEN <<>> ELSE Collected
         /\ IF AtEOF \/ (whole /\ full) THEN NextSource ELSE NextPosition
  /\ UNCHANGED listing

\* The limit counts documents, and is looked at after each message.
TrainMboxLine ==
  /\ command = "train" /\ Read("mbox")
  /\ LET whole == Collected # <<>> /\ (Line = "From" \/ AtEOF)
     IN  /\ IF whole THEN MeetWhole(Collected) ELSE MeetNone
         /\ buffer' = IF whole THEN <<>> ELSE Collected
         /\ IF AtEOF \/ (Line = "From" /\ limit > 0 /\ Len(corpus') - at.before >= limit)
            THEN NextSource ELSE NextPosition
  /\ UNCHANGED listing

\* The file cannot be read on: nothing that was met is reported.
MboxFails ==
  /\ status = "reading" /\ at.source \in DOMAIN sources /\ Source.kind = "mbox"
  /\ status' = "failed" /\ results' = NoResults
  /\ Steady /\ UNCHANGED <<at, buffer, listing, corpus, split, modelFile>>

(***************************************************************************)
(* Maildir: process looks at cur and new, train at the directory itself too.  *)
(***************************************************************************)
Directories == IF command = "train" THEN 3 ELSE 2
SubDir == SubDirs[at.pos]
InDirectory == Read("maildir") /\ at.pos <= Directories

ReadDir == [open |-> TRUE, names |-> Source.files[SubDir] \union Source.sub]

\* A directory that is not there is passed over; train passes over one it
\* cannot read, too.
OpenDirectory ==
  /\ InDirectory /\ listing = Unlisted
  /\ \/ /\ Source.dir[SubDir] = "readable"
        /\ listing' = ReadDir /\ UNCHANGED at
     \/ /\ Source.dir[SubDir] = "absent" \/ (command = "train" /\ Source.dir[SubDir] = "unreadable")
        /\ NextPosition /\ UNCHANGED listing
  /\ MeetNone /\ UNCHANGED buffer

DirectoryFails ==
  /\ command = "process" /\ status = "reading" /\ at.source \in DOMAIN sources
  /\ Source.kind = "maildir" /\ at.pos <= Directories /\ listing = Unlisted
  /\ Source.dir[SubDir] = "unreadable"
  /\ status' = "failed" /\ results' = NoResults
  /\ Steady /\ UNCHANGED <<at, buffer, listing, corpus, split, modelFile>>

\* The next name, in their order.
ReadEntry ==
  /\ InDirectory /\ listing.names # {}
  /\ LET entry == Min(listing.names)
         full == limit > 0 /\ Taken >= limit
         Look == listing' = [listing EXCEPT !.names = @ \ {entry}] /\ UNCHANGED at
         of == <<at.pos, entry>>
     IN  \/ entry \in Source.sub /\ Look /\ MeetNone
         \/ entry \notin Source.sub /\ full /\ listing' = Unlisted /\ MeetNone /\ NextSource
         \/ /\ entry \notin Source.sub /\ ~full /\ Look
            /\ IF entry \in Source.files[SubDir] THEN MeetWhole(of) ELSE Meet(of) /\ UNCHANGED corpus
  /\ UNCHANGED buffer

LeaveDirectory ==
  /\ InDirectory /\ listing.open /\ listing.names = {}
  /\ listing' = Unlisted /\ MeetNone
  /\ IF command = "process" /\ limit > 0 /\ Taken >= limit THEN NextSource ELSE NextPosition
  /\ UNCHANGED buffer

LeaveMaildir ==
  /\ Read("maildir") /\ at.pos > Directories
  /\ MeetNone /\ NextSource
  /\ UNCHANGED <<buffer, listing>>

(***************************************************************************)
(* When every source is read.                                               *)
(***************************************************************************)
AllRead == command \in {"process", "train"} /\ status = "reading" /\ at.source > Len(sources)

\* process reports what it met.  train goes on when every label has documents; the
\* code asks as soon as a label is read, and fails either way.
Report ==
  /\ AllRead
  /\ LET labels == {sources[s].label : s \in DOMAIN sources}
         Found(l) == \E doc \in ToSet(corpus) : sources[doc.source].label = l
     IN  status' = IF command = "process" THEN "done"
                   ELSE IF \A l \in labels : Found(l) THEN "fitting" ELSE "failed"
  /\ Steady /\ UNCHANGED <<at, buffer, listing, results, corpus, split, modelFile>>

\* Fewer than five documents are not split.  The shuffle is any order.
splitCorpus(n) ==
  LET share == (n * (100 - holdoutPercent)) \div 100
      cut == IF share < 1 THEN 1 ELSE IF share >= n THEN n - 1 ELSE share
  IN  IF n < 5 THEN {[fitted |-> 1..n, heldOut |-> {}]}
      ELSE {[fitted |-> S, heldOut |-> (1..n) \ S] : S \in kSubset(cut, 1..n)}

\* Train, which fails when the scorer does not fit the labels or no feature is
\* left over.
Train ==
  /\ status = "fitting"
  /\ \/ status' = "saving" /\ split' \in splitCorpus(Len(corpus))
     \/ status' = "failed" /\ UNCHANGED split
  /\ Steady /\ UNCHANGED <<at, buffer, listing, results, corpus, modelFile>>

\* Save truncates the model in place; then it is written, an error of the last
\* write going unnoticed.
CreateModel ==
  /\ status = "saving" /\ modelFile = "earlier"
  /\ \/ modelFile' = "partial" /\ UNCHANGED status
     \/ status' = "failed" /\ UNCHANGED modelFile
  /\ Steady /\ UNCHANGED <<at, buffer, listing, results, corpus, split>>

WriteModel ==
  /\ status = "saving" /\ modelFile = "partial"
  /\ \/ status' = "done" /\ modelFile' \in {"new", "partial"}
     \/ status' = "failed" /\ UNCHANGED modelFile
  /\ Steady /\ UNCHANGED <<at, buffer, listing, results, corpus, split>>

(***************************************************************************)
(* The daemon's inbox.                                                      *)
(***************************************************************************)
Serve(new) ==
  /\ seen' = seen \o new
  /\ UNCHANGED <<command, sources, limit, at, buffer, listing, results, corpus, split,
                 modelFile, inbox, arrived, moved>>

\* daemon test: the first messages, once; or no answer.
TestInbox ==
  /\ command = "daemon test" /\ status = "reading"
  /\ \/ /\ status' = "done"
        /\ Serve(SubSeq(inbox, 1, IF limit = 0 \/ limit > Len(inbox) THEN Len(inbox) ELSE limit))
     \/ status' = "failed" /\ Serve(<<>>)
  /\ UNCHANGED lastCount

\* A poll that is answered: what the inbox has grown by is new.
Poll ==
  /\ command = "daemon monitor"
  /\ Serve(IF Len(inbox) > lastCount THEN SubSeq(inbox, lastCount + 1, Len(inbox)) ELSE <<>>)
  /\ lastCount' = Len(inbox)
  /\ UNCHANGED status

\* No answer, or one that does not decode: the next tick tries again.
PollFails ==
  /\ command = "daemon monitor"
  /\ UNCHANGED walkVars

(***************************************************************************)
(* The world.                                                               *)
(***************************************************************************)
World == UNCHANGED <<command, limit, status, at, buffer, listing, results, corpus, split,
                     modelFile, lastCount, seen>>

\* A mail reader files a new message.
FileMessage ==
  /\ status = "reading" /\ command \in {"process", "train"} /\ ~moved /\ moved' = TRUE
  /\ \E s \in {x \in DOMAIN sources : sources[x].kind = "maildir"} : \E f \in sources[s].files["new"] :
       sources' = [sources EXCEPT ![s].files["new"] = @ \ {f}, ![s].files["cur"] = @ \union {f}]
  /\ World /\ UNCHANGED <<inbox, arrived>>

Arrive ==
  /\ command \in {"daemon test", "daemon monitor"} /\ arrived < MaxArrivals
  /\ arrived' = arrived + 1 /\ inbox' = Append(inbox, arrived')
  /\ World /\ UNCHANGED <<sources, moved>>

DeleteMessage ==
  /\ inbox # <<>> /\ moved' = TRUE
  /\ \E i \in DOMAIN inbox : inbox' = RemoveAt(inbox, i)
  /\ World /\ UNCHANGED <<sources, arrived>>

NextWalk ==
  \/ ProcessMboxLine \/ TrainMboxLine \/ MboxFails
  \/ OpenDirectory \/ DirectoryFails \/ ReadEntry \/ LeaveDirectory \/ LeaveMaildir
  \/ Report \/ Train \/ CreateModel \/ WriteModel
  \/ TestInbox \/ Poll \/ PollFails
  \/ FileMessage \/ Arrive \/ DeleteMessage
-----------------------------------------------------------------------------
(***************************************************************************)
(* Properties                                                               *)
(***************************************************************************)
\* A message of an mbox: all the text between two lines that begin with From, or
\* between one and an end of the file.
IsRun(lines, of) ==
  /\ of # <<>>
  /\ \A j \in DOMAIN of : of[j] = of[1] + j - 1 /\ lines[of[j]] = "text"
  /\ of[1] = 1 \/ lines[of[1] - 1] = "From"
  /\ Last(of) = Len(lines) \/ lines[Last(of) + 1] = "From"

\* What is met is messages, in order, and no text is passed over before them.
MboxIsSplit(s) ==
  LET lines == sources[s].lines
      met == results[s]
  IN  /\ \A i \in DOMAIN met : IsRun(lines, met[i])
      /\ \A i, j \in DOMAIN met : i < j => Last(met[i]) < met[j][1]
      /\ \A n \in DOMAIN lines :
           lines[n] = "text" /\ ((at.source > s /\ limit = 0) \/ \E i \in DOMAIN met : n < met[i][1])
             => \E i \in DOMAIN met : n \in ToSet(met[i])

DocsOf(s) == {i \in DOMAIN corpus : corpus[i].source = s}

\* The last message of an mbox is processed without a look at the limit.
WithinLimit(s) ==
  limit > 0 =>
    IF command = "process"
    THEN Len(results[s]) <= (IF sources[s].kind = "mbox" THEN limit + 1 ELSE limit)
    ELSE Cardinality(DocsOf(s)) <= limit

\* Directory by directory, each in order; a message that is moved from one to
\* another meanwhile is not met twice.
MaildirOnce(s) ==
  LET met == results[s]
      In(d) == IF sources[s].dir[SubDirs[d]] = "readable" THEN sources[s].files[SubDirs[d]] ELSE {}
  IN  /\ \A i, j \in DOMAIN met : i < j =>
           /\ met[i][1] < met[j][1] \/ (met[i][1] = met[j][1] /\ met[i][2] < met[j][2])
           /\ met[i][2] # met[j][2]
      /\ at.source > s /\ limit = 0 /\ ~moved =>
           ToSet(met) = UNION {{<<d, f>> : f \in In(d)} : d \in 1..Directories}

\* A document is of a message that was met, and no message gives two.
CorpusIsMet ==
  IsInjective(corpus) /\ \A doc \in ToSet(corpus) : doc.of \in ToSet(results[doc.source])

\* What is fitted and what is held out are the documents, none in both.
CorpusIsSplit ==
  status = "saving" =>
    /\ split.fitted \union split.heldOut = DOMAIN corpus
    /\ split.fitted \intersect split.heldOut = {} /\ split.fitted # {}

\* As long as nothing is deleted, the monitor has evaluated every message of the
\* inbox it has counted, once and in order, whatever polls were lost.
MonitorKeepsUp ==
  command = "daemon monitor" /\ ~moved => seen = SubSeq(inbox, 1, lastCount)

\* Every message is met at most once, whole and in its order, and with no limit
\* and nobody moving files none is missed: the messages of an mbox are the runs of
\* text between From lines, a limit holds but for an mbox's last message, the
\* corpus is split without loss, and a monitor keeps up (processMbox,
\* processMaildir, loadMboxCorpus, loadMaildirCorpus, splitCorpus,
\* runDaemonMonitor).
EveryMessageOnce ==
  /\ status # "failed" => \A s \in DOMAIN sources :
       /\ IF sources[s].kind = "mbox" THEN MboxIsSplit(s) ELSE MaildirOnce(s)
       /\ WithinLimit(s)
  /\ status # "failed" => CorpusIsMet
  /\ CorpusIsSplit /\ MonitorKeepsUp
=============================================================================
