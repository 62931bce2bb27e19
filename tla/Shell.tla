-------------------------------- MODULE Shell --------------------------------
(***************************************************************************)
(* The server from its configuration to its jobs.  main() reads the        *)
(* configuration and builds the server; a thread then reads commands from  *)
(* the read queue, has a decoder make a job of each and puts the job into  *)
(* the job queue, until the commands end, "quit" comes, or a signal.       *)
(*                                                                         *)
(* A read queue is a file of lines, or a server that answers with what it  *)
(* likes.  What the workers of the job queue do with a job is left to the  *)
(* module that extends this one.                                           *)
(***************************************************************************)
EXTENDS Configuration

CONSTANTS Configs,    \* the configurations that there may be, by name
          Files,      \* and the files of commands
          Answers,    \* what a server may answer with, or send
          QueueSize,  \* JOB_QUEUE_SIZE
          MaxAnswers, \* bound: answers
          MaxFailures \* bound: reads of the file and calls of libav that fail

ASSUME QueueAssumption ==
  QueueSize \in Nat \ {0} /\ MaxAnswers \in Nat /\ MaxFailures \in Nat

VARIABLES
  named, file,      \* the configuration and the file, which do not change
  phase,            \* main(): "starting", "running", "ended", "exited", "aborted"
  server,           \* what has been registered
  lines, eof,       \* the lines of the file still to be read, eofbit
  answers,          \* how often a server has answered
  reader, line,     \* the thread that reads commands, the value readLine() gave
  outOfCommands, terminating,
  jobs, closed,     \* the job queue
  heard, failures   \* history: the values that were read, what went wrong

sourceVars == <<lines, eof, answers, heard, failures>>
queueVars  == <<jobs, closed>>
shellVars  == <<named, file, phase, server, sourceVars, reader, line,
                outOfCommands, terminating, queueVars>>

ReaderSteps == {"off", "loop", "next", "line", "got", "command", "add", "done"}

\* A line that is no JSON.  The parser reads a line in pieces of 255 bytes and
\* gives up in one of them; the pieces it has not read are a line of their own.
Broken     == Value("broken", "", 0, <<>>)
Line(v)    == [value |-> v, rest |-> <<>>]
Torn(l)    == [value |-> Broken, rest |-> <<l>>]

-----------------------------------------------------------------------------
config == Configs[named]

ReadQueue == PartType(Key(config, "shell"))

Init ==
  /\ named \in DOMAIN Configs
  /\ file \in IF ConfigReads(config) /\ ReadQueue = "file" THEN DOMAIN Files ELSE {0}
  /\ phase = "starting" /\ server = NoServer
  /\ lines = IF file = 0 THEN <<>> ELSE Files[file].lines
  /\ eof = FALSE /\ answers = 0 /\ heard = <<>> /\ failures = 0
  /\ reader = "off" /\ line = Null
  /\ outOfCommands = FALSE /\ terminating = FALSE
  /\ jobs = <<>> /\ closed = FALSE

GoTo(step) == reader' = step

\* The configuration is refused: the program exits before it does anything.
Exit ==
  /\ phase = "starting"
  /\ ~(ConfigReads(config) /\ ServerStarts(config))
  /\ phase' = "exited"
  /\ UNCHANGED <<named, file, server, sourceVars, reader, line, outOfCommands,
                 terminating, queueVars>>

Start ==
  /\ phase = "starting"
  /\ ConfigReads(config) /\ ServerStarts(config)
  /\ phase' = "running"
  /\ server' = Registered(config)
  /\ GoTo("loop")
  /\ UNCHANGED <<named, file, sourceVars, line, outOfCommands, terminating, queueVars>>

-----------------------------------------------------------------------------
(* The thread that reads commands: Server::readCommands_.                  *)

\* readCommands_() and nextCommand() test whether there are more commands.
Loop ==
  /\ phase = "running" /\ reader \in {"loop", "next"}
  /\ GoTo(IF outOfCommands THEN "done" ELSE IF reader = "loop" THEN "next" ELSE "line")
  /\ line' = Null
  /\ UNCHANGED <<named, file, phase, server, sourceVars, outOfCommands,
                 terminating, queueVars>>

Fails == failures < MaxFailures /\ failures' = failures + 1

\* noMoreCommands(), and nothing is returned.
GiveUp ==
  /\ outOfCommands' = TRUE /\ GoTo("done")
  /\ UNCHANGED <<named, file, phase, server, lines, eof, answers, heard, line,
                 terminating, queueVars>>

\* readLine() of the HTTP queue asks at least once.
AsksOnce == ReadQueue = "httpget" /\ line # Broken

NoMoreLines ==
  /\ phase = "running" /\ reader = "line" /\ outOfCommands /\ ~AsksOnce
  /\ GiveUp /\ UNCHANGED failures

Asks == phase = "running" /\ reader = "line" /\ (outOfCommands => AsksOnce)

\* A value that is no JSON is passed over.
Answer(v) ==
  IF v = Broken THEN line' = Broken /\ UNCHANGED <<reader, heard>>
  ELSE line' = v /\ heard' = Append(heard, v) /\ GoTo("got")

\* Seeded fault: the end of the file is one more line that is no JSON.
FileEnds_Retry ==
  /\ Asks /\ ReadQueue = "file" /\ eof /\ Answer(Broken)
  /\ UNCHANGED <<named, file, phase, server, lines, eof, answers, failures, outOfCommands,
                 terminating, queueVars>>

\* The read before met the end of the file.
FileEnds == Asks /\ ReadQueue = "file" /\ eof /\ GiveUp /\ UNCHANGED failures

FileFails == Asks /\ ReadQueue = "file" /\ ~eof /\ GiveUp /\ Fails

\* A last line without a newline is where a read meets the end of the file.
MeetsEnd(rest) == rest = <<>> /\ ~Files[file].newline

ReadLine ==
  /\ Asks /\ ReadQueue = "file" /\ ~eof
  /\ IF lines = <<>> THEN eof' = TRUE /\ Answer(Broken) /\ UNCHANGED lines
     ELSE LET rest == Head(lines).rest \o Tail(lines)
          IN  lines' = rest /\ eof' = MeetsEnd(rest) /\ Answer(Head(lines).value)
  /\ UNCHANGED <<named, file, phase, server, answers, failures, outOfCommands, terminating,
                 queueVars>>

\* What a failed request or an answer that is no JSON comes to is the same.
\* That recv() of ZeroMQ throws when a signal interrupts it is left out.
Receive ==
  /\ Asks /\ ReadQueue # "file" /\ answers < MaxAnswers
  /\ answers' = answers + 1
  /\ \E v \in Answers \cup {Broken} : Answer(v)
  /\ UNCHANGED <<named, file, phase, server, lines, eof, failures, outOfCommands, terminating,
                 queueVars>>

\* recv() comes back without a message: readLine() returns an empty value.
ReceiveNothing ==
  /\ Asks /\ ReadQueue = "zeromq" /\ answers < MaxAnswers
  /\ answers' = answers + 1
  /\ Answer(Null)
  /\ UNCHANGED <<named, file, phase, server, lines, eof, failures, outOfCommands, terminating,
                 queueVars>>

\* nextCommand() asks for another value if this is no command.
Got ==
  /\ phase = "running" /\ reader = "got"
  /\ GoTo(IF outOfCommands THEN "done"
          ELSE IF Has(line, "cmd", "string") /\ HasKey(line, "param") THEN "command"
          ELSE "next")
  /\ UNCHANGED <<named, file, phase, server, sourceVars, line, outOfCommands,
                 terminating, queueVars>>

Decoders == Key(config, "commands")

Name(command) == Key(command, "cmd").text

\* The pairs of strings in "addMetadata".
Added(decoder, param) ==
  IF /\ Named(PartConfig(decoder), "addMetadataEnabled", "boolean", Boolean(TRUE)).number = 1
     /\ Has(param, "addMetadata", "array")
  THEN SelectSeq(Key(param, "addMetadata").items,
         LAMBDA pair : /\ IsA(pair, "array") /\ Len(pair.items) = 2
                       /\ \A i \in 1 .. 2 : IsA(pair.items[i], "string"))
  ELSE <<>>

\* A duration that silence and testcard accept, which is counted in whole
\* blocks, and the name of a file.
Lasts(param) == IsA(param, "float") /\ param.number \in Nat \ {0}

Track(param) == IF IsA(param, "object") THEN KeyOrNull(param, "file") ELSE param

\* createJob(): one job, or none.  The place of the command among all that was
\* read stands for the command that a job keeps.
CreateJob(command) ==
  LET decoder == Key(Decoders, Name(command))
      param   == Key(command, "param")
      lavc    == PartType(decoder) = "lavc"
  IN  IF IF lavc THEN IsA(Track(param), "string") ELSE Lasts(param)
      THEN <<[command |-> Len(heard),
              blocks  |-> IF lavc THEN 0 ELSE param.number,
              path    |-> IF lavc THEN Track(param).text ELSE "",
              added   |-> IF lavc THEN Added(decoder, param) ELSE <<>>]>>
      ELSE <<>>

\* LavcDecodeJob() throws, and nobody catches it: libavutil has no format s8.
Throws(command) ==
  /\ PartType(Key(Decoders, Name(command))) = "lavc"
  /\ CreateJob(command) # <<>>
  /\ Format(Section(config, "pcmbuffer", "object")) = "s8"

\* Seeded fault: only a signal ends the loop, not "quit".
Quits_Not(command) == terminating

Quits(command) == Name(command) = "quit" \/ terminating

Stop ==
  /\ phase = "running" /\ reader = "command" /\ ~outOfCommands /\ Quits(line)
  /\ GiveUp /\ UNCHANGED failures

\* A command with a name that is known and for which there is something to do.
Makes(command) == HasKey(Decoders, Name(command)) /\ CreateJob(command) # <<>>

\* Nothing is done, either, if there are no more commands by now.
Forget ==
  /\ phase = "running" /\ reader = "command"
  /\ outOfCommands \/ (~Quits(line) /\ ~Makes(line))
  /\ GoTo(IF outOfCommands THEN "done" ELSE "loop")
  /\ UNCHANGED <<named, file, phase, server, sourceVars, line, outOfCommands,
                 terminating, queueVars>>

Calls ==
  phase = "running" /\ reader = "command" /\ ~outOfCommands /\ ~Quits(line) /\ Makes(line)

Abort ==
  /\ Calls /\ Throws(line)
  /\ phase' = "aborted"
  /\ UNCHANGED <<named, file, server, sourceVars, reader, line, outOfCommands,
                 terminating, queueVars>>

Create ==
  /\ Calls /\ ~Throws(line)
  /\ GoTo("add")
  /\ UNCHANGED <<named, file, phase, server, sourceVars, line, outOfCommands,
                 terminating, queueVars>>

\* addJob() waits for room; a closed queue drops the job.
AddJob ==
  /\ phase = "running" /\ reader = "add"
  /\ closed \/ Len(jobs) < QueueSize
  /\ jobs' = IF closed THEN jobs ELSE jobs \o CreateJob(line)
  /\ GoTo("loop")
  /\ UNCHANGED <<named, file, phase, server, sourceVars, line, outOfCommands,
                 terminating, closed>>

-----------------------------------------------------------------------------
(* The thread of main(), and signals.                                      *)

Signal ==
  /\ phase = "running" /\ ~terminating
  /\ terminating' = TRUE
  /\ UNCHANGED <<named, file, phase, server, sourceVars, reader, line, outOfCommands, queueVars>>

\* The rest of exitGracefullyOnSignal().
HandleSignal ==
  /\ phase = "running" /\ terminating /\ ~outOfCommands
  /\ outOfCommands' = TRUE
  /\ UNCHANGED <<named, file, phase, server, sourceVars, reader, line, terminating, queueVars>>

\* run() sees that there are no more commands; the jobs that were accepted are
\* still done, unless there was a signal.
CloseJobs ==
  /\ phase = "running" /\ outOfCommands /\ ~closed
  /\ closed' = TRUE
  /\ UNCHANGED <<named, file, phase, server, sourceVars, reader, line, outOfCommands,
                 terminating, jobs>>

\* jobs_->stop() has joined the workers.
End ==
  /\ phase = "running" /\ closed
  /\ phase' = "ended"
  /\ UNCHANGED <<named, file, server, sourceVars, reader, line, outOfCommands,
                 terminating, queueVars>>

=============================================================================
