--------------------------- MODULE ProgressChannel ---------------------------
(***************************************************************************)
(* The three goroutines of one host.provision: the handler, logProgress,   *)
(* which reads docker-machine's output, and republishTransitioningReply,   *)
(* which tells Cattle.  They share publishChan (closed by the handler),    *)
(* errChan (closed by logProgress) and the two pipes of docker-machine,    *)
(* whose reading ends command.Wait closes.                                 *)
(*                                                                         *)
(* docker-machine (external) has a script of lines to write, and cannot    *)
(* exit before it has written them: a full pipe blocks it.  A line is      *)
(*   "progress"     on stdout, passed on to Cattle                         *)
(*   "mention"      on stdout, naming the host, and therefore filtered     *)
(*   "stdoutError"  on stdout, "Error creating machine: ..."               *)
(*   "stderr"       any line on stderr                                     *)
(***************************************************************************)
EXTENDS Naturals, Sequences, FiniteSets

CONSTANTS
    MaxLines,     \* lines that docker-machine writes, at most
    MaxStderr,    \* of these, lines on stderr
    MaxErrors,    \* of these, errors on stdout
    PipeCap,      \* lines that fit into a pipe
    ChanCap,      \* messages that fit into publishChan
    Faults        \* what may go wrong: see Kinds

Kinds == {"timeout",    \* logProgress takes more than 10 s to say why a creation failed
          "afterwards"} \* a call fails after the creation, the final reply included

ASSUME ProgressAssumption ==
    /\ MaxLines \in Nat /\ MaxStderr \in Nat /\ MaxErrors \in Nat
    /\ PipeCap \in Nat \ {0} /\ ChanCap \in Nat \ {0}
    /\ Faults \subseteq Kinds

VARIABLES
    hpc,          \* what the handler does next
    told,         \* the error createMachine returns: a line, or Generic
    reply,        \* the latest final reply that the service has published
    script,       \* the lines that docker-machine writes
    written,      \* how many of them it has written
    dm,           \* docker-machine: not started, running, exited
    outPipe, errPipe,
    pipesOpen,    \* the reading ends are open
    lpc,          \* what logProgress reads
    buffered,     \* what its scanner has read and not returned
    errChan, errClosed,
    publishChan, closed,
    rpc,          \* the republisher: at its select, or publishing
    lastMsg,      \* what it publishes, again and again
    shown         \* the message that Cattle shows

handler == <<hpc, told, reply>>
machine == <<script, written, dm>>
pipes   == <<outPipe, errPipe, pipesOpen>>
logger  == <<lpc, buffered>>
errors  == <<errChan, errClosed>>
publish == <<publishChan, closed>>
cattle  == <<rpc, lastMsg, shown>>
vars    == <<handler, machine, pipes, logger, errors, publish, cattle>>

LineKinds == {"progress", "mention", "stdoutError", "stderr"}
Lines     == 1..MaxLines
Generic   == MaxLines + 1      \* the exit status of docker-machine
NoLine    == 0

\* Where the handler sends its own messages, in order, and what it does next.
Says == <<"contact", "install", "container", "starting", "waiting">>
Then == <<"start", "reach", "create", "containerStart", "awaitAgent">>

\* A message on publishChan: the sender, and the number among its messages.
Messages == ({"machine"} \X Lines) \cup ({"handler"} \X (1..Len(Says)))
NoMsg    == <<"none", 0>>

Count(s, k) == Cardinality({i \in DOMAIN s : s[i] = k})

Scripts == {s \in UNION {[1..n -> LineKinds] : n \in 0..MaxLines} :
               Count(s, "stderr") <= MaxStderr /\ Count(s, "stdoutError") <= MaxErrors}

Points == {Says[i] : i \in 1..Len(Says)} \cup {Then[i] : i \in 1..Len(Then)}
            \cup {"getHost", "wait", "select", "cleanup", "archive", "reply",
                  "close", "closeOk", "errorReply", "done"}

TypeOK ==
    /\ hpc \in Points
    /\ told \in 0..Generic /\ reply \in {"none", "ok", "error"}
    /\ script \in Scripts /\ written \in 0..Len(script)
    /\ dm \in {"off", "running", "ok", "failed"}
    /\ outPipe \in Seq(Lines) /\ Len(outPipe) <= PipeCap
    /\ errPipe \in Seq(Lines) /\ Len(errPipe) <= PipeCap
    /\ pipesOpen \in BOOLEAN
    /\ lpc \in {"off", "stdout", "stderr", "ended", "panic"}
    /\ buffered \in Seq(Lines)
    /\ errChan \in Seq(Lines) /\ Len(errChan) <= 1 /\ errClosed \in BOOLEAN
    /\ publishChan \in Seq(Messages) /\ Len(publishChan) <= ChanCap
    /\ closed \in BOOLEAN
    /\ rpc \in {"select", "publish", "stopped"}
    /\ lastMsg \in Messages \cup {NoMsg}
    /\ shown \in Messages \cup {NoMsg}

Init ==
    /\ hpc = "getHost" /\ told = NoLine /\ reply = "none"
    /\ script \in Scripts /\ written = 0 /\ dm = "off"
    /\ outPipe = <<>> /\ errPipe = <<>> /\ pipesOpen = FALSE
    /\ lpc = "off" /\ buffered = <<>>
    /\ errChan = <<>> /\ errClosed = FALSE
    /\ publishChan = <<>> /\ closed = FALSE
    /\ rpc = "select" /\ lastMsg = NoMsg /\ shown = NoMsg

-----------------------------------------------------------------------------
(***************************************************************************)
(* The handler.                                                            *)
(***************************************************************************)
HGoto(a, b) == hpc = a /\ hpc' = b

\* Everything before "Contacting": another host is created; an error returns; one
\* that was created before goes on to its agent, and may have been answered by
\* then (the short cut of createMachine, see ProvisionHost).
GetHost ==
    /\ \/ HGoto("getHost", "contact") /\ UNCHANGED reply
       \/ /\ \E to \in {"close", "install"} : HGoto("getHost", to)
          /\ reply' \in {reply, "ok"}
    /\ UNCHANGED <<told, machine, pipes, logger, errors, publish, cattle>>

\* publishChan <- ...: the handler blocks while the channel is full.
Say(i) ==
    /\ HGoto(Says[i], Then[i])
    /\ Len(publishChan) < ChanCap
    /\ publishChan' = Append(publishChan, <<"handler", i>>)
    /\ UNCHANGED <<told, reply, machine, pipes, logger, errors, closed, cattle>>

\* startReturnOutput: docker-machine runs and logProgress reads, or neither.
Start ==
    /\ \/ /\ HGoto("start", "wait")
          /\ dm' = "running" /\ pipesOpen' = TRUE /\ lpc' = "stdout"
       \/ /\ HGoto("start", "cleanup")
          /\ UNCHANGED <<dm, pipesOpen, lpc>>
    /\ UNCHANGED <<told, reply, script, written, outPipe, errPipe, buffered, errors,
                   publish, cattle>>

\* command.Wait returns when docker-machine has exited, and closes the pipes:
\* what is still in them is lost.
CommandWait ==
    /\ \/ dm = "ok" /\ HGoto("wait", "archive")
       \/ dm = "failed" /\ HGoto("wait", "select")
    /\ pipesOpen' = FALSE /\ outPipe' = <<>> /\ errPipe' = <<>>
    /\ UNCHANGED <<told, reply, machine, logger, errors, publish, cattle>>

\* Mutant of SelectError: no time-out, and a closed errChan does not end the
\* wait.
SelectErrorForEver ==
    /\ HGoto("select", "cleanup")
    /\ errChan # <<>> /\ told' = Head(errChan) /\ errChan' = Tail(errChan)
    /\ UNCHANGED <<reply, machine, pipes, logger, errClosed, publish, cattle>>

\* The creation failed: take the error from errChan, or the exit status when
\* logProgress had none or does not get there in 10 seconds.
SelectError ==
    /\ HGoto("select", "cleanup")
    /\ \/ errChan # <<>> /\ told' = Head(errChan) /\ errChan' = Tail(errChan)
       \/ errChan = <<>> /\ errClosed /\ told' = Generic /\ UNCHANGED errChan
       \/ "timeout" \in Faults /\ told' = Generic /\ UNCHANGED errChan
    /\ UNCHANGED <<reply, machine, pipes, logger, errClosed, publish, cattle>>

\* cleanupResources, which sends nothing.
Cleanup ==
    /\ HGoto("cleanup", "close")
    /\ UNCHANGED <<told, reply, machine, pipes, logger, errors, publish, cattle>>

\* The calls after the creation, each before the message that follows it;
\* any of them may return an error.
Afterwards(a, b) ==
    /\ \/ HGoto(a, b)
       \/ "afterwards" \in Faults /\ HGoto(a, "close")
    /\ UNCHANGED <<told, reply, machine, pipes, logger, errors, publish, cattle>>

RegisterAgent ==
    \/ Afterwards("archive", "install")
    \/ Afterwards("reach", "container")
    \/ Afterwards("create", "starting")
    \/ Afterwards("containerStart", "waiting")
    \/ Afterwards("awaitAgent", "reply")

\* The final reply leaves before publishChan is closed; its error is returned,
\* though it may have arrived ...
FinalReply ==
    /\ \/ HGoto("reply", "closeOk") /\ reply' = "ok"
       \/ "afterwards" \in Faults /\ HGoto("reply", "close") /\ reply' \in {reply, "ok"}
    /\ UNCHANGED <<told, machine, pipes, logger, errors, publish, cattle>>

\* ... and the error reply of doWork after it.
Close ==
    /\ HGoto("close", "errorReply") \/ HGoto("closeOk", "done")
    /\ closed' = TRUE
    /\ UNCHANGED <<told, reply, machine, pipes, logger, errors, publishChan, cattle>>

ErrorReply ==
    /\ HGoto("errorReply", "done") /\ reply' = "error"
    /\ UNCHANGED <<told, machine, pipes, logger, errors, publish, cattle>>

Handler ==
    \/ GetHost \/ Start \/ CommandWait \/ SelectError \/ Cleanup
    \/ (\E i \in 1..Len(Says) : Say(i))
    \/ RegisterAgent \/ FinalReply \/ Close \/ ErrorReply

-----------------------------------------------------------------------------
(***************************************************************************)
(* docker-machine.                                                         *)
(***************************************************************************)
DockerMachineWrites ==
    /\ dm = "running" /\ written < Len(script)
    /\ written' = written + 1
    /\ IF script[written'] = "stderr"
       THEN /\ Len(errPipe) < PipeCap
            /\ errPipe' = Append(errPipe, written') /\ UNCHANGED outPipe
       ELSE /\ Len(outPipe) < PipeCap
            /\ outPipe' = Append(outPipe, written') /\ UNCHANGED errPipe
    /\ UNCHANGED <<handler, script, dm, pipesOpen, logger, errors, publish, cattle>>

DockerMachineExits ==
    /\ dm = "running" /\ written = Len(script)
    /\ dm' \in {"ok", "failed"}
    /\ UNCHANGED <<handler, script, written, pipes, logger, errors, publish, cattle>>

DockerMachine == DockerMachineWrites \/ DockerMachineExits

-----------------------------------------------------------------------------
(***************************************************************************)
(* logProgress.                                                            *)
(***************************************************************************)
Exited == dm \in {"ok", "failed"}

\* The scanner reads some of what is in the pipe.
Fill(pipe, pipe1) ==
    /\ buffered = <<>> /\ pipesOpen /\ pipe # <<>>
    /\ \E n \in 1..Len(pipe) : /\ buffered' = SubSeq(pipe, 1, n)
                               /\ pipe1 = SubSeq(pipe, n + 1, Len(pipe))

\* There is nothing left to scan: end of file, or an error.
ScanEnds(pipe) == buffered = <<>> /\ (~pipesOpen \/ (pipe = <<>> /\ Exited))

ReadStdout ==
    /\ lpc = "stdout" /\ Fill(outPipe, outPipe')
    /\ UNCHANGED <<handler, machine, errPipe, pipesOpen, lpc, errors, publish, cattle>>

StdoutEnds ==
    /\ lpc = "stdout" /\ ScanEnds(outPipe)
    /\ lpc' = "stderr"
    /\ UNCHANGED <<handler, machine, pipes, buffered, errors, publish, cattle>>

\* Mutants of SendError: the newest error replaces one that nobody has read;
\* errChan has room for all of them, or for none.
SendNewestError ==
    /\ errChan' = <<Head(buffered)>>
    /\ buffered' = Tail(buffered)

SendErrorAtOnce ==
    /\ errChan' = Append(errChan, Head(buffered))
    /\ buffered' = Tail(buffered)

SendErrorToReader ==
    /\ hpc = "select" /\ errChan = <<>>
    /\ errChan' = <<Head(buffered)>>
    /\ buffered' = Tail(buffered)

\* errChan <- ...: logProgress blocks while the channel is full.
SendError ==
    /\ Len(errChan) < 1
    /\ errChan' = Append(errChan, Head(buffered))
    /\ buffered' = Tail(buffered)

\* filterDockerMessage and publishChan <- ...: logProgress blocks while the
\* channel is full, and panics once it is closed.
LogStdout ==
    /\ lpc = "stdout" /\ buffered # <<>>
    /\ LET kind == script[Head(buffered)] IN
       \/ /\ kind = "stdoutError"
          /\ SendError /\ UNCHANGED <<lpc, publishChan>>
       \/ /\ kind = "mention"
          /\ buffered' = Tail(buffered) /\ UNCHANGED <<lpc, errChan, publishChan>>
       \/ /\ kind = "progress" /\ ~closed
          /\ Len(publishChan) < ChanCap
          /\ publishChan' = Append(publishChan, <<"machine", Head(buffered)>>)
          /\ buffered' = Tail(buffered) /\ UNCHANGED <<lpc, errChan>>
       \/ /\ kind = "progress" /\ closed
          /\ lpc' = "panic" /\ UNCHANGED <<buffered, errChan, publishChan>>
    /\ UNCHANGED <<handler, machine, pipes, errClosed, closed, cattle>>

ReadStderr ==
    /\ lpc = "stderr" /\ Fill(errPipe, errPipe')
    /\ UNCHANGED <<handler, machine, outPipe, pipesOpen, lpc, errors, publish, cattle>>

LogStderr ==
    /\ lpc = "stderr" /\ buffered # <<>> /\ SendError
    /\ UNCHANGED <<handler, machine, pipes, lpc, errClosed, publish, cattle>>

\* The deferred close(errChan).
StderrEnds ==
    /\ lpc = "stderr" /\ ScanEnds(errPipe)
    /\ lpc' = "ended" /\ errClosed' = TRUE
    /\ UNCHANGED <<handler, machine, pipes, buffered, errChan, publish, cattle>>

LogProgress ==
    ReadStdout \/ LogStdout \/ StdoutEnds \/ ReadStderr \/ LogStderr \/ StderrEnds

-----------------------------------------------------------------------------
(***************************************************************************)
(* republishTransitioningReply.                                            *)
(***************************************************************************)

\* Mutants of Receive: a closed channel does not end the loop; the newest
\* message is taken first.
ReceiveForEver ==
    /\ rpc = "select" /\ publishChan # <<>>
    /\ rpc' = "publish" /\ lastMsg' = Head(publishChan) /\ publishChan' = Tail(publishChan)
    /\ UNCHANGED <<handler, machine, pipes, logger, errors, closed, shown>>

ReceiveNewest ==
    /\ rpc = "select"
    /\ \/ /\ publishChan # <<>>
          /\ rpc' = "publish"
          /\ lastMsg' = publishChan[Len(publishChan)]
          /\ publishChan' = SubSeq(publishChan, 1, Len(publishChan) - 1)
       \/ publishChan = <<>> /\ closed /\ rpc' = "stopped" /\ UNCHANGED <<lastMsg, publishChan>>
    /\ UNCHANGED <<handler, machine, pipes, logger, errors, closed, shown>>

\* A closed channel still yields what is in it, and then ends the loop.
Receive ==
    /\ rpc = "select"
    /\ \/ /\ publishChan # <<>>
          /\ rpc' = "publish" /\ lastMsg' = Head(publishChan) /\ publishChan' = Tail(publishChan)
       \/ publishChan = <<>> /\ closed /\ rpc' = "stopped" /\ UNCHANGED <<lastMsg, publishChan>>
    /\ UNCHANGED <<handler, machine, pipes, logger, errors, closed, shown>>

\* The ticker: the last message once more.
Tick ==
    /\ rpc = "select" /\ lastMsg # NoMsg
    /\ rpc' = "publish"
    /\ UNCHANGED <<handler, machine, pipes, logger, errors, publish, lastMsg, shown>>

\* publishTransitioningReply: Cattle shows the message, unless the POST fails,
\* which is ignored.
PublishTransitioningReply ==
    /\ rpc = "publish" /\ rpc' = "select"
    /\ shown' \in {lastMsg, shown}
    /\ UNCHANGED <<handler, machine, pipes, logger, errors, publish, lastMsg>>

Republisher == Receive \/ Tick \/ PublishTransitioningReply

-----------------------------------------------------------------------------
\* A panic in logProgress ends the process, and with it everything here.
Panicked == lpc = "panic"

Next == ~Panicked /\ (Handler \/ DockerMachine \/ LogProgress \/ Republisher)

Spec == Init /\ [][Next]_vars

\* Every goroutine runs; a channel that stays ready is chosen by a select
\* sooner or later, whatever the ticker does.  docker-machine writes what it
\* has to, and exits, unless a full pipe blocks it.
Fairness ==
    /\ WF_vars(~Panicked /\ Handler)
    /\ WF_vars(~Panicked /\ DockerMachine)
    /\ WF_vars(~Panicked /\ LogProgress)
    /\ WF_vars(~Panicked /\ PublishTransitioningReply)
    /\ SF_vars(~Panicked /\ Receive)

FairSpec == Spec /\ Fairness

-----------------------------------------------------------------------------
(***************************************************************************)
(* Properties.                                                             *)
(***************************************************************************)

\* The error that a failed creation is answered with is the first that
\* docker-machine wrote, on stdout if there is one on stdout, or its exit
\* status: lines may be lost when command.Wait closes the pipes, but none
\* overtakes another on its way through logProgress and errChan.
FirstErrorTold ==
    told \in Lines =>
        /\ script[told] \in {"stdoutError", "stderr"}
        /\ \A n \in 1..Len(script) :
               /\ script[n] = "stdoutError" => script[told] = "stdoutError" /\ told <= n
               /\ script[n] = "stderr" /\ script[told] = "stderr" => told <= n

\* Of two messages of one sender, a comes later.
Later(a, b) == a[1] = b[1] /\ a[2] > b[2]

\* Two goroutines send on publishChan and a third takes from it and repeats
\* itself, but what Cattle is shown of each sender never goes back.
NothingOvertakes ==
    LET queue == <<lastMsg>> \o publishChan IN
    /\ \A i, j \in 1..Len(queue) : i < j => ~Later(queue[i], queue[j])
    /\ ~Later(shown, lastMsg)

\* What nobody reads while docker-machine runs fits into the pipes: all of its
\* stderr, which is read after its stdout; and of its stdout what comes after a
\* second error, with which logProgress waits for a place in errChan.
OnStdout(from) == {n \in from..Len(script) : script[n] # "stderr"}
Fits ==
    /\ Count(script, "stderr") <= PipeCap
    /\ \A m, n \in DOMAIN script :
           m < n /\ script[m] = "stdoutError" /\ script[n] = "stdoutError" =>
               Cardinality(OnStdout(n + 1)) <= PipeCap

\* Then the handler gets through, whenever docker-machine exits: it waits for no
\* pipe and no channel for ever.
HandlerEnds == Fits => <>(hpc = "done" \/ Panicked)

\* The republisher stops, and with it the messages it repeats: it does not
\* outlive its provisioning.
RepublisherStops == Fits => <>(rpc = "stopped" \/ Panicked)

\* logProgress gets to the end of the output, if there is one error in it at
\* most: then nobody needs to read errChan, and the handler does only when the
\* creation has failed.  (With a second error it may wait for ever.)
Errors == Count(script, "stdoutError") + Count(script, "stderr")

OneErrorIsLogged == Errors <= 1 /\ lpc = "stdout" ~> lpc = "ended" \/ Panicked

\* "We will just logging stdout first, then stderr, ignoring all errors":
\* logging the output kills nobody.
LoggingIsHarmless == ~Panicked

=============================================================================
