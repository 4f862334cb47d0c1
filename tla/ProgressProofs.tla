--------------------------- MODULE ProgressProofs ----------------------------
(***************************************************************************)
(* The order of what docker-machine writes and the handler says, on its    *)
(* way through the pipes, logProgress and the channels, for any number of  *)
(* lines and any size of the pipes and of publishChan.                     *)
(***************************************************************************)
EXTENDS ProgressChannel, SequenceTheorems, TLAPS

Occurs(k, s) == \E i \in 1..Len(s) : s[i] = k
Rising(s)    == \A i, j \in 1..Len(s) : i < j => s[i] < s[j]
UpTo(s, n)   == \A i \in 1..Len(s) : s[i] <= n
Under(s, t)  == \A i \in 1..Len(s), j \in 1..Len(t) : s[i] < t[j]

\* What each part of the program has come to.
Unstarted == {"getHost", "contact", "start"}

StageInv ==
    /\ hpc \in Unstarted => dm = "off" /\ lpc = "off" /\ written = 0
    /\ hpc \in Unstarted => ~pipesOpen
    /\ told # NoLine => hpc \in {"cleanup", "close", "errorReply", "done"}
    /\ dm \in {"ok", "failed"} => written = Len(script)

\* Lines are in their pipe, and behind it in the scanner, in the order in which
\* they were written.
Stdout(s) == \A i \in 1..Len(s) : script[s[i]] # "stderr"
Stderr(s) == \A i \in 1..Len(s) : script[s[i]] = "stderr"

OutInv == Rising(outPipe) /\ UpTo(outPipe, written) /\ Stdout(outPipe)
ErrInv == Rising(errPipe) /\ UpTo(errPipe, written) /\ Stderr(errPipe)

ScannerInv ==
    /\ Rising(buffered) /\ UpTo(buffered, written)
    /\ lpc = "off" => buffered = <<>>
    /\ lpc = "stdout" => Under(buffered, outPipe) /\ Stdout(buffered)
    /\ lpc = "stderr" => Under(buffered, errPipe) /\ Stderr(buffered)

LinesInv == OutInv /\ ErrInv /\ ScannerInv

\* Messages that have been sent, as far as they can still be seen.
Sent == {lastMsg, shown} \cup {publishChan[i] : i \in 1..Len(publishChan)}

\* The handler's points from which it may still say its k-th message.
Before1 == {"getHost", "contact"}
Before2 == Before1 \cup {"start", "wait", "select", "archive", "install"}
Before3 == Before2 \cup {"reach", "container"}
Before4 == Before3 \cup {"create", "starting"}
Before5 == Before4 \cup {"containerStart", "waiting"}

SaidInv ==
    \A m \in Sent : m[1] = "handler" =>
        /\ hpc \in Before1 => m[2] < 1
        /\ hpc \in Before2 => m[2] < 2
        /\ hpc \in Before3 => m[2] < 3
        /\ hpc \in Before4 => m[2] < 4
        /\ hpc \in Before5 => m[2] < 5

\* What logProgress has sent comes before all that it has still to send.
LoggedInv ==
    \A m \in Sent : m[1] = "machine" =>
        /\ m[2] <= written
        /\ lpc = "stdout" => /\ \A i \in 1..Len(buffered) : m[2] < buffered[i]
                             /\ \A i \in 1..Len(outPipe) : m[2] < outPipe[i]

Ordered == \A i, j \in 1..Len(publishChan) : i < j => ~Later(publishChan[i], publishChan[j])

QueueInv ==
    /\ Ordered
    /\ \A i \in 1..Len(publishChan) : /\ ~Later(lastMsg, publishChan[i])
                                      /\ ~Later(shown, publishChan[i])
    /\ ~Later(shown, lastMsg)

\* Line n is the error to tell.
IsFirst(n) ==
    /\ script[n] \in {"stdoutError", "stderr"}
    /\ \A k \in 1..Len(script) :
           /\ script[k] = "stdoutError" => script[n] = "stdoutError" /\ n <= k
           /\ script[k] = "stderr" /\ script[n] = "stderr" => n <= k

\* Line k has not been read, or waits in the scanner, or was lost behind all
\* that does.
Ahead(k, pipe) ==
    \/ k > written
    \/ Occurs(k, pipe)
    \/ Occurs(k, buffered)
    \/ ~pipesOpen /\ \A i \in 1..Len(buffered) : buffered[i] < k

NoneSent == told = NoLine /\ errChan = <<>>

\* Errors that have got to errChan, or to the handler.
ToldInv ==
    /\ told \in Lines => IsFirst(told)
    /\ told = NoLine /\ errChan # <<>> => IsFirst(errChan[1])

\* Errors that have not.
StdoutAhead ==
    lpc \in {"off", "stdout"} /\ NoneSent =>
        \A k \in 1..Len(script) : script[k] = "stdoutError" => Ahead(k, outPipe)

StderrWaits ==
    lpc = "stdout" => \A k \in 1..Len(script) : script[k] = "stderr" =>
                          k > written \/ Occurs(k, errPipe) \/ ~pipesOpen

StderrAhead ==
    lpc = "stderr" /\ NoneSent /\ (pipesOpen \/ buffered # <<>>) =>
        \A k \in 1..Len(script) : /\ script[k] # "stdoutError"
                                  /\ script[k] = "stderr" => Ahead(k, errPipe)

FirstInv == ToldInv /\ StdoutAhead /\ StderrWaits /\ StderrAhead

-----------------------------------------------------------------------------
(***************************************************************************)
(* Sequences.                                                              *)
(***************************************************************************)

\* What Append adds.
LEMMA AppendFacts ==
    ASSUME NEW S, NEW s \in Seq(S), NEW e \in S
    PROVE  /\ Append(s, e) \in Seq(S)
           /\ Len(Append(s, e)) = Len(s) + 1 /\ Len(s) \in Nat
           /\ \A i \in 1..Len(s) : Append(s, e)[i] = s[i]
           /\ Append(s, e)[Len(s) + 1] = e
BY AppendProperties, LenProperties

\* What Tail leaves.
LEMMA TailFacts ==
    ASSUME NEW S, NEW s \in Seq(S), s # <<>>
    PROVE  /\ Tail(s) \in Seq(S) /\ Head(s) = s[1] /\ s[1] \in S
           /\ Len(s) \in Nat /\ Len(s) >= 1 /\ Len(Tail(s)) = Len(s) - 1
           /\ \A i \in 1..(Len(s) - 1) : Tail(s)[i] = s[i + 1]
<1>1. Len(s) \in Nat /\ Len(s) # 0
  BY LenProperties, EmptySeq, SeqEqual
<1>2. s[1] \in S
  BY <1>1, ElementOfSeq
<1> QED
  BY <1>1, <1>2, HeadTailProperties

\* A sequence cut in two.
LEMMA CutFacts ==
    ASSUME NEW S, NEW s \in Seq(S), NEW n \in 1..Len(s)
    PROVE  /\ SubSeq(s, 1, n) \in Seq(S) /\ SubSeq(s, n + 1, Len(s)) \in Seq(S)
           /\ Len(s) \in Nat
           /\ Len(SubSeq(s, 1, n)) = n
           /\ Len(SubSeq(s, n + 1, Len(s))) = Len(s) - n
           /\ \A i \in 1..n : SubSeq(s, 1, n)[i] = s[i]
           /\ \A i \in 1..(Len(s) - n) : SubSeq(s, n + 1, Len(s))[i] = s[n + i]
<1>1. Len(s) \in Nat /\ n \in Nat
  BY LenProperties
<1>2. \A i \in 1..Len(s) : s[i] \in S
  BY ElementOfSeq
<1>3. /\ SubSeq(s, 1, n) \in Seq(S)
      /\ Len(SubSeq(s, 1, n)) = IF 1 <= n THEN n - 1 + 1 ELSE 0
      /\ \A i \in 1..n : SubSeq(s, 1, n)[i] = s[1 + i - 1]
  BY <1>1, <1>2, SubSeqProperties
<1>4. /\ SubSeq(s, n + 1, Len(s)) \in Seq(S)
      /\ Len(SubSeq(s, n + 1, Len(s))) = IF n + 1 <= Len(s) THEN Len(s) - (n + 1) + 1 ELSE 0
      /\ \A i \in 1..(Len(s) - (n + 1) + 1) : SubSeq(s, n + 1, Len(s))[i] = s[(n + 1) + i - 1]
  BY <1>1, <1>2, SubSeqProperties
<1> QED
  BY <1>1, <1>3, <1>4

\* A place in a sequence that grew by one is an old one or the new one.
LEMMA LastOrBefore ==
    ASSUME NEW n \in Nat, NEW j \in 1..(n + 1)
    PROVE  j \in 1..n \/ j = n + 1
OBVIOUS

\* A line that is written comes after all others.
LEMMA RisingAppend ==
    ASSUME NEW s \in Seq(Nat), NEW n \in Nat, Rising(s), UpTo(s, n)
    PROVE  Rising(Append(s, n + 1)) /\ UpTo(Append(s, n + 1), n + 1)
<1>1. /\ Len(Append(s, n + 1)) = Len(s) + 1 /\ Len(s) \in Nat
      /\ \A i \in 1..Len(s) : Append(s, n + 1)[i] = s[i]
      /\ Append(s, n + 1)[Len(s) + 1] = n + 1
  BY AppendFacts
<1>2. \A i \in 1..Len(s) : s[i] \in Nat
  BY ElementOfSeq
<1>3. \A i \in 1..(Len(s) + 1) : i \in 1..Len(s) \/ i = Len(s) + 1
  BY <1>1, LastOrBefore
<1>4. UpTo(Append(s, n + 1), n + 1)
  <2> SUFFICES ASSUME NEW i \in 1..(Len(s) + 1) PROVE Append(s, n + 1)[i] <= n + 1
    BY <1>1 DEF UpTo
  <2>1. CASE i \in 1..Len(s)
    BY <1>1, <1>2, <2>1 DEF UpTo
  <2>2. CASE i = Len(s) + 1
    BY <1>1, <2>2
  <2> QED
    BY <1>3, <2>1, <2>2
<1>5. Rising(Append(s, n + 1))
  <2> SUFFICES ASSUME NEW i \in 1..(Len(s) + 1), NEW j \in 1..(Len(s) + 1), i < j
               PROVE  Append(s, n + 1)[i] < Append(s, n + 1)[j]
    BY <1>1 DEF Rising
  <2>1. i \in 1..Len(s)
    BY <1>1
  <2>2. CASE j \in 1..Len(s)
    BY <1>1, <2>1, <2>2 DEF Rising
  <2>3. CASE j = Len(s) + 1
    BY <1>1, <1>2, <2>1, <2>3 DEF UpTo
  <2> QED
    BY <1>3, <2>2, <2>3
<1> QED
  BY <1>4, <1>5

\* What comes after all of one sequence may be added to another that follows it.
LEMMA UnderAppend ==
    ASSUME NEW b \in Seq(Nat), NEW s \in Seq(Nat), NEW n \in Nat, Under(b, s), UpTo(b, n)
    PROVE  Under(b, Append(s, n + 1))
<1>1. /\ Len(Append(s, n + 1)) = Len(s) + 1 /\ Len(s) \in Nat
      /\ \A i \in 1..Len(s) : Append(s, n + 1)[i] = s[i]
      /\ Append(s, n + 1)[Len(s) + 1] = n + 1
  BY AppendFacts
<1>2. \A i \in 1..Len(b) : b[i] \in Nat /\ b[i] <= n
  BY ElementOfSeq DEF UpTo
<1> SUFFICES ASSUME NEW i \in 1..Len(b), NEW j \in 1..(Len(s) + 1)
             PROVE  b[i] < Append(s, n + 1)[j]
  BY <1>1 DEF Under
<1>3. CASE j \in 1..Len(s)
  BY <1>1, <1>3 DEF Under
<1>4. CASE j = Len(s) + 1
  BY <1>1, <1>2, <1>4
<1>5. j \in 1..Len(s) \/ j = Len(s) + 1
  BY <1>1, LastOrBefore
<1> QED
  BY <1>3, <1>4, <1>5

\* What is behind the first line comes after it.
LEMMA RisingTail ==
    ASSUME NEW s \in Seq(Nat), s # <<>>, Rising(s)
    PROVE  /\ Rising(Tail(s))
           /\ \A i \in 1..Len(Tail(s)) : Head(s) < Tail(s)[i]
           /\ \A i \in 1..Len(s) : Head(s) <= s[i]
<1>1. \A i \in 1..Len(s) : s[i] \in Nat
  BY ElementOfSeq
<1> QED
  BY <1>1, TailFacts DEF Rising

\* Both parts of a rising sequence rise, and the first is under the second.
LEMMA RisingCut ==
    ASSUME NEW s \in Seq(Nat), NEW n \in 1..Len(s), Rising(s)
    PROVE  /\ Rising(SubSeq(s, 1, n)) /\ Rising(SubSeq(s, n + 1, Len(s)))
           /\ Under(SubSeq(s, 1, n), SubSeq(s, n + 1, Len(s)))
<1> DEFINE a == SubSeq(s, 1, n)
           b == SubSeq(s, n + 1, Len(s))
<1>1. /\ Len(s) \in Nat /\ Len(a) = n /\ Len(b) = Len(s) - n
      /\ \A i \in 1..n : a[i] = s[i]
      /\ \A i \in 1..(Len(s) - n) : b[i] = s[n + i]
  BY CutFacts
<1> HIDE DEF a, b
<1>2. Rising(a)
  <2> SUFFICES ASSUME NEW i \in 1..Len(a), NEW j \in 1..Len(a), i < j
               PROVE  a[i] < a[j]
    BY DEF Rising
  <2>1. i \in 1..Len(s) /\ j \in 1..Len(s)
    BY <1>1
  <2>2. a[i] = s[i] /\ a[j] = s[j]
    BY <1>1
  <2> QED
    BY <2>1, <2>2 DEF Rising
<1>3. Rising(b)
  <2> SUFFICES ASSUME NEW i \in 1..Len(b), NEW j \in 1..Len(b), i < j
               PROVE  b[i] < b[j]
    BY DEF Rising
  <2>1. n + i \in 1..Len(s) /\ n + j \in 1..Len(s) /\ n + i < n + j
    BY <1>1
  <2> QED
    BY <1>1, <2>1 DEF Rising
<1>4. Under(a, b)
  <2> SUFFICES ASSUME NEW i \in 1..Len(a), NEW j \in 1..Len(b)
               PROVE  a[i] < b[j]
    BY DEF Under
  <2>1. i \in 1..Len(s) /\ n + j \in 1..Len(s) /\ i < n + j
    BY <1>1
  <2> QED
    BY <1>1, <2>1 DEF Rising
<1> QED
  BY <1>2, <1>3, <1>4 DEF a, b

\* Nothing gets lost by cutting.
LEMMA OccursCut ==
    ASSUME NEW S, NEW s \in Seq(S), NEW n \in 1..Len(s), NEW k, Occurs(k, s)
    PROVE  Occurs(k, SubSeq(s, 1, n)) \/ Occurs(k, SubSeq(s, n + 1, Len(s)))
<1>1. PICK i \in 1..Len(s) : s[i] = k
  BY DEF Occurs
<1>2. Len(s) \in Nat /\ i \in Nat /\ n \in Nat
  BY CutFacts
<1>3. CASE i <= n
  BY <1>1, <1>2, <1>3, CutFacts DEF Occurs
<1>4. CASE i > n
  <2>1. i - n \in 1..(Len(s) - n) /\ n + (i - n) = i
    BY <1>2, <1>4
  <2>2. SubSeq(s, n + 1, Len(s))[i - n] = k
    BY <1>1, <2>1, CutFacts
  <2>3. Len(SubSeq(s, n + 1, Len(s))) = Len(s) - n
    BY CutFacts
  <2> QED
    BY <2>1, <2>2, <2>3 DEF Occurs
<1> QED
  BY <1>2, <1>3, <1>4

-----------------------------------------------------------------------------
(***************************************************************************)
(* Types.                                                                  *)
(***************************************************************************)

\* The handler's messages, and where they lead, one by one.
LEMMA SaysFacts ==
    /\ Len(Says) = 5 /\ Len(Then) = 5
    /\ Says[1] = "contact" /\ Says[2] = "install" /\ Says[3] = "container"
    /\ Says[4] = "starting" /\ Says[5] = "waiting"
    /\ Then[1] = "start" /\ Then[2] = "reach" /\ Then[3] = "create"
    /\ Then[4] = "containerStart" /\ Then[5] = "awaitAgent"
BY DEF Says, Then

\* The points of TypeOK, one by one.
LEMMA PointsFacts ==
    Points = {"contact", "install", "container", "starting", "waiting", "start", "reach",
              "create", "containerStart", "awaitAgent", "getHost", "wait", "select",
              "cleanup", "archive", "reply", "close", "closeOk", "errorReply", "done"}
BY SaysFacts DEF Points

\* A script is a sequence of lines, numbered like those on their way.
LEMMA ScriptFacts ==
    ASSUME NEW s \in Scripts
    PROVE  s \in Seq(LineKinds) /\ Len(s) \in 0..MaxLines
<1>1. PICK n \in 0..MaxLines : s \in [1..n -> LineKinds]
  BY DEF Scripts
<1>2. n \in Nat
  BY ProgressAssumption
<1>3. s \in Seq(LineKinds)
  BY <1>1, <1>2
<1>4. DOMAIN s = 1..n /\ DOMAIN s = 1..Len(s) /\ Len(s) \in Nat
  BY <1>1, <1>3, LenProperties
<1>5. Len(s) = n
  <2>1. \A i \in Nat : i \in 1..n <=> i \in 1..Len(s)
    BY <1>4
  <2>2. (n # 0 => n \in 1..Len(s)) /\ (Len(s) # 0 => Len(s) \in 1..n)
    BY <1>2, <1>4, <2>1
  <2> QED
    BY <1>2, <1>4, <2>2
<1> QED
  BY <1>3, <1>5

\* TypeOK holds at first.
LEMMA TypeInit == Init => TypeOK
<1> SUFFICES ASSUME Init PROVE TypeOK
  OBVIOUS
<1>1. hpc \in Points
  BY PointsFacts DEF Init
<1>2. written \in 0..Len(script)
  BY ScriptFacts, ProgressAssumption DEF Init
<1>3. told \in 0..Generic
  BY ProgressAssumption DEF Init, NoLine, Generic
<1>4. /\ outPipe \in Seq(Lines) /\ errPipe \in Seq(Lines) /\ buffered \in Seq(Lines)
      /\ errChan \in Seq(Lines) /\ publishChan \in Seq(Messages)
  BY EmptySeq DEF Init
<1>5. /\ Len(outPipe) <= PipeCap /\ Len(errPipe) <= PipeCap
      /\ Len(errChan) <= 1 /\ Len(publishChan) <= ChanCap
  BY EmptySeq, ProgressAssumption DEF Init
<1> QED
  BY <1>1, <1>2, <1>3, <1>4, <1>5 DEF Init, TypeOK

\* Who does not touch a thing leaves it as it is.
LEMMA TypeStep ==
    ASSUME TypeOK, Next
    PROVE  TypeOK'
<1> USE SaysFacts, PointsFacts DEF HGoto
<1>1. CASE GetHost
  BY <1>1 DEF TypeOK, GetHost, machine, pipes, logger, errors, publish, cattle
<1>2. ASSUME NEW i \in 1..Len(Says), Say(i) PROVE TypeOK'
  <2>1. <<"handler", i>> \in Messages
    BY DEF Messages
  <2>2. publishChan' \in Seq(Messages) /\ Len(publishChan') <= ChanCap
    BY <1>2, <2>1, AppendFacts, ProgressAssumption DEF TypeOK, Say
  <2>3. hpc' \in Points
    BY <1>2 DEF Say
  <2> QED
    BY <1>2, <2>2, <2>3 DEF TypeOK, Say, machine, pipes, logger, errors, cattle
<1>3. CASE Start
  BY <1>3 DEF TypeOK, Start, errors, publish, cattle
<1>4. CASE CommandWait
  <2>1. /\ outPipe' \in Seq(Lines) /\ Len(outPipe') <= PipeCap
        /\ errPipe' \in Seq(Lines) /\ Len(errPipe') <= PipeCap
    <3>1. outPipe' = <<>> /\ errPipe' = <<>>
      BY <1>4 DEF CommandWait
    <3> QED
      BY <3>1, EmptySeq, ProgressAssumption
  <2>2. hpc' \in Points /\ pipesOpen' \in BOOLEAN
    BY <1>4 DEF CommandWait
  <2>3. UNCHANGED <<told, reply, machine, logger, errors, publish, cattle>>
    BY <1>4 DEF CommandWait
  <2> HIDE DEF HGoto
  <2> QED
    BY <2>1, <2>2, <2>3 DEF TypeOK, machine, logger, errors, publish, cattle
<1>5. CASE SelectError
  <2>1. errChan # <<>> => /\ Head(errChan) \in Lines
                          /\ Tail(errChan) \in Seq(Lines) /\ Len(Tail(errChan)) <= 1
    BY TailFacts DEF TypeOK
  <2>2. Lines \subseteq 0..Generic /\ Generic \in 0..Generic
    BY ProgressAssumption DEF Lines, Generic
  <2>3. told' \in 0..Generic /\ errChan' \in Seq(Lines) /\ Len(errChan') <= 1
    BY <1>5, <2>1, <2>2 DEF TypeOK, SelectError
  <2> QED
    BY <1>5, <2>3 DEF TypeOK, SelectError, machine, pipes, logger, publish, cattle
<1>6. CASE Cleanup
  BY <1>6 DEF TypeOK, Cleanup, machine, pipes, logger, errors, publish, cattle
<1>7. CASE RegisterAgent
  BY <1>7 DEF TypeOK, RegisterAgent, Afterwards, machine, pipes, logger, errors, publish, cattle
<1>8. CASE FinalReply
  BY <1>8 DEF TypeOK, FinalReply, machine, pipes, logger, errors, publish, cattle
<1>9. CASE Close
  BY <1>9 DEF TypeOK, Close, machine, pipes, logger, errors, cattle
<1>10. CASE ErrorReply
  BY <1>10 DEF TypeOK, ErrorReply, machine, pipes, logger, errors, publish, cattle
<1>11. CASE DockerMachineWrites
  <2>1. written' \in 0..Len(script) /\ written' \in Lines
    BY <1>11, ScriptFacts, ProgressAssumption DEF TypeOK, DockerMachineWrites, Lines
  <2>2. /\ outPipe' \in Seq(Lines) /\ Len(outPipe') <= PipeCap
        /\ errPipe' \in Seq(Lines) /\ Len(errPipe') <= PipeCap
    <3>1. /\ Append(outPipe, written') \in Seq(Lines) /\ Append(errPipe, written') \in Seq(Lines)
          /\ Len(outPipe) < PipeCap => Len(Append(outPipe, written')) <= PipeCap
          /\ Len(errPipe) < PipeCap => Len(Append(errPipe, written')) <= PipeCap
      BY <2>1, AppendFacts, ProgressAssumption DEF TypeOK
    <3> QED
      BY <1>11, <3>1 DEF TypeOK, DockerMachineWrites
  <2>3. UNCHANGED <<handler, script, dm, pipesOpen, logger, errors, publish, cattle>>
    BY <1>11 DEF DockerMachineWrites
  <2> QED
    BY <2>1, <2>2, <2>3 DEF TypeOK, handler, logger, errors, publish, cattle
<1>12. CASE DockerMachineExits
  BY <1>12 DEF TypeOK, DockerMachineExits, handler, pipes, logger, errors, publish, cattle
<1>13. CASE ReadStdout
  <2>1. PICK n \in 1..Len(outPipe) : /\ buffered' = SubSeq(outPipe, 1, n)
                                     /\ outPipe' = SubSeq(outPipe, n + 1, Len(outPipe))
    BY <1>13 DEF ReadStdout, Fill
  <2>2. /\ buffered' \in Seq(Lines) /\ outPipe' \in Seq(Lines)
        /\ Len(outPipe) \in Nat /\ Len(outPipe') = Len(outPipe) - n
    BY <2>1, CutFacts DEF TypeOK
  <2>3. Len(outPipe') <= PipeCap
    BY <2>2, ProgressAssumption DEF TypeOK
  <2> QED
    BY <1>13, <2>2, <2>3 DEF TypeOK, ReadStdout, handler, machine, errors, publish, cattle
<1>14. CASE StdoutEnds
  BY <1>14 DEF TypeOK, StdoutEnds, handler, machine, pipes, errors, publish, cattle
<1>15. CASE LogStdout
  <2>1. /\ Tail(buffered) \in Seq(Lines) /\ Head(buffered) \in Lines
    BY <1>15, TailFacts DEF TypeOK, LogStdout
  <2>2. <<"machine", Head(buffered)>> \in Messages
    BY <2>1 DEF Messages
  <2>3. buffered' \in Seq(Lines) /\ lpc' \in {"off", "stdout", "stderr", "ended", "panic"}
    BY <1>15, <2>1 DEF TypeOK, LogStdout, SendError
  <2>4. errChan' \in Seq(Lines) /\ Len(errChan') <= 1
    BY <1>15, <2>1, AppendFacts DEF TypeOK, LogStdout, SendError
  <2>5. publishChan' \in Seq(Messages) /\ Len(publishChan') <= ChanCap
    <3>1. LET m == <<"machine", Head(buffered)>> IN
             /\ Append(publishChan, m) \in Seq(Messages)
             /\ Len(publishChan) < ChanCap => Len(Append(publishChan, m)) <= ChanCap
      BY <2>2, AppendFacts, ProgressAssumption DEF TypeOK
    <3> QED
      BY <1>15, <3>1 DEF TypeOK, LogStdout
  <2>6. UNCHANGED <<handler, machine, pipes, errClosed, closed, cattle>>
    BY <1>15 DEF LogStdout
  <2> QED
    BY <2>3, <2>4, <2>5, <2>6 DEF TypeOK, handler, machine, pipes, cattle
<1>16. CASE ReadStderr
  <2>1. PICK n \in 1..Len(errPipe) : /\ buffered' = SubSeq(errPipe, 1, n)
                                     /\ errPipe' = SubSeq(errPipe, n + 1, Len(errPipe))
    BY <1>16 DEF ReadStderr, Fill
  <2>2. /\ buffered' \in Seq(Lines) /\ errPipe' \in Seq(Lines)
        /\ Len(errPipe) \in Nat /\ Len(errPipe') = Len(errPipe) - n
    BY <2>1, CutFacts DEF TypeOK
  <2>3. Len(errPipe') <= PipeCap
    BY <2>2, ProgressAssumption DEF TypeOK
  <2> QED
    BY <1>16, <2>2, <2>3 DEF TypeOK, ReadStderr, handler, machine, errors, publish, cattle
<1>17. CASE LogStderr
  <2>1. /\ Tail(buffered) \in Seq(Lines) /\ Head(buffered) \in Lines
    BY <1>17, TailFacts DEF TypeOK, LogStderr
  <2>2. errChan' \in Seq(Lines) /\ Len(errChan') <= 1
    BY <1>17, <2>1, AppendFacts DEF TypeOK, LogStderr, SendError
  <2>3. buffered' \in Seq(Lines) /\ lpc' \in {"off", "stdout", "stderr", "ended", "panic"}
    BY <1>17, <2>1 DEF TypeOK, LogStderr, SendError
  <2>4. UNCHANGED <<handler, machine, pipes, errClosed, publish, cattle>>
    BY <1>17 DEF LogStderr
  <2> QED
    BY <2>2, <2>3, <2>4 DEF TypeOK, handler, machine, pipes, publish, cattle
<1>18. CASE StderrEnds
  <2>1. lpc' \in {"off", "stdout", "stderr", "ended", "panic"} /\ errClosed' \in BOOLEAN
    BY <1>18 DEF StderrEnds
  <2>2. UNCHANGED <<handler, machine, pipes, buffered, errChan, publish, cattle>>
    BY <1>18 DEF StderrEnds
  <2> QED
    BY <2>1, <2>2 DEF TypeOK, handler, machine, pipes, publish, cattle
<1>19. CASE Receive
  <2>1. publishChan # <<>> => /\ Head(publishChan) \in Messages
                              /\ Tail(publishChan) \in Seq(Messages)
                              /\ Len(Tail(publishChan)) <= ChanCap
    BY TailFacts, ProgressAssumption DEF TypeOK
  <2>2. /\ rpc' \in {"select", "publish", "stopped"} /\ lastMsg' \in Messages \cup {NoMsg}
        /\ publishChan' \in Seq(Messages) /\ Len(publishChan') <= ChanCap
    BY <1>19, <2>1 DEF TypeOK, Receive
  <2>3. UNCHANGED <<handler, machine, pipes, logger, errors, closed, shown>>
    BY <1>19 DEF Receive
  <2> QED
    BY <2>2, <2>3 DEF TypeOK, handler, machine, pipes, logger, errors
<1>20. CASE Tick
  BY <1>20 DEF TypeOK, Tick, handler, machine, pipes, logger, errors, publish
<1>21. CASE PublishTransitioningReply
  BY <1>21 DEF TypeOK, PublishTransitioningReply, handler, machine, pipes, logger, errors,
     publish
<1> QED
  BY <1>1, <1>2, <1>3, <1>4, <1>5, <1>6, <1>7, <1>8, <1>9, <1>10, <1>11, <1>12, <1>13,
     <1>14, <1>15, <1>16, <1>17, <1>18, <1>19, <1>20, <1>21
     DEF Next, Handler, DockerMachine, LogProgress, Republisher

\* Everything is of its type, whatever docker-machine writes and whatever fails.
THEOREM TypeCorrect == Spec => []TypeOK
<1>1. TypeOK /\ UNCHANGED vars => TypeOK'
  BY DEF TypeOK, vars, handler, machine, pipes, logger, errors, publish, cattle
<1> QED
  BY TypeInit, TypeStep, <1>1, PTL DEF Spec

-----------------------------------------------------------------------------
(***************************************************************************)
(* Stages, and the order of lines.                                         *)
(***************************************************************************)

\* Steps that touch neither docker-machine nor its pipes nor the scanner.
Elsewhere ==
    \/ GetHost \/ SelectError \/ Cleanup \/ RegisterAgent \/ FinalReply \/ Close \/ ErrorReply
    \/ \E i \in 1..Len(Says) : Say(i)
    \/ Republisher

\* They leave these as they are.
LEMMA ElsewhereKeeps ==
    ASSUME Elsewhere
    PROVE  UNCHANGED <<machine, pipes, logger>>
BY DEF Elsewhere, GetHost, SelectError, Cleanup, RegisterAgent, Afterwards, FinalReply, Close,
   ErrorReply, Say, Republisher, Receive, Tick, PublishTransitioningReply

\* All steps are these, and those of docker-machine and of logProgress, the
\* start of both, and the wait for docker-machine's exit.
LEMMA NextCases ==
    ASSUME Next
    PROVE  \/ Elsewhere \/ Start \/ CommandWait \/ DockerMachineWrites \/ DockerMachineExits
           \/ ReadStdout \/ LogStdout \/ StdoutEnds \/ ReadStderr \/ LogStderr \/ StderrEnds
BY DEF Next, Elsewhere, Handler, DockerMachine, LogProgress

\* How far everybody has come.
LEMMA StageStep ==
    ASSUME TypeOK, StageInv, Next
    PROVE  StageInv'
<1> USE DEF HGoto, StageInv, Unstarted, NoLine
<1>1. CASE Elsewhere
  <2>1. UNCHANGED <<dm, lpc, written, script, pipesOpen>>
    BY <1>1, ElsewhereKeeps DEF machine, pipes, logger
  <2>2. hpc' \in Unstarted => hpc \in Unstarted
    BY <1>1, SaysFacts DEF Elsewhere, GetHost, SelectError, Cleanup, RegisterAgent,
       Afterwards, FinalReply, Close, ErrorReply, Say, Republisher, Receive, Tick,
       PublishTransitioningReply, handler
  <2>3. told' # NoLine => hpc' \in {"cleanup", "close", "errorReply", "done"}
    BY <1>1, SaysFacts DEF Elsewhere, GetHost, SelectError, Cleanup, RegisterAgent,
       Afterwards, FinalReply, Close, ErrorReply, Say, Republisher, Receive, Tick,
       PublishTransitioningReply, handler
  <2> QED
    BY <2>1, <2>2, <2>3
<1>2. CASE Start
  BY <1>2 DEF Start
<1>3. CASE CommandWait
  BY <1>3 DEF CommandWait, machine, logger
<1>4. CASE DockerMachineWrites
  BY <1>4 DEF DockerMachineWrites, handler, logger
<1>5. CASE DockerMachineExits
  BY <1>5 DEF DockerMachineExits, handler, pipes, logger
<1>6. CASE ReadStdout \/ LogStdout \/ StdoutEnds \/ ReadStderr \/ LogStderr \/ StderrEnds
  <2>1. UNCHANGED <<handler, machine, pipesOpen>> /\ lpc # "off"
    BY <1>6 DEF ReadStdout, LogStdout, StdoutEnds, ReadStderr, LogStderr, StderrEnds, pipes
  <2> QED
    BY <2>1 DEF handler, machine
<1> QED
  BY <1>1, <1>2, <1>3, <1>4, <1>5, <1>6, NextCases

\* Lines are numbers.
LEMMA LinesAreNumbers ==
    ASSUME TypeOK
    PROVE  /\ outPipe \in Seq(Nat) /\ errPipe \in Seq(Nat) /\ buffered \in Seq(Nat)
           /\ written \in Nat
           /\ \A i \in 1..Len(outPipe) : outPipe[i] \in Lines
           /\ \A i \in 1..Len(errPipe) : errPipe[i] \in Lines
           /\ \A i \in 1..Len(buffered) : buffered[i] \in Lines
<1>1. Lines \subseteq Nat
  BY DEF Lines
<1>2. outPipe \in Seq(Lines) /\ errPipe \in Seq(Lines) /\ buffered \in Seq(Lines)
  BY DEF TypeOK
<1>3. written \in Nat
  BY ScriptFacts DEF TypeOK
<1> QED
  BY <1>1, <1>2, <1>3, SeqMonotonic, ElementOfSeq

\* What is true of a sequence is true of its tail.
LEMMA TailKeeps ==
    ASSUME NEW s \in Seq(Nat), s # <<>>, NEW t, NEW n
    PROVE  /\ UpTo(s, n) => UpTo(Tail(s), n)
           /\ Under(s, t) => Under(Tail(s), t)
           /\ Stdout(s) => Stdout(Tail(s))
           /\ Stderr(s) => Stderr(Tail(s))
<1>1. \A i \in 1..Len(Tail(s)) : i + 1 \in 1..Len(s) /\ Tail(s)[i] = s[i + 1]
  BY TailFacts
<1> QED
  BY <1>1 DEF UpTo, Under, Stdout, Stderr

\* ... and of its parts.
LEMMA CutKeeps ==
    ASSUME NEW s \in Seq(Nat), NEW n \in 1..Len(s), NEW m
    PROVE  /\ UpTo(s, m) => UpTo(SubSeq(s, 1, n), m) /\ UpTo(SubSeq(s, n + 1, Len(s)), m)
           /\ Stdout(s) => Stdout(SubSeq(s, 1, n)) /\ Stdout(SubSeq(s, n + 1, Len(s)))
           /\ Stderr(s) => Stderr(SubSeq(s, 1, n)) /\ Stderr(SubSeq(s, n + 1, Len(s)))
<1> DEFINE a == SubSeq(s, 1, n)
           b == SubSeq(s, n + 1, Len(s))
<1>1. \A i \in 1..Len(a) : \E j \in 1..Len(s) : a[i] = s[j]
  <2> SUFFICES ASSUME NEW i \in 1..Len(a) PROVE \E j \in 1..Len(s) : a[i] = s[j]
    OBVIOUS
  <2>1. i \in 1..Len(s) /\ a[i] = s[i]
    BY CutFacts
  <2> QED
    BY <2>1
<1>2. \A i \in 1..Len(b) : \E j \in 1..Len(s) : b[i] = s[j]
  <2> SUFFICES ASSUME NEW i \in 1..Len(b) PROVE \E j \in 1..Len(s) : b[i] = s[j]
    OBVIOUS
  <2>1. n + i \in 1..Len(s) /\ b[i] = s[n + i]
    BY CutFacts
  <2> QED
    BY <2>1
<1> HIDE DEF a, b
<1>3. UpTo(s, m) => UpTo(a, m) /\ UpTo(b, m)
  BY <1>1, <1>2 DEF UpTo
<1>4. Stdout(s) => Stdout(a) /\ Stdout(b)
  <2>1. ASSUME Stdout(s), NEW i \in 1..Len(a) PROVE script[a[i]] # "stderr"
    <3>1. PICK j \in 1..Len(s) : a[i] = s[j]
      BY <1>1
    <3> QED
      BY <2>1, <3>1 DEF Stdout
  <2>2. ASSUME Stdout(s), NEW i \in 1..Len(b) PROVE script[b[i]] # "stderr"
    <3>1. PICK j \in 1..Len(s) : b[i] = s[j]
      BY <1>2
    <3> QED
      BY <2>2, <3>1 DEF Stdout
  <2> QED
    BY <2>1, <2>2 DEF Stdout
<1>5. Stderr(s) => Stderr(a) /\ Stderr(b)
  <2>1. ASSUME Stderr(s), NEW i \in 1..Len(a) PROVE script[a[i]] = "stderr"
    <3>1. PICK j \in 1..Len(s) : a[i] = s[j]
      BY <1>1
    <3> QED
      BY <2>1, <3>1 DEF Stderr
  <2>2. ASSUME Stderr(s), NEW i \in 1..Len(b) PROVE script[b[i]] = "stderr"
    <3>1. PICK j \in 1..Len(s) : b[i] = s[j]
      BY <1>2
    <3> QED
      BY <2>2, <3>1 DEF Stderr
  <2> QED
    BY <2>1, <2>2 DEF Stderr
<1> QED
  BY <1>3, <1>4, <1>5 DEF a, b

\* A line joins others of its kind.
LEMMA KindAppend ==
    ASSUME NEW s \in Seq(Nat), NEW e \in Nat
    PROVE  /\ Stdout(s) /\ script[e] # "stderr" => Stdout(Append(s, e))
           /\ Stderr(s) /\ script[e] = "stderr" => Stderr(Append(s, e))
<1> DEFINE t == Append(s, e)
<1>1. \A i \in 1..Len(t) : t[i] = e \/ \E j \in 1..Len(s) : t[i] = s[j]
  <2> SUFFICES ASSUME NEW i \in 1..Len(t), t[i] # e PROVE \E j \in 1..Len(s) : t[i] = s[j]
    OBVIOUS
  <2>1. i \in 1..Len(s) /\ t[i] = s[i]
    BY AppendFacts
  <2> QED
    BY <2>1
<1> HIDE DEF t
<1>2. ASSUME NEW i \in 1..Len(t)
      PROVE  script[t[i]] = script[e] \/ \E j \in 1..Len(s) : script[t[i]] = script[s[j]]
  BY <1>1
<1>3. (Stdout(s) /\ script[e] # "stderr" => Stdout(t))
  BY <1>2 DEF Stdout
<1>4. (Stderr(s) /\ script[e] = "stderr" => Stderr(t))
  BY <1>2 DEF Stderr
<1> QED
  BY <1>3, <1>4 DEF t

\* The order of lines, and of which kind they are, step by step.
LEMMA LinesStep ==
    ASSUME TypeOK, StageInv, LinesInv, Next
    PROVE  LinesInv'
<1> USE LinesAreNumbers DEF LinesInv
<1>1. CASE Elsewhere \/ DockerMachineExits \/ Start
  <2>1. UNCHANGED <<outPipe, errPipe, buffered, written, script>>
    BY <1>1, ElsewhereKeeps DEF DockerMachineExits, Start, machine, pipes, logger
  <2>2. lpc' = lpc \/ lpc = "off"
    BY <1>1, ElsewhereKeeps DEF DockerMachineExits, Start, logger, StageInv, Unstarted, HGoto
  <2>3. lpc = "off" => buffered = <<>>
    BY DEF ScannerInv
  <2>4. lpc' # lpc => Under(buffered, outPipe) /\ Under(buffered, errPipe)
                      /\ Stdout(buffered) /\ Stderr(buffered)
    BY <2>2, <2>3, EmptySeq DEF Under, Stdout, Stderr
  <2>5. lpc' # "off" \/ lpc' = lpc
    BY <1>1, ElsewhereKeeps DEF DockerMachineExits, Start, logger
  <2> QED
    BY <2>1, <2>2, <2>4, <2>5 DEF OutInv, ErrInv, ScannerInv, Rising, UpTo, Under, Stdout, Stderr
<1>2. CASE CommandWait
  <2>1. outPipe' = <<>> /\ errPipe' = <<>> /\ UNCHANGED <<machine, logger>>
    BY <1>2 DEF CommandWait
  <2>2. Len(outPipe') = 0 /\ Len(errPipe') = 0
    BY <2>1, EmptySeq
  <2> QED
    BY <2>1, <2>2 DEF OutInv, ErrInv, ScannerInv, Rising, UpTo, Under, Stdout, Stderr, machine,
       logger
<1>3. CASE DockerMachineWrites
  <2>1. written' = written + 1 /\ UNCHANGED <<script, lpc, buffered>>
    BY <1>3 DEF DockerMachineWrites, logger
  <2>2. CASE script[written + 1] = "stderr"
    <3>1. errPipe' = Append(errPipe, written + 1) /\ outPipe' = outPipe
      BY <1>3, <2>1, <2>2 DEF DockerMachineWrites
    <3>2. Rising(errPipe') /\ UpTo(errPipe', written')
      BY <2>1, <3>1, RisingAppend DEF ErrInv
    <3>3. OutInv'
      BY <2>1, <3>1 DEF OutInv, Rising, UpTo, Stdout, Lines
    <3>4. ErrInv'
      <4>1. Stderr(errPipe')
        BY <2>2, <3>1, KindAppend DEF ErrInv
      <4> QED
        BY <2>1, <3>2, <4>1 DEF ErrInv, Stderr, Rising, UpTo
    <3>5. ScannerInv'
      <4>1. Rising(buffered') /\ UpTo(buffered', written')
        BY <2>1 DEF ScannerInv, Rising, UpTo, Lines
      <4>2. Under(buffered, errPipe) => Under(buffered', errPipe')
        BY <2>1, <3>1, UnderAppend DEF ScannerInv
      <4> QED
        BY <2>1, <3>1, <4>1, <4>2 DEF ScannerInv, Under, Stdout, Stderr
    <3> QED
      BY <3>3, <3>4, <3>5
  <2>3. CASE script[written + 1] # "stderr"
    <3>1. outPipe' = Append(outPipe, written + 1) /\ errPipe' = errPipe
      BY <1>3, <2>1, <2>3 DEF DockerMachineWrites
    <3>2. Rising(outPipe') /\ UpTo(outPipe', written')
      BY <2>1, <3>1, RisingAppend DEF OutInv
    <3>3. ErrInv'
      BY <2>1, <3>1 DEF ErrInv, Rising, UpTo, Stderr, Lines
    <3>4. OutInv'
      <4>1. Stdout(outPipe')
        BY <2>3, <3>1, KindAppend DEF OutInv
      <4> QED
        BY <2>1, <3>2, <4>1 DEF OutInv, Stdout, Rising, UpTo
    <3>5. ScannerInv'
      <4>1. Rising(buffered') /\ UpTo(buffered', written')
        BY <2>1 DEF ScannerInv, Rising, UpTo, Lines
      <4>2. Under(buffered, outPipe) => Under(buffered', outPipe')
        BY <2>1, <3>1, UnderAppend DEF ScannerInv
      <4> QED
        BY <2>1, <3>1, <4>1, <4>2 DEF ScannerInv, Under, Stdout, Stderr
    <3> QED
      BY <3>3, <3>4, <3>5
  <2> QED
    BY <2>2, <2>3
<1>4. CASE ReadStdout
  <2>1. PICK n \in 1..Len(outPipe) : /\ buffered' = SubSeq(outPipe, 1, n)
                                     /\ outPipe' = SubSeq(outPipe, n + 1, Len(outPipe))
    BY <1>4 DEF ReadStdout, Fill
  <2>2. lpc = "stdout" /\ UNCHANGED <<lpc, written, script, errPipe>>
    BY <1>4 DEF ReadStdout, machine
  <2>3. /\ Rising(buffered') /\ Rising(outPipe') /\ Under(buffered', outPipe')
        /\ UpTo(buffered', written) /\ UpTo(outPipe', written)
        /\ Stdout(buffered') /\ Stdout(outPipe')
    <3>1. Rising(buffered') /\ Rising(outPipe') /\ Under(buffered', outPipe')
      BY <2>1, RisingCut DEF OutInv
    <3>2. /\ UpTo(buffered', written) /\ UpTo(outPipe', written)
          /\ Stdout(buffered') /\ Stdout(outPipe')
      BY <2>1, CutKeeps DEF OutInv
    <3> QED
      BY <3>1, <3>2
  <2> QED
    BY <2>2, <2>3 DEF OutInv, ErrInv, ScannerInv, Rising, UpTo, Stdout, Stderr
<1>5. CASE ReadStderr
  <2>1. PICK n \in 1..Len(errPipe) : /\ buffered' = SubSeq(errPipe, 1, n)
                                     /\ errPipe' = SubSeq(errPipe, n + 1, Len(errPipe))
    BY <1>5 DEF ReadStderr, Fill
  <2>2. lpc = "stderr" /\ UNCHANGED <<lpc, written, script, outPipe>>
    BY <1>5 DEF ReadStderr, machine
  <2>3. /\ Rising(buffered') /\ Rising(errPipe') /\ Under(buffered', errPipe')
        /\ UpTo(buffered', written) /\ UpTo(errPipe', written)
        /\ Stderr(buffered') /\ Stderr(errPipe')
    <3>1. Rising(buffered') /\ Rising(errPipe') /\ Under(buffered', errPipe')
      BY <2>1, RisingCut DEF ErrInv
    <3>2. /\ UpTo(buffered', written) /\ UpTo(errPipe', written)
          /\ Stderr(buffered') /\ Stderr(errPipe')
      BY <2>1, CutKeeps DEF ErrInv
    <3> QED
      BY <3>1, <3>2
  <2> QED
    BY <2>2, <2>3 DEF OutInv, ErrInv, ScannerInv, Rising, UpTo, Stdout, Stderr
<1>6. CASE LogStdout \/ LogStderr
  <2>1. UNCHANGED <<outPipe, errPipe, written, script>>
    BY <1>6 DEF LogStdout, LogStderr, machine, pipes
  <2>2. lpc' # "off" /\ (lpc' = lpc \/ lpc' = "panic")
    BY <1>6 DEF LogStdout, LogStderr
  <2>3. buffered # <<>> /\ buffered' \in {buffered, Tail(buffered)}
    BY <1>6 DEF LogStdout, LogStderr, SendError
  <2>4. /\ Rising(buffered') /\ UpTo(buffered', written)
        /\ lpc = "stdout" => Under(buffered', outPipe) /\ Stdout(buffered')
        /\ lpc = "stderr" => Under(buffered', errPipe) /\ Stderr(buffered')
    BY <2>3, RisingTail, TailKeeps DEF ScannerInv
  <2> QED
    BY <2>1, <2>2, <2>4 DEF OutInv, ErrInv, ScannerInv, Rising, UpTo, Under, Stdout, Stderr
<1>7. CASE StdoutEnds \/ StderrEnds
  <2>1. UNCHANGED <<outPipe, errPipe, written, script, buffered>> /\ buffered = <<>>
    BY <1>7 DEF StdoutEnds, StderrEnds, ScanEnds, machine, pipes
  <2>2. lpc' # "off" /\ Len(buffered') = 0
    BY <1>7, <2>1, EmptySeq DEF StdoutEnds, StderrEnds
  <2> QED
    BY <2>1, <2>2 DEF OutInv, ErrInv, ScannerInv, Rising, UpTo, Under, Stdout, Stderr
<1> QED
  BY <1>1, <1>2, <1>3, <1>4, <1>5, <1>6, <1>7, NextCases

-----------------------------------------------------------------------------
(***************************************************************************)
(* The order of messages.                                                  *)
(***************************************************************************)

\* A message has a sender and a number.
LEMMA SentFacts ==
    ASSUME TypeOK, NEW m \in Sent
    PROVE  m \in Messages \cup {NoMsg} /\ m[2] \in Nat /\ (m[1] = "machine" => m[2] >= 1)
<1>1. m \in Messages \cup {NoMsg}
  BY ElementOfSeq DEF Sent, TypeOK
<1>2. CASE m = NoMsg
  BY <1>1, <1>2 DEF NoMsg
<1>3. CASE m \in {"machine"} \X Lines
  BY <1>1, <1>3 DEF Lines
<1>4. CASE m \in {"handler"} \X (1..Len(Says))
  BY <1>1, <1>4, SaysFacts
<1> QED
  BY <1>1, <1>2, <1>3, <1>4 DEF Messages

\* Who sends what: the handler at its points, and logProgress a line of the scanner.
Logs(m) ==
    /\ LogStdout /\ lpc = "stdout" /\ m = <<"machine", Head(buffered)>>
    /\ buffered' = Tail(buffered) /\ buffered # <<>>

\* publishChan and what is published: a message is sent, taken, or repeated.
LEMMA QueueCases ==
    ASSUME TypeOK, Next
    PROVE  \/ UNCHANGED <<publishChan, lastMsg>> /\ shown' \in {shown, lastMsg}
           \/ /\ UNCHANGED <<lastMsg, shown>>
              /\ \E i \in 1..5 : Say(i) /\ publishChan' = Append(publishChan, <<"handler", i>>)
           \/ /\ UNCHANGED <<lastMsg, shown>>
              /\ \E m \in Messages : Logs(m) /\ publishChan' = Append(publishChan, m)
           \/ /\ publishChan # <<>> /\ lastMsg' = Head(publishChan)
              /\ publishChan' = Tail(publishChan) /\ shown' = shown
<1>1. CASE Elsewhere
  <2>1. CASE Republisher
    BY <2>1 DEF Republisher, Receive, Tick, PublishTransitioningReply, publish
  <2>2. ASSUME NEW i \in 1..Len(Says), Say(i)
        PROVE  /\ UNCHANGED <<lastMsg, shown>>
               /\ \E k \in 1..5 : Say(k) /\ publishChan' = Append(publishChan, <<"handler", k>>)
    BY <2>2, SaysFacts DEF Say, cattle
  <2>3. CASE GetHost \/ SelectError \/ Cleanup \/ RegisterAgent \/ FinalReply \/ Close
             \/ ErrorReply
    BY <2>3 DEF GetHost, SelectError, Cleanup, RegisterAgent, Afterwards, FinalReply, Close,
       ErrorReply, publish, cattle
  <2> QED
    BY <1>1, <2>1, <2>2, <2>3 DEF Elsewhere
<1>2. CASE LogStdout
  <2> DEFINE m == <<"machine", Head(buffered)>>
  <2>1. m \in Messages
    BY <1>2, TailFacts DEF LogStdout, TypeOK, Messages
  <2>2. UNCHANGED <<lastMsg, shown>>
    BY <1>2 DEF LogStdout, cattle
  <2>3. \/ publishChan' = publishChan
        \/ /\ lpc = "stdout" /\ buffered # <<>> /\ buffered' = Tail(buffered)
           /\ publishChan' = Append(publishChan, m)
    BY <1>2 DEF LogStdout
  <2> QED
    BY <1>2, <2>1, <2>2, <2>3 DEF Logs
<1>3. CASE \/ Start \/ CommandWait \/ DockerMachineWrites \/ DockerMachineExits
           \/ ReadStdout \/ StdoutEnds \/ ReadStderr \/ LogStderr \/ StderrEnds
  BY <1>3 DEF Start, CommandWait, DockerMachineWrites, DockerMachineExits, ReadStdout,
     StdoutEnds, ReadStderr, LogStderr, StderrEnds, publish, cattle
<1> QED
  BY <1>1, <1>2, <1>3, NextCases

\* What can be seen has been sent before, or is what is sent now.
LEMMA SentStep ==
    ASSUME TypeOK, Next, NEW m \in Sent'
    PROVE  m \in Sent \/ (\E i \in 1..5 : Say(i) /\ m = <<"handler", i>>) \/ Logs(m)
<1>1. m \in {lastMsg', shown'} \/ \E i \in 1..Len(publishChan') : m = publishChan'[i]
  BY DEF Sent
<1>2. CASE UNCHANGED <<publishChan, lastMsg>> /\ shown' \in {shown, lastMsg}
  BY <1>1, <1>2 DEF Sent
<1>3. ASSUME NEW e \in Messages, publishChan' = Append(publishChan, e),
             UNCHANGED <<lastMsg, shown>>
      PROVE  m \in Sent \/ m = e
  <2>1. ASSUME NEW i \in 1..Len(publishChan')
        PROVE  \/ publishChan'[i] = e
               \/ \E j \in 1..Len(publishChan) : publishChan'[i] = publishChan[j]
    <3>1. publishChan \in Seq(Messages)
      BY DEF TypeOK
    <3>2. CASE i = Len(publishChan) + 1
      BY <1>3, <3>1, <3>2, AppendFacts
    <3>3. CASE i # Len(publishChan) + 1
      BY <1>3, <3>1, <3>3, AppendFacts
    <3> QED
      BY <3>2, <3>3
  <2> QED
    BY <1>1, <1>3, <2>1 DEF Sent
<1>4. CASE /\ publishChan # <<>> /\ lastMsg' = Head(publishChan)
           /\ publishChan' = Tail(publishChan) /\ shown' = shown
  <2>1. publishChan \in Seq(Messages)
    BY DEF TypeOK
  <2>2. lastMsg' = publishChan[1] /\ 1 \in 1..Len(publishChan)
    BY <1>4, <2>1, TailFacts
  <2>3. \A i \in 1..Len(publishChan') :
            \E j \in 1..Len(publishChan) : publishChan'[i] = publishChan[j]
    <3> SUFFICES ASSUME NEW i \in 1..Len(publishChan')
                 PROVE  \E j \in 1..Len(publishChan) : publishChan'[i] = publishChan[j]
      OBVIOUS
    <3>1. i + 1 \in 1..Len(publishChan) /\ publishChan'[i] = publishChan[i + 1]
      BY <1>4, <2>1, TailFacts
    <3> QED
      BY <3>1
  <2> QED
    BY <1>1, <1>4, <2>2, <2>3 DEF Sent
<1>5. \A i \in 1..5 : <<"handler", i>> \in Messages
  BY SaysFacts DEF Messages
<1> QED
  BY <1>2, <1>3, <1>4, <1>5, QueueCases

\* The handler does not go back.
LEMMA Forward ==
    ASSUME Next
    PROVE  /\ hpc' \in Before1 => hpc \in Before1
           /\ hpc' \in Before2 => hpc \in Before2
           /\ hpc' \in Before3 => hpc \in Before3
           /\ hpc' \in Before4 => hpc \in Before4
           /\ hpc' \in Before5 => hpc \in Before5
<1> USE SaysFacts DEF HGoto, Before1, Before2, Before3, Before4, Before5
<1>1. CASE GetHost \/ Start \/ CommandWait \/ SelectError \/ Cleanup
  BY <1>1 DEF GetHost, Start, CommandWait, SelectError, Cleanup
<1>2. CASE RegisterAgent \/ FinalReply \/ Close \/ ErrorReply
  BY <1>2 DEF RegisterAgent, Afterwards, FinalReply, Close, ErrorReply
<1>3. CASE \E i \in 1..Len(Says) : Say(i)
  BY <1>3 DEF Say
<1>4. CASE DockerMachine \/ LogProgress \/ Republisher
  BY <1>4 DEF DockerMachine, DockerMachineWrites, DockerMachineExits, LogProgress, ReadStdout,
     LogStdout, StdoutEnds, ReadStderr, LogStderr, StderrEnds, Republisher, Receive, Tick,
     PublishTransitioningReply, handler
<1> QED
  BY <1>1, <1>2, <1>3, <1>4 DEF Next, Handler

\* The handler says everything once.
LEMMA SaidStep ==
    ASSUME TypeOK, SaidInv, Next
    PROVE  SaidInv'
<1> SUFFICES ASSUME NEW m \in Sent', m[1] = "handler"
             PROVE  /\ hpc' \in Before1 => m[2] < 1
                    /\ hpc' \in Before2 => m[2] < 2
                    /\ hpc' \in Before3 => m[2] < 3
                    /\ hpc' \in Before4 => m[2] < 4
                    /\ hpc' \in Before5 => m[2] < 5
  BY DEF SaidInv
<1>1. CASE m \in Sent
  BY <1>1, Forward DEF SaidInv
<1>2. ASSUME NEW i \in 1..5, Say(i), m = <<"handler", i>>
      PROVE  /\ hpc' \in Before1 => m[2] < 1
             /\ hpc' \in Before2 => m[2] < 2
             /\ hpc' \in Before3 => m[2] < 3
             /\ hpc' \in Before4 => m[2] < 4
             /\ hpc' \in Before5 => m[2] < 5
  <2>1. m[2] = i /\ hpc' = Then[i]
    BY <1>2 DEF Say, HGoto
  <2> QED
    BY <2>1, SaysFacts DEF Before1, Before2, Before3, Before4, Before5
<1>3. CASE Logs(m)
  BY <1>3 DEF Logs
<1> QED
  BY <1>1, <1>2, <1>3, SentStep

\* Where lines of stdout can be in the next state, as long as it is read.
LEMMA Lines1 ==
    ASSUME TypeOK, StageInv, LinesInv, Next, lpc' = "stdout"
    PROVE  /\ lpc = "stdout" \/ (Start /\ lpc = "off")
           /\ \A i \in 1..Len(buffered') :
                  Occurs(buffered'[i], buffered) \/ Occurs(buffered'[i], outPipe)
           /\ \A i \in 1..Len(outPipe') :
                  Occurs(outPipe'[i], outPipe) \/ outPipe'[i] = written + 1
<1> USE LinesAreNumbers
<1>1. CASE Elsewhere \/ Start \/ DockerMachineExits
  <2>1. buffered' = buffered /\ outPipe' = outPipe
    BY <1>1, ElsewhereKeeps DEF Start, DockerMachineExits, pipes, logger
  <2>2. lpc = "stdout" \/ (Start /\ lpc = "off")
    BY <1>1, ElsewhereKeeps DEF Start, DockerMachineExits, logger, StageInv, Unstarted, HGoto
  <2> QED
    BY <2>1, <2>2 DEF Occurs
<1>2. CASE CommandWait
  <2>1. outPipe' = <<>> /\ buffered' = buffered /\ lpc = "stdout"
    BY <1>2 DEF CommandWait, logger
  <2>2. Len(outPipe') = 0
    BY <2>1, EmptySeq
  <2> QED
    BY <2>1, <2>2 DEF Occurs
<1>3. CASE DockerMachineWrites
  <2>1. buffered' = buffered /\ lpc = "stdout"
    BY <1>3 DEF DockerMachineWrites, logger
  <2>2. outPipe' = outPipe \/ outPipe' = Append(outPipe, written + 1)
    BY <1>3 DEF DockerMachineWrites
  <2>3. ASSUME NEW i \in 1..Len(outPipe')
        PROVE  Occurs(outPipe'[i], outPipe) \/ outPipe'[i] = written + 1
    <3>1. CASE outPipe' = outPipe
      BY <3>1 DEF Occurs
    <3>2. CASE outPipe' = Append(outPipe, written + 1) /\ i = Len(outPipe) + 1
      BY <3>2, AppendFacts
    <3>3. CASE outPipe' = Append(outPipe, written + 1) /\ i # Len(outPipe) + 1
      <4>1. i \in 1..Len(outPipe) /\ outPipe'[i] = outPipe[i]
        BY <3>3, AppendFacts
      <4> QED
        BY <4>1 DEF Occurs
    <3> QED
      BY <2>2, <3>1, <3>2, <3>3
  <2> QED
    BY <2>1, <2>3 DEF Occurs
<1>4. CASE ReadStdout
  <2>1. PICK n \in 1..Len(outPipe) : /\ buffered' = SubSeq(outPipe, 1, n)
                                     /\ outPipe' = SubSeq(outPipe, n + 1, Len(outPipe))
    BY <1>4 DEF ReadStdout, Fill
  <2>2. ASSUME NEW i \in 1..Len(buffered') PROVE Occurs(buffered'[i], outPipe)
    <3>1. i \in 1..Len(outPipe) /\ buffered'[i] = outPipe[i]
      BY <2>1, CutFacts
    <3> QED
      BY <3>1 DEF Occurs
  <2>3. ASSUME NEW i \in 1..Len(outPipe') PROVE Occurs(outPipe'[i], outPipe)
    <3>1. n + i \in 1..Len(outPipe) /\ outPipe'[i] = outPipe[n + i]
      BY <2>1, CutFacts
    <3> QED
      BY <3>1 DEF Occurs
  <2> QED
    BY <1>4, <2>2, <2>3 DEF ReadStdout
<1>5. CASE LogStdout
  <2>1. lpc = "stdout" /\ buffered' = Tail(buffered) /\ buffered # <<>> /\ outPipe' = outPipe
    BY <1>5 DEF LogStdout, SendError, pipes
  <2>2. ASSUME NEW i \in 1..Len(buffered') PROVE Occurs(buffered'[i], buffered)
    <3>1. i + 1 \in 1..Len(buffered) /\ buffered'[i] = buffered[i + 1]
      BY <2>1, TailFacts
    <3> QED
      BY <3>1 DEF Occurs
  <2> QED
    BY <2>1, <2>2 DEF Occurs
<1>6. CASE StdoutEnds \/ ReadStderr \/ LogStderr \/ StderrEnds
  BY <1>6 DEF StdoutEnds, ReadStderr, LogStderr, StderrEnds
<1> QED
  BY <1>1, <1>2, <1>3, <1>4, <1>5, <1>6, NextCases

\* logProgress sends lines in the order in which they were written.
LEMMA LoggedStep ==
    ASSUME TypeOK, StageInv, LinesInv, LoggedInv, Next
    PROVE  LoggedInv'
<1>0. written' \in Nat /\ written \in Nat /\ written <= written'
  <2>1. written' = written \/ written' = written + 1
    BY NextCases, ElsewhereKeeps DEF Start, CommandWait, DockerMachineWrites,
       DockerMachineExits, ReadStdout, LogStdout, StdoutEnds, ReadStderr, LogStderr,
       StderrEnds, machine
  <2> QED
    BY <2>1, LinesAreNumbers
<1> SUFFICES ASSUME NEW m \in Sent', m[1] = "machine"
             PROVE  /\ m[2] <= written'
                    /\ lpc' = "stdout" => /\ \A i \in 1..Len(buffered') : m[2] < buffered'[i]
                                          /\ \A i \in 1..Len(outPipe') : m[2] < outPipe'[i]
  BY DEF LoggedInv
<1>1. CASE m \in Sent
  <2>1. m[2] \in Nat /\ m[2] >= 1 /\ m[2] <= written
    BY <1>1, SentFacts DEF LoggedInv
  <2>2. ASSUME lpc' = "stdout"
        PROVE  /\ \A i \in 1..Len(buffered') : m[2] < buffered'[i]
               /\ \A i \in 1..Len(outPipe') : m[2] < outPipe'[i]
    <3>1. lpc = "stdout"
      <4>1. ~Start
        BY <1>0, <2>1 DEF Start, StageInv, Unstarted, HGoto
      <4> QED
        BY <2>2, <4>1, Lines1
    <3>2. /\ \A k : Occurs(k, buffered) => m[2] < k
          /\ \A k : Occurs(k, outPipe) => m[2] < k
      BY <1>1, <3>1 DEF LoggedInv, Occurs
    <3>3. m[2] < written + 1
      BY <1>0, <2>1
    <3> QED
      BY <2>2, <3>2, <3>3, Lines1
  <2> QED
    BY <1>0, <2>1, <2>2
<1>2. CASE Logs(m)
  <2>1. /\ lpc = "stdout" /\ m[2] = Head(buffered)
        /\ buffered' = Tail(buffered) /\ buffered # <<>> /\ outPipe' = outPipe
    BY <1>2 DEF Logs, LogStdout, pipes
  <2>2. Head(buffered) = buffered[1] /\ 1 \in 1..Len(buffered) /\ buffered[1] \in Nat
    BY <2>1, TailFacts, LinesAreNumbers
  <2>3. m[2] <= written /\ \A i \in 1..Len(outPipe') : m[2] < outPipe'[i]
    BY <2>1, <2>2 DEF LinesInv, ScannerInv, UpTo, Under
  <2>4. \A i \in 1..Len(buffered') : m[2] < buffered'[i]
    BY <2>1, RisingTail, LinesAreNumbers DEF LinesInv, ScannerInv
  <2> QED
    BY <1>0, <2>1, <2>2, <2>3, <2>4
<1>3. ASSUME NEW i \in 1..5, m = <<"handler", i>> PROVE FALSE
  BY <1>3
<1> QED
  BY <1>1, <1>2, <1>3, SentStep

\* What is sent comes after all that has been sent by the same sender.
LEMMA NewIsLater ==
    ASSUME TypeOK, LinesInv, SaidInv, LoggedInv, NEW m \in Messages, NEW x \in Sent,
           Logs(m) \/ \E i \in 1..5 : Say(i) /\ m = <<"handler", i>>
    PROVE  ~Later(x, m)
<1>1. x[2] \in Nat
  BY SentFacts
<1>2. CASE Logs(m)
  <2>1. /\ lpc = "stdout" /\ buffered # <<>> /\ m = <<"machine", Head(buffered)>>
    BY <1>2 DEF Logs
  <2>2. Head(buffered) = buffered[1] /\ 1 \in 1..Len(buffered) /\ buffered[1] \in Nat
    BY <2>1, TailFacts, LinesAreNumbers
  <2>3. x[1] = "machine" => x[2] < buffered[1]
    BY <2>1, <2>2 DEF LoggedInv
  <2> QED
    BY <1>1, <2>1, <2>2, <2>3 DEF Later
<1>3. ASSUME NEW i \in 1..5, Say(i), m = <<"handler", i>>
      PROVE  ~Later(x, m)
  <2>1. hpc = Says[i]
    BY <1>3 DEF Say, HGoto
  <2>2. x[1] = "handler" => x[2] < i
    BY <2>1, SaysFacts DEF SaidInv, Before1, Before2, Before3, Before4, Before5
  <2> QED
    BY <1>1, <1>3, <2>2 DEF Later
<1> QED
  BY <1>2, <1>3

\* The queue stays in order.
LEMMA QueueStep ==
    ASSUME TypeOK, LinesInv, SaidInv, LoggedInv, QueueInv, Next
    PROVE  QueueInv'
<1> USE DEF QueueInv, Ordered
<1>1. publishChan \in Seq(Messages)
  BY DEF TypeOK
<1>2. CASE UNCHANGED <<publishChan, lastMsg>> /\ shown' \in {shown, lastMsg}
  <2>1. ~Later(lastMsg, lastMsg)
    BY SentFacts DEF Sent, Later
  <2> QED
    BY <1>2, <2>1
<1>3. ASSUME NEW m \in Messages, UNCHANGED <<lastMsg, shown>>,
             publishChan' = Append(publishChan, m),
             Logs(m) \/ \E i \in 1..5 : Say(i) /\ m = <<"handler", i>>
      PROVE  QueueInv'
  <2>1. /\ Len(publishChan') = Len(publishChan) + 1 /\ Len(publishChan) \in Nat
        /\ \A i \in 1..Len(publishChan) : publishChan'[i] = publishChan[i]
        /\ publishChan'[Len(publishChan) + 1] = m
    BY <1>1, <1>3, AppendFacts
  <2>2. \A x \in Sent : ~Later(x, m)
    BY <1>3, NewIsLater
  <2>3. lastMsg \in Sent /\ shown \in Sent /\ \A i \in 1..Len(publishChan) : publishChan[i] \in Sent
    BY DEF Sent
  <2>4. ASSUME NEW i \in 1..Len(publishChan')
        PROVE  i \in 1..Len(publishChan) \/ i = Len(publishChan) + 1
    BY <2>1
  <2>5. ASSUME NEW i \in 1..Len(publishChan')
        PROVE  ~Later(lastMsg', publishChan'[i]) /\ ~Later(shown', publishChan'[i])
    BY <1>3, <2>1, <2>2, <2>3, <2>4
  <2>6. ASSUME NEW i \in 1..Len(publishChan'), NEW j \in 1..Len(publishChan'), i < j
        PROVE  ~Later(publishChan'[i], publishChan'[j])
    <3>1. i \in 1..Len(publishChan)
      BY <2>1, <2>6
    <3>2. CASE j \in 1..Len(publishChan)
      BY <2>1, <2>6, <3>1, <3>2
    <3>3. CASE j = Len(publishChan) + 1
      BY <2>1, <2>2, <2>3, <3>1, <3>3
    <3> QED
      BY <2>4, <3>2, <3>3
  <2> QED
    BY <1>3, <2>5, <2>6
<1>4. CASE /\ publishChan # <<>> /\ lastMsg' = Head(publishChan)
           /\ publishChan' = Tail(publishChan) /\ shown' = shown
  <2>1. lastMsg' = publishChan[1] /\ 1 \in 1..Len(publishChan)
    BY <1>1, <1>4, TailFacts
  <2>2. ASSUME NEW i \in 1..Len(publishChan')
        PROVE  i + 1 \in 1..Len(publishChan) /\ publishChan'[i] = publishChan[i + 1] /\ 1 < i + 1
    BY <1>1, <1>4, TailFacts
  <2>3. ASSUME NEW i \in 1..Len(publishChan')
        PROVE  ~Later(lastMsg', publishChan'[i]) /\ ~Later(shown', publishChan'[i])
    BY <1>4, <2>1, <2>2
  <2>4. ASSUME NEW i \in 1..Len(publishChan'), NEW j \in 1..Len(publishChan'), i < j
        PROVE  ~Later(publishChan'[i], publishChan'[j])
    <3>1. i + 1 < j + 1
      BY <2>4
    <3> QED
      BY <2>2, <3>1
  <2>5. ~Later(shown', lastMsg')
    BY <1>4, <2>1
  <2> QED
    BY <2>3, <2>4, <2>5
<1>5. \A i \in 1..5 : <<"handler", i>> \in Messages
  BY SaysFacts DEF Messages
<1> QED
  BY <1>2, <1>3, <1>4, <1>5, QueueCases

-----------------------------------------------------------------------------
(***************************************************************************)
(* The first error.                                                        *)
(***************************************************************************)

\* Nothing is waiting in an empty sequence.
LEMMA NothingOccurs == \A k : ~Occurs(k, <<>>)
BY EmptySeq DEF Occurs

\* What waits behind another line still waits when that one is taken.
LEMMA OccursTail ==
    ASSUME NEW s \in Seq(Nat), s # <<>>, NEW k, Occurs(k, s), k # Head(s)
    PROVE  Occurs(k, Tail(s))
<1>1. PICK i \in 1..Len(s) : s[i] = k
  BY DEF Occurs
<1>2. i # 1 /\ Len(s) \in Nat
  BY <1>1, TailFacts
<1>3. i - 1 \in 1..(Len(s) - 1) /\ (i - 1) + 1 = i
  BY <1>2
<1>4. Len(Tail(s)) = Len(s) - 1 /\ Tail(s)[i - 1] = s[i]
  BY <1>3, TailFacts
<1> QED
  BY <1>1, <1>3, <1>4 DEF Occurs

\* A written line waits.
LEMMA OccursAppend ==
    ASSUME NEW s \in Seq(Nat), NEW e \in Nat
    PROVE  /\ Occurs(e, Append(s, e))
           /\ \A k : Occurs(k, s) => Occurs(k, Append(s, e))
<1>1. /\ Len(Append(s, e)) = Len(s) + 1 /\ Len(s) \in Nat
      /\ \A i \in 1..Len(s) : Append(s, e)[i] = s[i]
      /\ Append(s, e)[Len(s) + 1] = e
  BY AppendFacts
<1>2. Len(s) + 1 \in 1..Len(Append(s, e))
  BY <1>1
<1>3. ASSUME NEW k, Occurs(k, s) PROVE Occurs(k, Append(s, e))
  <2>1. PICK i \in 1..Len(s) : s[i] = k
    BY <1>3 DEF Occurs
  <2>2. i \in 1..Len(Append(s, e)) /\ Append(s, e)[i] = k
    BY <1>1, <2>1
  <2> QED
    BY <2>2 DEF Occurs
<1> QED
  BY <1>1, <1>2, <1>3 DEF Occurs

\* The scanner's next line comes before all that are ahead.
LEMMA HeadIsFirst ==
    ASSUME TypeOK, LinesInv, buffered # <<>>, NEW pipe, Under(buffered, pipe),
           NEW k \in Nat, Ahead(k, pipe)
    PROVE  Head(buffered) <= k
<1>1. /\ Head(buffered) = buffered[1] /\ 1 \in 1..Len(buffered) /\ buffered[1] \in Nat
  BY TailFacts, LinesAreNumbers
<1>2. buffered[1] <= written /\ written \in Nat
  BY <1>1, LinesAreNumbers DEF LinesInv, ScannerInv, UpTo
<1>3. Occurs(k, pipe) => buffered[1] < k
  BY <1>1 DEF Under, Occurs
<1>4. Occurs(k, buffered) => Head(buffered) <= k
  BY RisingTail, LinesAreNumbers DEF LinesInv, ScannerInv, Occurs
<1> QED
  BY <1>1, <1>2, <1>3, <1>4 DEF Ahead

\* A step leaves a line ahead, unless it is the one that the scanner returns.
LEMMA AheadTail ==
    ASSUME TypeOK, buffered # <<>>, buffered' = Tail(buffered), UNCHANGED <<written, pipesOpen>>,
           NEW pipe, NEW k \in Nat, k # Head(buffered),
           \/ k > written \/ Occurs(k, pipe) \/ Occurs(k, buffered)
           \/ ~pipesOpen /\ \A i \in 1..Len(buffered) : buffered[i] < k
    PROVE  \/ k > written' \/ Occurs(k, pipe) \/ Occurs(k, buffered')
           \/ ~pipesOpen' /\ \A i \in 1..Len(buffered') : buffered'[i] < k
<1>1. Occurs(k, buffered) => Occurs(k, buffered')
  BY OccursTail, LinesAreNumbers
<1>2. \A i \in 1..Len(buffered') : i + 1 \in 1..Len(buffered) /\ buffered'[i] = buffered[i + 1]
  BY TailFacts, LinesAreNumbers
<1> QED
  BY <1>1, <1>2

\* ... and so does filling the scanner from the pipe.
LEMMA AheadFill ==
    ASSUME NEW pipe \in Seq(Nat), NEW pipe1, Fill(pipe, pipe1), UNCHANGED written,
           NEW k, Ahead(k, pipe)
    PROVE  k > written' \/ Occurs(k, pipe1) \/ Occurs(k, buffered')
<1>1. buffered = <<>> /\ pipesOpen
  BY DEF Fill
<1>2. PICK n \in 1..Len(pipe) : /\ buffered' = SubSeq(pipe, 1, n)
                                /\ pipe1 = SubSeq(pipe, n + 1, Len(pipe))
  BY DEF Fill
<1>3. Occurs(k, pipe) => Occurs(k, buffered') \/ Occurs(k, pipe1)
  BY <1>2, OccursCut
<1> QED
  BY <1>1, <1>3, NothingOccurs DEF Ahead

\* The error in errChan, and the one that is told, are the first.
LEMMA ToldStep ==
    ASSUME TypeOK, StageInv, LinesInv, FirstInv, Next
    PROVE  ToldInv'
<1>0. script' = script
  BY NextCases, ElsewhereKeeps DEF Start, CommandWait, DockerMachineWrites,
     DockerMachineExits, ReadStdout, LogStdout, StdoutEnds, ReadStderr, LogStderr,
     StderrEnds, machine
<1>1. errChan \in Seq(Lines) /\ Len(errChan) <= 1 /\ 0 \notin Lines /\ Generic \notin Lines
  BY ProgressAssumption DEF TypeOK, Lines, Generic
<1>2. CASE UNCHANGED <<told, errChan>>
  BY <1>0, <1>2 DEF FirstInv, ToldInv, IsFirst
<1>3. CASE SelectError
  <2>1. told = NoLine
    BY <1>3 DEF SelectError, HGoto, StageInv
  <2>2. CASE errChan # <<>> /\ told' = Head(errChan)
    <3>1. told' = errChan[1] /\ errChan[1] \in Lines
      BY <1>1, <2>2, TailFacts
    <3>2. IsFirst(told')
      BY <2>1, <2>2, <3>1 DEF FirstInv, ToldInv
    <3> QED
      BY <1>0, <1>1, <3>1, <3>2 DEF ToldInv, IsFirst, NoLine
  <2>3. CASE told' = Generic
    BY <1>1, <2>3, ProgressAssumption DEF ToldInv, NoLine, Generic
  <2> QED
    BY <1>3, <2>2, <2>3 DEF SelectError
<1>4. CASE LogStdout /\ errChan' # errChan
  <2>1. /\ lpc = "stdout" /\ script[Head(buffered)] = "stdoutError"
        /\ buffered # <<>> /\ SendError
    BY <1>4 DEF LogStdout
  <2>2. Len(errChan) = 0 /\ errChan = <<>>
    <3>1. Len(errChan) < 1
      BY <2>1 DEF SendError
    <3> QED
      BY <1>1, <3>1, TailFacts
  <2>3. told' = told
    BY <1>4 DEF LogStdout, handler
  <2>4. errChan'[1] = Head(buffered) /\ Head(buffered) \in Nat
    <3>1. Head(buffered) \in Lines
      BY <2>1, TailFacts DEF TypeOK
    <3>2. errChan'[Len(errChan) + 1] = Head(buffered)
      BY <1>1, <2>1, <3>1, AppendFacts DEF SendError
    <3> QED
      BY <2>2, <3>1, <3>2 DEF Lines
  <2>5. ASSUME told = NoLine, NEW k \in 1..Len(script), script[k] = "stdoutError"
        PROVE  Head(buffered) <= k
    <3>1. Ahead(k, outPipe)
      BY <2>1, <2>2, <2>5 DEF FirstInv, StdoutAhead, NoneSent
    <3>2. Under(buffered, outPipe)
      BY <2>1 DEF LinesInv, ScannerInv
    <3> QED
      BY <2>1, <3>1, <3>2, HeadIsFirst
  <2>6. told = NoLine => IsFirst(Head(buffered))
    BY <2>1, <2>5 DEF IsFirst
  <2> QED
    BY <1>0, <2>3, <2>4, <2>6 DEF FirstInv, ToldInv, IsFirst
<1>5. CASE LogStderr /\ errChan' # errChan
  <2>1. lpc = "stderr" /\ buffered # <<>> /\ SendError
    BY <1>5 DEF LogStderr
  <2>2. Len(errChan) = 0 /\ errChan = <<>>
    <3>1. Len(errChan) < 1
      BY <2>1 DEF SendError
    <3> QED
      BY <1>1, <3>1, TailFacts
  <2>3. told' = told
    BY <1>5 DEF LogStderr, handler
  <2>4. errChan'[1] = Head(buffered) /\ Head(buffered) \in Nat
    <3>1. Head(buffered) \in Lines
      BY <2>1, TailFacts DEF TypeOK
    <3>2. errChan'[Len(errChan) + 1] = Head(buffered)
      BY <1>1, <2>1, <3>1, AppendFacts DEF SendError
    <3> QED
      BY <2>2, <3>1, <3>2 DEF Lines
  <2>5. ASSUME told = NoLine, NEW k \in 1..Len(script)
        PROVE  script[k] # "stdoutError" /\ (script[k] = "stderr" => Head(buffered) <= k)
    <3>1. script[k] # "stdoutError" /\ (script[k] = "stderr" => Ahead(k, errPipe))
      BY <2>1, <2>2, <2>5 DEF FirstInv, StderrAhead, NoneSent
    <3>2. Under(buffered, errPipe)
      BY <2>1 DEF LinesInv, ScannerInv
    <3> QED
      BY <2>1, <3>1, <3>2, HeadIsFirst
  <2>6. script[Head(buffered)] = "stderr"
    <3>1. Head(buffered) = buffered[1] /\ 1 \in 1..Len(buffered)
      BY <2>1, TailFacts, LinesAreNumbers
    <3> QED
      BY <2>1, <3>1 DEF LinesInv, ScannerInv, Stderr
  <2>7. told = NoLine => IsFirst(Head(buffered))
    BY <2>5, <2>6 DEF IsFirst
  <2> QED
    BY <1>0, <2>3, <2>4, <2>7 DEF FirstInv, ToldInv, IsFirst
<1>6. CASE LogStdout \/ LogStderr
  BY <1>2, <1>4, <1>5, <1>6 DEF LogStdout, LogStderr, handler
<1>7. CASE Elsewhere
  BY <1>2, <1>3, <1>7 DEF Elsewhere, GetHost, Cleanup, RegisterAgent, Afterwards, FinalReply,
     Close, ErrorReply, Say, Republisher, Receive, Tick, PublishTransitioningReply, handler,
     errors
<1>8. CASE \/ Start \/ CommandWait \/ DockerMachineWrites \/ DockerMachineExits
           \/ ReadStdout \/ StdoutEnds \/ ReadStderr \/ StderrEnds
  BY <1>2, <1>8 DEF Start, CommandWait, DockerMachineWrites, DockerMachineExits, ReadStdout,
     StdoutEnds, ReadStderr, StderrEnds, handler, errors
<1> QED
  BY <1>6, <1>7, <1>8, NextCases

\* Ahead in the next state, of a pipe that is now pipe1.
Ahead1(k, pipe1) ==
    \/ k > written' \/ Occurs(k, pipe1) \/ Occurs(k, buffered')
    \/ ~pipesOpen' /\ \A i \in 1..Len(buffered') : buffered'[i] < k

\* Who has sent nothing yet had sent nothing before.
LEMMA NoneSentBefore ==
    ASSUME TypeOK, Next, NoneSent'
    PROVE  NoneSent
<1> USE DEF NoneSent
<1>1. CASE UNCHANGED <<told, errChan>>
  BY <1>1
<1>2. CASE SelectError
  <2>1. told' \in Lines \/ told' = Generic
    BY <1>2, TailFacts DEF SelectError, TypeOK
  <2> QED
    BY <2>1, ProgressAssumption DEF Lines, Generic, NoLine
<1>3. CASE LogStdout \/ LogStderr
  <2>1. told' = told
    BY <1>3 DEF LogStdout, LogStderr, handler
  <2>2. Head(buffered) \in Lines /\ errChan \in Seq(Lines)
    BY <1>3, TailFacts DEF LogStdout, LogStderr, TypeOK
  <2>3. Append(errChan, Head(buffered)) # <<>>
    BY <2>2, AppendProperties
  <2>4. errChan' = errChan
    BY <1>3, <2>3 DEF LogStdout, LogStderr, SendError
  <2> QED
    BY <2>1, <2>4
<1>4. CASE Elsewhere
  BY <1>1, <1>2, <1>4 DEF Elsewhere, GetHost, Cleanup, RegisterAgent, Afterwards, FinalReply,
     Close, ErrorReply, Say, Republisher, Receive, Tick, PublishTransitioningReply, handler,
     errors
<1>5. CASE \/ Start \/ CommandWait \/ DockerMachineWrites \/ DockerMachineExits
           \/ ReadStdout \/ StdoutEnds \/ ReadStderr \/ StderrEnds
  BY <1>1, <1>5 DEF Start, CommandWait, DockerMachineWrites, DockerMachineExits, ReadStdout,
     StdoutEnds, ReadStderr, StderrEnds, handler, errors
<1> QED
  BY <1>3, <1>4, <1>5, NextCases

\* The exit of docker-machine closes the pipes, and what was in one is lost
\* behind what the scanner has read from it.
LEMMA AheadClosed ==
    ASSUME CommandWait, NEW pipe, Under(buffered, pipe), NEW k, Ahead(k, pipe)
    PROVE  Ahead1(k, <<>>)
<1>1. buffered' = buffered /\ written' = written /\ ~pipesOpen'
  BY DEF CommandWait, logger, machine
<1>2. Occurs(k, pipe) => \A i \in 1..Len(buffered) : buffered[i] < k
  BY DEF Occurs, Under
<1> QED
  BY <1>1, <1>2 DEF Ahead, Ahead1

\* What docker-machine writes waits in its pipe.
LEMMA AheadWritten ==
    ASSUME TypeOK, DockerMachineWrites, NEW pipe \in Seq(Nat), NEW pipe1, NEW k \in Nat,
           pipe1 = pipe \/ pipe1 = Append(pipe, written + 1),
           k = written + 1 => pipe1 = Append(pipe, written + 1),
           Ahead(k, pipe)
    PROVE  Ahead1(k, pipe1)
<1>1. buffered' = buffered /\ written' = written + 1 /\ written \in Nat /\ pipesOpen' = pipesOpen
  BY LinesAreNumbers DEF DockerMachineWrites, logger
<1>2. k > written => k > written' \/ k = written + 1
  BY <1>1
<1>3. k = written + 1 => Occurs(k, pipe1)
  BY <1>1, OccursAppend
<1>4. Occurs(k, pipe) => Occurs(k, pipe1)
  <2>1. written + 1 \in Nat
    BY <1>1
  <2>2. Occurs(k, pipe) => Occurs(k, Append(pipe, written + 1))
    BY <2>1, OccursAppend
  <2> QED
    BY <2>2
<1> QED
  BY <1>1, <1>2, <1>3, <1>4 DEF Ahead, Ahead1

\* Errors on stdout that have not been sent are ahead.
LEMMA StdoutAheadStep ==
    ASSUME TypeOK, StageInv, LinesInv, FirstInv, Next
    PROVE  StdoutAhead'
<1> SUFFICES ASSUME lpc' \in {"off", "stdout"}, NoneSent',
                    NEW k \in 1..Len(script'), script'[k] = "stdoutError"
             PROVE  Ahead1(k, outPipe')
  BY DEF StdoutAhead, Ahead, Ahead1, Occurs
<1>1. script' = script
  BY NextCases, ElsewhereKeeps DEF Start, CommandWait, DockerMachineWrites,
     DockerMachineExits, ReadStdout, LogStdout, StdoutEnds, ReadStderr, LogStderr,
     StderrEnds, machine
<1>2. lpc \in {"off", "stdout"}
  BY NextCases, ElsewhereKeeps DEF Start, CommandWait, DockerMachineWrites,
     DockerMachineExits, ReadStdout, LogStdout, StdoutEnds, ReadStderr, LogStderr,
     StderrEnds, logger, StageInv, Unstarted, HGoto
<1>3. Ahead(k, outPipe) /\ NoneSent
  BY <1>1, <1>2, NoneSentBefore DEF FirstInv, StdoutAhead
<1>4. k \in Nat /\ k >= 1
  OBVIOUS
<1>5. CASE Elsewhere \/ DockerMachineExits
  <2>1. UNCHANGED <<written, outPipe, buffered, pipesOpen>>
    BY <1>5, ElsewhereKeeps DEF DockerMachineExits, machine, pipes, logger
  <2> QED
    BY <1>3, <2>1 DEF Ahead, Ahead1
<1>6. CASE Start
  <2>1. written = 0 /\ written' = written
    BY <1>6 DEF Start, StageInv, Unstarted, HGoto
  <2> QED
    BY <1>4, <2>1 DEF Ahead1
<1>7. CASE CommandWait
  <2>1. outPipe' = <<>>
    BY <1>7 DEF CommandWait
  <2>2. Under(buffered, outPipe)
    BY <1>2, EmptySeq DEF LinesInv, ScannerInv, Under
  <2> QED
    BY <1>3, <1>7, <2>1, <2>2, AheadClosed
<1>8. CASE DockerMachineWrites
  <2>1. script[written + 1] # "stderr" => outPipe' = Append(outPipe, written + 1)
    BY <1>8 DEF DockerMachineWrites
  <2>2. outPipe' = outPipe \/ outPipe' = Append(outPipe, written + 1)
    BY <1>8 DEF DockerMachineWrites
  <2>3. k = written + 1 => outPipe' = Append(outPipe, written + 1)
    BY <1>1, <2>1
  <2> QED
    BY <1>3, <1>4, <1>8, <2>2, <2>3, AheadWritten, LinesAreNumbers
<1>9. CASE ReadStdout
  <2>1. Fill(outPipe, outPipe') /\ written' = written
    BY <1>9 DEF ReadStdout, machine
  <2>2. k > written' \/ Occurs(k, outPipe') \/ Occurs(k, buffered')
    BY <1>3, <2>1, AheadFill, LinesAreNumbers
  <2> QED
    BY <2>2 DEF Ahead1
<1>10. CASE LogStdout
  <2>1. /\ buffered # <<>> /\ buffered' = Tail(buffered)
        /\ UNCHANGED <<written, pipesOpen, outPipe>>
    BY <1>2, <1>10 DEF LogStdout, SendError, machine, pipes
  <2>2. k # Head(buffered)
    <3>1. Head(buffered) \in Lines /\ errChan \in Seq(Lines)
      BY <2>1, TailFacts DEF TypeOK
    <3>2. Append(errChan, Head(buffered)) # <<>>
      BY <3>1, AppendProperties
    <3> QED
      BY <1>1, <1>10, <3>2 DEF LogStdout, SendError, NoneSent
  <2> QED
    BY <1>3, <1>4, <2>1, <2>2, AheadTail DEF Ahead, Ahead1
<1>11. CASE StdoutEnds \/ ReadStderr \/ LogStderr \/ StderrEnds
  BY <1>11 DEF StdoutEnds, ReadStderr, LogStderr, StderrEnds
<1> QED
  BY <1>5, <1>6, <1>7, <1>8, <1>9, <1>10, <1>11, NextCases

\* While stdout is read nobody reads stderr.
LEMMA StderrWaitsStep ==
    ASSUME TypeOK, StageInv, LinesInv, FirstInv, Next
    PROVE  StderrWaits'
<1> SUFFICES ASSUME lpc' = "stdout", NEW k \in 1..Len(script'), script'[k] = "stderr"
             PROVE  k > written' \/ Occurs(k, errPipe') \/ ~pipesOpen'
  BY DEF StderrWaits, Occurs
<1>1. script' = script
  BY NextCases, ElsewhereKeeps DEF Start, CommandWait, DockerMachineWrites,
     DockerMachineExits, ReadStdout, LogStdout, StdoutEnds, ReadStderr, LogStderr,
     StderrEnds, machine
<1>2. k \in Nat /\ k >= 1
  OBVIOUS
<1>3. CASE Start
  <2>1. written' = 0
    BY <1>3 DEF Start, StageInv, Unstarted, HGoto
  <2> QED
    BY <1>2, <2>1
<1>4. CASE ~Start
  <2>1. lpc = "stdout"
    BY <1>4, NextCases, ElsewhereKeeps DEF CommandWait, DockerMachineWrites,
       DockerMachineExits, ReadStdout, LogStdout, StdoutEnds, ReadStderr, LogStderr,
       StderrEnds, logger
  <2>2. k > written \/ Occurs(k, errPipe) \/ ~pipesOpen
    BY <1>1, <2>1 DEF FirstInv, StderrWaits
  <2>3. CASE Elsewhere \/ DockerMachineExits \/ ReadStdout \/ LogStdout
    <3>1. UNCHANGED <<written, errPipe, pipesOpen>>
      BY <2>3, ElsewhereKeeps DEF DockerMachineExits, ReadStdout, LogStdout, machine, pipes
    <3> QED
      BY <2>2, <3>1
  <2>4. CASE CommandWait
    BY <2>4 DEF CommandWait
  <2>5. CASE DockerMachineWrites
    <3>1. written' = written + 1 /\ written \in Nat /\ pipesOpen' = pipesOpen
      BY <2>5, LinesAreNumbers DEF DockerMachineWrites
    <3>2. errPipe' = errPipe \/ errPipe' = Append(errPipe, written + 1)
      BY <2>5 DEF DockerMachineWrites
    <3>3. k = written + 1 => errPipe' = Append(errPipe, written + 1)
      BY <1>1, <2>5 DEF DockerMachineWrites
    <3>4. written + 1 \in Nat /\ errPipe \in Seq(Nat)
      BY <3>1, LinesAreNumbers
    <3>5. /\ Occurs(written + 1, Append(errPipe, written + 1))
          /\ Occurs(k, errPipe) => Occurs(k, Append(errPipe, written + 1))
      BY <3>4, OccursAppend
    <3>6. k > written => k = written + 1 \/ k > written'
      BY <1>2, <3>1
    <3> QED
      BY <2>2, <3>1, <3>2, <3>3, <3>5, <3>6
  <2>6. CASE StdoutEnds \/ ReadStderr \/ LogStderr \/ StderrEnds
    BY <2>6 DEF StdoutEnds, ReadStderr, LogStderr, StderrEnds
  <2> QED
    BY <1>4, <2>3, <2>4, <2>5, <2>6, NextCases
<1> QED
  BY <1>3, <1>4

\* Errors on stderr that have not been sent are ahead, and nothing of stdout is
\* left out before them.
LEMMA StderrAheadStep ==
    ASSUME TypeOK, StageInv, LinesInv, FirstInv, Next
    PROVE  StderrAhead'
<1> SUFFICES ASSUME lpc' = "stderr", NoneSent', pipesOpen' \/ buffered' # <<>>,
                    NEW k \in 1..Len(script')
             PROVE  /\ script'[k] # "stdoutError"
                    /\ script'[k] = "stderr" => Ahead1(k, errPipe')
  BY DEF StderrAhead, Ahead, Ahead1, Occurs
<1>1. script' = script
  BY NextCases, ElsewhereKeeps DEF Start, CommandWait, DockerMachineWrites,
     DockerMachineExits, ReadStdout, LogStdout, StdoutEnds, ReadStderr, LogStderr,
     StderrEnds, machine
<1>2. NoneSent /\ k \in Nat /\ k >= 1
  BY NoneSentBefore
<1>3. CASE StdoutEnds
  <2>1. /\ lpc = "stdout" /\ ScanEnds(outPipe) /\ buffered = <<>>
        /\ UNCHANGED <<buffered, written, errPipe, pipesOpen>>
    BY <1>3 DEF StdoutEnds, ScanEnds, machine, pipes
  <2>2. pipesOpen /\ outPipe = <<>> /\ written = Len(script)
    BY <2>1 DEF ScanEnds, Exited, StageInv
  <2>3. k <= written
    BY <1>1, <1>2, <2>2
  <2>4. ~Occurs(k, outPipe) /\ ~Occurs(k, buffered)
    BY <2>1, <2>2, NothingOccurs
  <2>5. ~(k > written)
    BY <1>2, <2>3, LinesAreNumbers
  <2>6. script[k] # "stdoutError"
    BY <1>1, <1>2, <2>1, <2>2, <2>4, <2>5 DEF FirstInv, StdoutAhead, Ahead
  <2>7. script[k] = "stderr" => Occurs(k, errPipe)
    BY <1>1, <2>1, <2>2, <2>5 DEF FirstInv, StderrWaits
  <2> QED
    BY <1>1, <2>1, <2>6, <2>7 DEF Ahead1
<1>4. CASE ~StdoutEnds
  <2>1. lpc = "stderr"
    BY <1>4, NextCases, ElsewhereKeeps DEF Start, CommandWait, DockerMachineWrites,
       DockerMachineExits, ReadStdout, LogStdout, ReadStderr, LogStderr, StderrEnds, logger
  <2>2. pipesOpen \/ buffered # <<>>
    BY <2>1, NextCases, ElsewhereKeeps DEF Start, CommandWait, DockerMachineWrites,
       DockerMachineExits, ReadStdout, LogStdout, StdoutEnds, ReadStderr, Fill, LogStderr,
       StderrEnds, logger, pipes
  <2>3. script[k] # "stdoutError" /\ (script[k] = "stderr" => Ahead(k, errPipe))
    BY <1>1, <1>2, <2>1, <2>2 DEF FirstInv, StderrAhead
  <2> SUFFICES ASSUME Ahead(k, errPipe), script[k] = "stderr"
               PROVE  Ahead1(k, errPipe')
    BY <1>1, <2>3
  <2>4. CASE Elsewhere \/ DockerMachineExits
    <3>1. UNCHANGED <<written, errPipe, buffered, pipesOpen>>
      BY <2>4, ElsewhereKeeps DEF DockerMachineExits, machine, pipes, logger
    <3> QED
      BY <3>1 DEF Ahead, Ahead1
  <2>5. CASE Start
    BY <2>1, <2>5 DEF Start, StageInv, Unstarted, HGoto
  <2>6. CASE CommandWait
    <3>1. errPipe' = <<>>
      BY <2>6 DEF CommandWait
    <3>2. Under(buffered, errPipe)
      BY <2>1 DEF LinesInv, ScannerInv
    <3> QED
      BY <2>6, <3>1, <3>2, AheadClosed
  <2>7. CASE DockerMachineWrites
    <3>1. errPipe' = errPipe \/ errPipe' = Append(errPipe, written + 1)
      BY <2>7 DEF DockerMachineWrites
    <3>2. k = written + 1 => errPipe' = Append(errPipe, written + 1)
      BY <2>7 DEF DockerMachineWrites
    <3> QED
      BY <1>2, <2>7, <3>1, <3>2, AheadWritten, LinesAreNumbers
  <2>8. CASE ReadStderr
    <3>1. Fill(errPipe, errPipe') /\ written' = written
      BY <2>8 DEF ReadStderr, machine
    <3>2. k > written' \/ Occurs(k, errPipe') \/ Occurs(k, buffered')
      BY <3>1, AheadFill, LinesAreNumbers
    <3> QED
      BY <3>2 DEF Ahead1
  <2>9. CASE LogStderr
    <3>1. buffered # <<>> /\ errChan' = Append(errChan, Head(buffered))
      BY <2>9 DEF LogStderr, SendError
    <3>2. Head(buffered) \in Lines /\ errChan \in Seq(Lines)
      BY <3>1, TailFacts DEF TypeOK
    <3>3. errChan' # <<>>
      BY <3>1, <3>2, AppendProperties
    <3> QED
      BY <3>3 DEF NoneSent
  <2>10. CASE ReadStdout \/ LogStdout \/ StderrEnds
    BY <2>1, <2>10 DEF ReadStdout, LogStdout, StderrEnds
  <2> QED
    BY <1>4, <2>4, <2>5, <2>6, <2>7, <2>8, <2>9, <2>10, NextCases
<1> QED
  BY <1>3, <1>4

-----------------------------------------------------------------------------
(***************************************************************************)
(* The theorems.                                                           *)
(***************************************************************************)
Inv == TypeOK /\ StageInv /\ LinesInv /\ SaidInv /\ LoggedInv /\ QueueInv /\ FirstInv

\* The invariant holds at first: nothing has been written or said.
LEMMA InvInit == Init => Inv
<1> SUFFICES ASSUME Init PROVE Inv
  OBVIOUS
<1>1. /\ Len(outPipe) = 0 /\ Len(errPipe) = 0 /\ Len(buffered) = 0
      /\ Len(publishChan) = 0
  BY EmptySeq DEF Init
<1>2. StageInv
  BY DEF Init, StageInv
<1>3. LinesInv
  BY <1>1 DEF Init, LinesInv, OutInv, ErrInv, ScannerInv, Rising, UpTo, Under, Stdout, Stderr
<1>4. Sent = {NoMsg} /\ NoMsg[1] = "none" /\ NoMsg[2] = 0
  BY <1>1 DEF Init, Sent, NoMsg
<1>5. SaidInv /\ LoggedInv
  BY <1>4 DEF SaidInv, LoggedInv
<1>6. QueueInv
  BY <1>1, <1>4 DEF Init, QueueInv, Ordered, Later
<1>7. ToldInv
  BY ProgressAssumption DEF Init, ToldInv, Lines, NoLine
<1>8. StdoutAhead /\ StderrWaits /\ StderrAhead
  <2>1. \A k \in 1..Len(script) : k > written
    BY DEF Init
  <2> QED
    BY <2>1 DEF Init, StdoutAhead, StderrWaits, StderrAhead, Ahead
<1> QED
  BY TypeInit, <1>2, <1>3, <1>5, <1>6, <1>7, <1>8 DEF Inv, FirstInv

\* The invariant, in every state.
LEMMA Invariance == Spec => []Inv
<1>1. Inv /\ Next => Inv'
  BY TypeStep, StageStep, LinesStep, SaidStep, LoggedStep, QueueStep, ToldStep,
     StdoutAheadStep, StderrWaitsStep, StderrAheadStep DEF Inv, FirstInv
<1>2. Inv /\ UNCHANGED vars => Inv'
  <2> SUFFICES ASSUME Inv, UNCHANGED vars PROVE Inv'
    OBVIOUS
  <2> USE DEF vars, handler, machine, pipes, logger, errors, publish, cattle
  <2>1. TypeOK' /\ StageInv'
    BY DEF Inv, TypeOK, StageInv
  <2>2. LinesInv'
    BY DEF Inv, LinesInv, OutInv, ErrInv, ScannerInv, Rising, UpTo, Under, Stdout, Stderr
  <2>3. SaidInv' /\ LoggedInv' /\ QueueInv'
    BY DEF Inv, SaidInv, LoggedInv, QueueInv, Ordered, Sent
  <2>4. FirstInv'
    BY DEF Inv, FirstInv, ToldInv, StdoutAhead, StderrWaits, StderrAhead, NoneSent, Ahead,
       Occurs, IsFirst
  <2> QED
    BY <2>1, <2>2, <2>3, <2>4 DEF Inv
<1> QED
  BY InvInit, <1>1, <1>2, PTL DEF Spec

\* The error that a failed creation is answered with is the first that
\* docker-machine wrote, whatever it writes and whenever it exits.
THEOREM FirstErrorTheorem == Spec => []FirstErrorTold
<1>1. Inv => FirstErrorTold
  BY DEF Inv, FirstInv, ToldInv, IsFirst, FirstErrorTold
<1> QED
  BY Invariance, <1>1, PTL

\* What Cattle is shown of one sender never goes back, however the ticker, the
\* handler and logProgress interleave.
THEOREM OrderTheorem == Spec => []NothingOvertakes
<1>1. Inv => NothingOvertakes
  <2> SUFFICES ASSUME Inv PROVE NothingOvertakes
    OBVIOUS
  <2> DEFINE queue == <<lastMsg>> \o publishChan
             M     == Messages \cup {NoMsg}
  <2>1. <<lastMsg>> \in Seq(M) /\ publishChan \in Seq(M) /\ Len(<<lastMsg>>) = 1
        /\ <<lastMsg>>[1] = lastMsg
    BY SeqMonotonic DEF Inv, TypeOK
  <2>2. /\ Len(queue) = 1 + Len(publishChan) /\ Len(publishChan) \in Nat
        /\ \A i \in 1..(1 + Len(publishChan)) :
               queue[i] = IF i <= 1 THEN <<lastMsg>>[i] ELSE publishChan[i - 1]
    BY <2>1, ConcatProperties, LenProperties
  <2> HIDE DEF queue
  <2>3. ASSUME NEW i \in 1..Len(queue), NEW j \in 1..Len(queue), i < j
        PROVE  ~Later(queue[i], queue[j])
    <3>1. queue[j] = publishChan[j - 1] /\ j - 1 \in 1..Len(publishChan)
      BY <2>2, <2>3
    <3>2. CASE i = 1
      <4>1. queue[i] = lastMsg
        BY <2>1, <2>2, <3>2
      <4> QED
        BY <3>1, <4>1 DEF Inv, QueueInv
    <3>3. CASE i # 1
      <4>1. queue[i] = publishChan[i - 1] /\ i - 1 \in 1..Len(publishChan) /\ i - 1 < j - 1
        BY <2>2, <2>3, <3>3
      <4> QED
        BY <3>1, <4>1 DEF Inv, QueueInv, Ordered
    <3> QED
      BY <3>2, <3>3
  <2> QED
    BY <2>3 DEF Inv, QueueInv, NothingOvertakes, queue
<1> QED
  BY Invariance, <1>1, PTL

=============================================================================
