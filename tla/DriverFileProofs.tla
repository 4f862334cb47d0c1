-------------------------- MODULE DriverFileProofs ---------------------------
(***************************************************************************)
(* What the handlers owe to an active driver, when no two drivers have one *)
(* name and the process does not die while they are handled; for any       *)
(* drivers, workers and requests, and whatever calls fail:                 *)
(*                                                                         *)
(*   - what is installed is whole (FileInv, WholeTheorem);                 *)
(*   - the error of a former attempt is not told again (LineInv, Cleared,  *)
(*     FreshTheorem);                                                      *)
(*   - an active driver can be run, and is described (UseInv,              *)
(*     UsableTheorem).                                                     *)
(*                                                                         *)
(* Nothing in dynamic.Driver keeps two goroutines from one file.  What     *)
(* does is that a driver has one handler at a time, which is what FileInv  *)
(* starts from, and that Cattle sends the events of a driver in order.     *)
(***************************************************************************)
EXTENDS DriverSchemaProofs

\* What the theorem supposes.
Separate == /\ \A d, e \in Drivers : NameOf[d] = NameOf[e] => d = e
            /\ Faults \cap {"crash", "replace"} = {}

\* The startup is over; a worker that is not idle has a driver to itself.
Alone ==
    /\ pc[Startup] = "done"
    /\ \A w \in Workers : drv[w] = NoDriver <=> pc[w] = "idle"
    /\ \A v, w \in Workers : drv[v] = drv[w] /\ drv[v] # NoDriver => v = w

FilesType ==
    /\ cache \in [Drivers -> BOOLEAN] /\ staged \in [Drivers -> Files]
    /\ tmp \in [Names -> Files] /\ bin \in [Names -> {"none", "whole"}]
    /\ src \in [Callers -> {"whole", "torn"}]

\* A file that is open is open for the worker that has its driver.
Owned ==
    /\ \A d \in Drivers, c \in Callers :
           staged[d] = c => c \in Workers /\ drv[c] = d /\ pc[c] = "copyStaged"
    /\ \A n \in Names, c \in Callers :
           tmp[n] = c => c \in Workers /\ Name(c) = n /\ pc[c] = "copy"

\* A cache file names a whole binary, but for the end of Remove.
Cached ==
    \A d \in Drivers : cache[d] =>
        staged[d] = "whole" \/ \E w \in Workers : pc[w] = "rmCache" /\ drv[w] = d

\* What the steps of Stage and Install find.
AtStep(w) ==
    /\ pc[w] \in {"download", "copyStaged", "nameCache", "copy", "rename"} => drv[w] \notin Builtin
    /\ pc[w] \in {"download", "copyStaged"} => ~cache[drv[w]]
    /\ pc[w] = "copyStaged" => staged[drv[w]] = w
    /\ pc[w] \in {"nameCache", "nameCheck", "open"} /\ drv[w] \notin Builtin =>
           staged[drv[w]] = "whole"
    /\ pc[w] = "copy" => src[w] = "whole" /\ tmp[Name(w)] = w
    /\ pc[w] = "rename" => tmp[Name(w)] = "whole"

FileInv == Alone /\ FilesType /\ Owned /\ Cached /\ \A w \in Workers : AtStep(w)

-----------------------------------------------------------------------------
\* The steps that AtStep is about, and the steps beside them.
Touching  == {"download", "copyStaged", "nameCache", "nameCheck", "open", "copy", "rename",
              "rmCache"}
Elsewhere == (Free \cup Locked) \ (Touching \cup {"idle"})

Beside(w) == /\ pc[w] \in Elsewhere /\ \E b \in Elsewhere : pc' = [pc EXCEPT ![w] = b]
             /\ UNCHANGED <<store, binary, src, drv>>

\* A step beside the files.
LEMMA BesideKeeps ==
    ASSUME FileInv, LockInv, NEW w \in Workers, Beside(w)
    PROVE  FileInv'
<1>1. w \in Callers /\ w # Startup /\ Workers \subseteq Callers
  BY DriverAssumption DEF Callers
<1>2. PICK b \in Elsewhere : pc' = [pc EXCEPT ![w] = b]
  BY DEF Beside
<1>3. b \notin Touching /\ b # "idle" /\ pc[w] \notin Touching /\ pc[w] # "idle"
  BY DEF Beside, Elsewhere
<1>4. pc'[w] = b /\ \A c \in Callers : c # w => pc'[c] = pc[c]
  BY <1>1, <1>2 DEF LockInv
<1>5. UNCHANGED <<cache, staged, tmp, bin, src, drv>>
  BY DEF Beside, store, binary
<1>6. Alone'
  BY <1>1, <1>3, <1>4, <1>5, DriverAssumption DEF FileInv, Alone, Callers
<1>7. FilesType'
  BY <1>5 DEF FileInv, FilesType
<1>8. Owned'
  BY <1>1, <1>3, <1>4, <1>5 DEF FileInv, Owned, Name, Touching
<1>9. Cached'
  BY <1>1, <1>3, <1>4, <1>5 DEF FileInv, Cached, Touching
<1>10. ASSUME NEW v \in Workers
       PROVE  AtStep(v)'
  <2>1. AtStep(v)
    BY DEF FileInv
  <2> QED
    BY <1>1, <1>3, <1>4, <1>5, <2>1 DEF AtStep, Name, Touching
<1> QED
  BY <1>6, <1>7, <1>8, <1>9, <1>10 DEF FileInv

\* The steps that are beside the files.
LEMMA SchemasBeside ==
    ASSUME NEW w \in Workers, GenerateAndUploadSchema(w) \/ UploadMachineSchemas(w)
    PROVE  Beside(w)
<1> USE DEF Beside, Elsewhere, Touching, Free, Locked, Generating, Writing, Step, Goto, SchemaFails, rest,
            disk
<1>1. CASE GenLock(w)
  BY <1>1 DEF GenLock
<1>2. CASE GetCreateFlags(w)
  BY <1>2 DEF GetCreateFlags
<1>3. CASE RemoveConfig(w)
  BY <1>3 DEF RemoveConfig
<1>4. CASE CreateConfig(w)
  BY <1>4 DEF CreateConfig
<1>5. CASE UploadLock(w)
  BY <1>5 DEF UploadLock
<1>6. CASE ListDrivers(w)
  BY <1>6 DEF ListDrivers
<1>7. CASE RemoveHost(w)
  BY <1>7, UploadsAre DEF RemoveHost
<1>8. ASSUME NEW i \in 1..4, UploadHost(w, i)
      PROVE  Beside(w)
  <2>1. Uploads[i] \in Writing /\ AfterUpload(i) \in Writing \cup {"publish"}
    BY UploadsAre DEF AfterUpload
  <2> QED
    BY <1>8, <2>1 DEF UploadHost
<1> QED
  BY <1>1, <1>2, <1>3, <1>4, <1>5, <1>6, <1>7, <1>8, UploadsAre
  DEF GenerateAndUploadSchema, UploadMachineSchemas

\* A handler that ends.
Ends(w) == pc[w] \in Elsewhere /\ Finish(w) /\ UNCHANGED <<store, binary, src>>

\* ... which calls to Cattle, and steps that find nothing to do, are as well.
LEMMA CallsBeside ==
    ASSUME NEW w \in Workers, job[w] \in Events,
           \/ GetVersion(w) \/ RemoveSchemas(w) \/ GetToRemove(w) \/ ClearError(w) \/ GetError(w)
           \/ RemoveBinary(w) /\ ~cache[drv[w]]
           \/ GetDriver(w) \/ PublishReply(w) \/ ErrorReply(w)
    PROVE  Beside(w) \/ Ends(w)
<1> USE DEF Beside, Ends, Elsewhere, Touching, Free, Locked, Generating, Writing, Step, Goto, disk,
            others
<1>1. CASE GetVersion(w)
  BY <1>1 DEF GetVersion, rest
<1>2. CASE RemoveSchemas(w)
  BY <1>2 DEF RemoveSchemas, rest
<1>3. CASE GetToRemove(w)
  BY <1>3 DEF GetToRemove
<1>4. CASE ClearError(w)
  BY <1>4 DEF ClearError
<1>5. CASE GetError(w)
  BY <1>5, DriverAssumption DEF GetError, Erred
<1>6. CASE RemoveBinary(w) /\ ~cache[drv[w]]
  BY <1>6 DEF RemoveBinary, binary
<1>7. CASE GetDriver(w)
  <2>1. First[job[w]] \in {"getError", "rmSchemas", "clearError"}
    BY DEF First, Events, Settled
  <2> QED
    BY <1>7, <2>1 DEF GetDriver
<1>8. CASE PublishReply(w)
  BY <1>8 DEF PublishReply
<1>9. CASE ErrorReply(w)
  BY <1>9 DEF ErrorReply
<1> QED
  BY <1>1, <1>2, <1>3, <1>4, <1>5, <1>6, <1>7, <1>8, <1>9

\* A worker that is done gives its driver back.
LEMMA EndsKeeps ==
    ASSUME FileInv, LockInv, WorkInv, NEW w \in Workers, Ends(w)
    PROVE  FileInv'
<1>1. w \in Callers /\ w # Startup /\ Workers \subseteq Callers /\ Startup \in Callers
  BY DriverAssumption DEF Callers
<1>2. pc[w] \notin Touching /\ "idle" \notin Touching
  BY DEF Ends, Elsewhere, Touching
<1>3. /\ pc'[w] = "idle" /\ \A c \in Callers : c # w => pc'[c] = pc[c]
      /\ drv'[w] = NoDriver /\ \A c \in Callers : c # w => drv'[c] = drv[c]
  BY <1>1 DEF Ends, Finish, Goto, LockInv, WorkInv
<1>4. UNCHANGED <<cache, staged, tmp, bin, src>>
  BY DEF Ends, store, binary
<1>5. Alone'
  BY <1>1, <1>3 DEF FileInv, Alone
<1>6. FilesType'
  BY <1>4 DEF FileInv, FilesType
<1>7. Owned'
  BY <1>1, <1>2, <1>3, <1>4 DEF FileInv, Owned, Name, Touching
<1>8. Cached'
  BY <1>1, <1>2, <1>3, <1>4 DEF FileInv, Cached, Touching
<1>9. ASSUME NEW v \in Workers
      PROVE  AtStep(v)'
  <2>1. AtStep(v)
    BY DEF FileInv
  <2> QED
    BY <1>1, <1>2, <1>3, <1>4, <2>1 DEF AtStep, Name, Touching
<1> QED
  BY <1>5, <1>6, <1>7, <1>8, <1>9 DEF FileInv

-----------------------------------------------------------------------------
\* A step of the worker that has a driver disturbs no file of another.
Shut == {"none", "whole", "torn"}

\* What a step of a worker owes to the others: to keep to its driver's files.
LEMMA OwnerKeeps ==
    ASSUME FileInv, LockInv, WorkInv, Separate, NEW w \in Workers, NEW b,
           drv[w] # NoDriver, b # "idle", pc' = [pc EXCEPT ![w] = b], drv' = drv,
           FilesType',
           \A d \in Drivers \ {drv[w]} : staged'[d] = staged[d] /\ cache'[d] = cache[d],
           \A n \in Names \ {Name(w)} : tmp'[n] = tmp[n],
           \A c \in Callers \ {w} : src'[c] = src[c],
           staged'[drv[w]] \in Shut \/ (staged'[drv[w]] = w /\ b = "copyStaged"),
           tmp'[Name(w)] \in Shut \/ (tmp'[Name(w)] = w /\ b = "copy"),
           cache'[drv[w]] => staged'[drv[w]] = "whole" \/ b = "rmCache",
           AtStep(w)'
    PROVE  FileInv'
<1>1. w \in Callers /\ w # Startup /\ Workers \subseteq Callers /\ Startup \in Callers
  BY DriverAssumption DEF Callers
<1>2. drv[w] \in Drivers
  BY <1>1 DEF WorkInv
<1>3. pc'[w] = b /\ \A c \in Callers : c # w => pc'[c] = pc[c]
  BY <1>1 DEF LockInv
<1>4. ASSUME NEW v \in Workers, v # w, drv[v] # NoDriver
      PROVE  drv[v] \in Drivers \ {drv[w]} /\ Name(v) \in Names \ {Name(w)}
  <2>1. drv[v] # drv[w]
    BY <1>4 DEF FileInv, Alone
  <2>2. drv[v] \in Drivers
    BY <1>1, <1>4 DEF WorkInv
  <2> QED
    BY <1>2, <2>1, <2>2 DEF Separate, Name, Names
<1>5. \A c \in Callers : c \notin Shut
  BY DriverAssumption DEF Shut
<1>6. Alone'
  BY <1>1, <1>3 DEF FileInv, Alone
<1>7. Owned'
  <2>1. ASSUME NEW d \in Drivers, NEW c \in Callers, staged'[d] = c
        PROVE  c \in Workers /\ drv'[c] = d /\ pc'[c] = "copyStaged"
    <3>1. CASE d = drv[w]
      BY <1>3, <1>5, <2>1, <3>1
    <3>2. CASE d # drv[w]
      BY <1>3, <2>1, <3>2 DEF FileInv, Owned
    <3> QED
      BY <3>1, <3>2
  <2>2. ASSUME NEW n \in Names, NEW c \in Callers, tmp'[n] = c
        PROVE  c \in Workers /\ Name(c)' = n /\ pc'[c] = "copy"
    <3>1. CASE n = Name(w)
      BY <1>3, <1>5, <2>2, <3>1 DEF Name
    <3>2. CASE n # Name(w)
      BY <1>3, <2>2, <3>2 DEF FileInv, Owned, Name
    <3> QED
      BY <3>1, <3>2
  <2> QED
    BY <2>1, <2>2 DEF Owned
<1>8. Cached'
  <2>1. ASSUME NEW d \in Drivers, cache'[d]
        PROVE  staged'[d] = "whole" \/ \E v \in Workers : pc'[v] = "rmCache" /\ drv'[v] = d
    <3>1. CASE d = drv[w]
      BY <1>3, <2>1, <3>1
    <3>2. CASE d # drv[w]
      BY <1>1, <1>3, <2>1, <3>2 DEF FileInv, Cached
    <3> QED
      BY <3>1, <3>2
  <2> QED
    BY <2>1 DEF Cached
<1>9. ASSUME NEW v \in Workers, v # w
      PROVE  AtStep(v)'
  <2>1. AtStep(v)
    BY DEF FileInv
  <2>2. CASE drv[v] = NoDriver
    <3>1. pc'[v] = "idle"
      BY <1>1, <1>3, <1>9, <2>2 DEF FileInv, Alone
    <3> QED
      BY <3>1 DEF AtStep
  <2>3. CASE drv[v] # NoDriver
    <3>1. /\ pc'[v] = pc[v] /\ src'[v] = src[v] /\ cache'[drv[v]] = cache[drv[v]]
          /\ staged'[drv[v]] = staged[drv[v]] /\ tmp'[Name(v)] = tmp[Name(v)]
      BY <1>1, <1>3, <1>4, <1>9, <2>3
    <3> QED
      BY <2>1, <3>1 DEF AtStep, Name
  <2> QED
    BY <2>2, <2>3
<1> QED
  BY <1>6, <1>7, <1>8, <1>9 DEF FileInv

\* A worker at work: what the steps below need to know of it.
LEMMA AtWork ==
    ASSUME FileInv, WorkInv, Separate, NEW w \in Workers, drv[w] # NoDriver
    PROVE  /\ w \in Callers /\ w # Startup /\ w \notin Shut
           /\ drv[w] \in Drivers /\ Name(w) \in Names
           /\ cache[drv[w]] => staged[drv[w]] = "whole" \/ pc[w] = "rmCache"
           /\ staged[drv[w]] \in Shut \/ (staged[drv[w]] = w /\ pc[w] = "copyStaged")
           /\ tmp[Name(w)] \in Shut \/ (tmp[Name(w)] = w /\ pc[w] = "copy")
<1>1. w \in Callers /\ w # Startup /\ w \notin Shut
  BY DriverAssumption DEF Callers, Shut
<1>2. drv[w] \in Drivers /\ Name(w) \in Names
  BY <1>1 DEF WorkInv, Name, Names
<1>3. cache[drv[w]] => staged[drv[w]] = "whole" \/ pc[w] = "rmCache"
  BY <1>2 DEF FileInv, Cached, Alone
<1>4. staged[drv[w]] \in Shut \cup Callers /\ tmp[Name(w)] \in Shut \cup Callers
  BY <1>2 DEF FileInv, FilesType, Files, Shut
<1>5. staged[drv[w]] \in Shut \/ (staged[drv[w]] = w /\ pc[w] = "copyStaged")
  BY <1>2, <1>4 DEF FileInv, Owned, Alone
<1>6. ASSUME NEW c \in Callers, tmp[Name(w)] = c
      PROVE  c = w /\ pc[w] = "copy"
  <2>1. c \in Workers /\ Name(c) = Name(w) /\ pc[c] = "copy"
    BY <1>2, <1>6 DEF FileInv, Owned
  <2>2. drv[c] \in Drivers
    BY <2>1 DEF FileInv, Alone, WorkInv
  <2>3. drv[c] = drv[w]
    BY <1>2, <2>1, <2>2 DEF Separate, Name
  <2> QED
    BY <2>1, <2>3 DEF FileInv, Alone
<1> QED
  BY <1>1, <1>2, <1>3, <1>4, <1>5, <1>6

\* Steps of Stage.
LEMMA IsInstalledKeeps ==
    ASSUME FileInv, LockInv, WorkInv, Separate, NEW w \in Workers, drv[w] # NoDriver, IsInstalled(w)
    PROVE  FileInv'
<1>1. PICK b \in {"nameCheck", "download", "errorReply"} :
          /\ pc' = [pc EXCEPT ![w] = b]
          /\ b = "nameCheck" => drv[w] \in Builtin \/ cache[drv[w]]
          /\ b = "download" => drv[w] \notin Builtin /\ ~cache[drv[w]]
  BY AtWork DEF IsInstalled, StageFails, Staged, Erred, Step, Goto, IsBuiltin
<1>2. UNCHANGED <<cache, staged, tmp, bin, src, drv>> /\ pc[w] = "isInstalled"
  BY DEF IsInstalled, StageFails, Step, store, binary, others
<1>3. FilesType'
  BY <1>2 DEF FileInv, FilesType
<1>4. pc'[w] = b
  BY <1>1, AtWork DEF LockInv
<1>5. AtStep(w)'
  BY <1>1, <1>2, <1>4, AtWork DEF AtStep
<1> QED
  BY <1>1, <1>2, <1>3, <1>5, AtWork, OwnerKeeps

\* The staged binary is opened by the worker that has the driver.
LEMMA DownloadKeeps ==
    ASSUME FileInv, LockInv, WorkInv, Separate, NEW w \in Workers, drv[w] # NoDriver, Download(w)
    PROVE  FileInv'
<1>1. /\ pc[w] = "download" /\ drv[w] \notin Builtin /\ ~cache[drv[w]]
      /\ UNCHANGED <<cache, tmp, bin, drv>>
  BY DEF Download, StageFails, Step, binary, others, FileInv, AtStep
<1>2. src' = src
  <2>1. ASSUME NEW e \in Callers, pc[e] = "copy"
        PROVE  drv[e] # drv[w]
    <3>1. pc[Startup] # "copy"
      BY DEF FileInv, Alone
    <3>2. e \in Workers /\ e # w
      BY <1>1, <2>1, <3>1 DEF Callers
    <3> QED
      BY <3>2 DEF FileInv, Alone
  <2>2. src \in [Callers -> {"whole", "torn"}]
    BY DEF FileInv, FilesType
  <2> QED
    BY <2>1, <2>2 DEF Download
<1>3. CASE StageFails(w, "download") /\ UNCHANGED <<staged, src>>
  <2>1. pc' = [pc EXCEPT ![w] = "errorReply"] /\ pc'[w] = "errorReply"
    BY <1>3, AtWork DEF StageFails, Erred, Step, Goto, LockInv
  <2>2. FilesType'
    BY <1>1, <1>2, <1>3 DEF FileInv, FilesType
  <2>3. AtStep(w)'
    BY <2>1 DEF AtStep
  <2> QED
    BY <1>1, <1>2, <1>3, <2>1, <2>2, <2>3, AtWork, OwnerKeeps
<1>4. CASE Step(w, "download", "copyStaged") /\ staged' = [staged EXCEPT ![drv[w]] = w]
  <2>1. pc' = [pc EXCEPT ![w] = "copyStaged"] /\ pc'[w] = "copyStaged"
    BY <1>4, AtWork DEF Step, Goto, LockInv
  <2>2. FilesType'
    BY <1>1, <1>2, <1>4, AtWork DEF FileInv, FilesType, Files
  <2>3. staged'[drv[w]] = w /\ \A d \in Drivers : d # drv[w] => staged'[d] = staged[d]
    BY <1>4, AtWork DEF FileInv, FilesType
  <2>4. AtStep(w)'
    BY <1>1, <2>1, <2>3 DEF AtStep
  <2> QED
    BY <1>1, <1>2, <2>1, <2>2, <2>3, <2>4, AtWork, OwnerKeeps
<1> QED
  BY <1>3, <1>4 DEF Download

\* It is closed, whole, or torn and with no cache file to name it.
LEMMA CopyStagedKeeps ==
    ASSUME FileInv, LockInv, WorkInv, Separate, NEW w \in Workers, drv[w] # NoDriver, CopyStaged(w)
    PROVE  FileInv'
<1>1. /\ pc[w] = "copyStaged" /\ drv[w] \notin Builtin /\ ~cache[drv[w]]
      /\ UNCHANGED <<cache, tmp, bin, src, drv>>
  BY DEF CopyStaged, StageFails, Step, binary, others, FileInv, AtStep
<1>2. \A d \in Drivers : staged[d] = w => d = drv[w]
  BY AtWork DEF FileInv, Owned
<1>3. PICK b \in {"nameCache", "errorReply"}, f \in {"whole", "torn"} :
          /\ pc' = [pc EXCEPT ![w] = b] /\ staged' = Closed(staged, w, f)
          /\ b = "nameCache" => f = "whole"
  BY AtWork DEF CopyStaged, StageFails, Erred, Step, Goto
<1>4. staged' = [d \in Drivers |-> IF staged[d] = w THEN f ELSE staged[d]]
  BY <1>3 DEF Closed, FileInv, FilesType
<1>5. staged' \in [Drivers -> Files]
  BY <1>4 DEF FileInv, FilesType, Files
<1>6. FilesType'
  BY <1>1, <1>5 DEF FileInv, FilesType
<1>7. /\ \A d \in Drivers \ {drv[w]} : staged'[d] = staged[d]
      /\ staged'[drv[w]] \in Shut
  BY <1>2, <1>4, AtWork DEF Shut
<1>8. b = "nameCache" => staged'[drv[w]] = "whole"
  <2>1. staged[drv[w]] = w
    BY <1>1 DEF FileInv, AtStep
  <2> QED
    BY <1>3, <1>4, <2>1, AtWork
<1>9. AtStep(w)'
  BY <1>1, <1>3, <1>8, AtWork DEF AtStep, LockInv
<1> QED
  BY <1>1, <1>3, <1>6, <1>7, <1>9, AtWork, OwnerKeeps

\* The cache file is written when the binary is whole.
LEMMA NameCacheKeeps ==
    ASSUME FileInv, LockInv, WorkInv, Separate, NEW w \in Workers, drv[w] # NoDriver, NameCache(w)
    PROVE  FileInv'
<1>1. /\ pc[w] = "nameCache" /\ drv[w] \notin Builtin /\ staged[drv[w]] = "whole"
      /\ UNCHANGED <<staged, tmp, bin, src, drv>>
  BY DEF NameCache, StageFails, Step, binary, others, FileInv, AtStep
<1>2. PICK b \in {"nameCheck", "errorReply"} : pc' = [pc EXCEPT ![w] = b]
  BY AtWork DEF NameCache, StageFails, Staged, Erred, Step, Goto
<1>3. cache' \in {cache, [cache EXCEPT ![drv[w]] = TRUE]}
  BY DEF NameCache
<1>4. FilesType'
  BY <1>1, <1>3 DEF FileInv, FilesType
<1>5. \A d \in Drivers \ {drv[w]} : cache'[d] = cache[d]
  BY <1>3 DEF FileInv, FilesType
<1>6. AtStep(w)'
  BY <1>1, <1>2, AtWork DEF AtStep, LockInv
<1> QED
  BY <1>1, <1>2, <1>4, <1>5, <1>6, AtWork, OwnerKeeps

\* Steps of the handler and of Install.
LEMMA NameCheckKeeps ==
    ASSUME FileInv, LockInv, WorkInv, Separate, NEW w \in Workers, drv[w] # NoDriver, NameCheck(w)
    PROVE  FileInv'
<1>1. pc[w] = "nameCheck" /\ UNCHANGED <<cache, staged, tmp, bin, src, drv>>
  BY DEF NameCheck, Step, disk, store, binary, others
<1>2. PICK b \in {"open", "errorReply"} : pc' = [pc EXCEPT ![w] = b]
  BY DEF NameCheck, Step, Goto
<1>3. FilesType'
  BY <1>1 DEF FileInv, FilesType
<1>4. AtStep(w)
  BY DEF FileInv
<1>5. AtStep(w)'
  BY <1>1, <1>2, <1>4, AtWork DEF AtStep, LockInv
<1> QED
  BY <1>1, <1>2, <1>3, <1>5, AtWork, OwnerKeeps

\* The "-tmp" file is opened when the staged binary is whole.
LEMMA OpenKeeps ==
    ASSUME FileInv, LockInv, WorkInv, Separate, NEW w \in Workers, drv[w] # NoDriver, Open(w)
    PROVE  FileInv'
<1>1. /\ pc[w] = "open" /\ UNCHANGED <<cache, staged, bin, drv>>
      /\ drv[w] \notin Builtin => staged[drv[w]] = "whole"
  BY DEF Open, store, others, FileInv, AtStep
<1>2. CASE UNCHANGED <<tmp, src>> /\ \E b \in {"genLock", "errorReply"} : Goto(w, b)
  <2>1. PICK b \in {"genLock", "errorReply"} : pc' = [pc EXCEPT ![w] = b] /\ pc'[w] = b
    BY <1>2, AtWork DEF Goto, LockInv
  <2>2. FilesType'
    BY <1>1, <1>2 DEF FileInv, FilesType
  <2>3. AtStep(w)'
    BY <2>1 DEF AtStep
  <2> QED
    BY <1>1, <1>2, <2>1, <2>2, <2>3, AtWork, OwnerKeeps
<1>3. CASE /\ drv[w] \notin Builtin /\ Goto(w, "copy")
           /\ tmp' = [tmp EXCEPT ![Name(w)] = w]
           /\ src' = [src EXCEPT ![w] = "whole"]
  <2>1. pc' = [pc EXCEPT ![w] = "copy"] /\ pc'[w] = "copy"
    BY <1>3, AtWork DEF Goto, LockInv
  <2>2. FilesType'
    BY <1>1, <1>3, AtWork DEF FileInv, FilesType, Files
  <2>3. /\ tmp'[Name(w)] = w /\ src'[w] = "whole"
        /\ \A n \in Names : n # Name(w) => tmp'[n] = tmp[n]
        /\ \A c \in Callers : c # w => src'[c] = src[c]
    BY <1>3, AtWork DEF FileInv, FilesType
  <2>4. AtStep(w)'
    BY <1>1, <1>3, <2>1, <2>3 DEF AtStep, Name
  <2> QED
    BY <1>1, <2>1, <2>2, <2>3, <2>4, AtWork, OwnerKeeps
<1> QED
  BY <1>1, <1>2, <1>3, AtWork DEF Open, Installed, Erred, IsBuiltin

\* What is copied is whole, or never renamed.
LEMMA CopyKeeps ==
    ASSUME FileInv, LockInv, WorkInv, Separate, NEW w \in Workers, drv[w] # NoDriver, Copy(w)
    PROVE  FileInv'
<1>1. /\ pc[w] = "copy" /\ drv[w] \notin Builtin /\ src[w] = "whole" /\ tmp[Name(w)] = w
      /\ UNCHANGED <<cache, staged, drv>> /\ src' = [src EXCEPT ![w] = "torn"]
  BY DEF Copy, Step, store, others, FileInv, AtStep
<1>2. PICK b \in {"rename", "errorReply"}, f \in {"whole", "torn"} :
          /\ pc' = [pc EXCEPT ![w] = b]
          /\ b = "rename" => f = "whole"
          /\ tmp' = Closed(tmp, w, f) /\ bin' = Closed(bin, w, f)
  BY <1>1, AtWork DEF Copy, Erred, Step, Goto
<1>3. \A n \in Names : tmp[n] = w => n = Name(w)
  BY AtWork DEF FileInv, Owned
<1>4. tmp' = [n \in Names |-> IF tmp[n] = w THEN f ELSE tmp[n]]
  BY <1>2 DEF Closed, FileInv, FilesType
<1>5. bin' = bin
  <2>1. \A n \in Names : bin[n] # w
    BY AtWork DEF FileInv, FilesType, Shut
  <2> QED
    BY <1>2, <2>1 DEF Closed, FileInv, FilesType
<1>6. tmp' \in [Names -> Files]
  BY <1>4 DEF FileInv, FilesType, Files
<1>7. src' \in [Callers -> {"whole", "torn"}] /\ \A c \in Callers : c # w => src'[c] = src[c]
  BY <1>1 DEF FileInv, FilesType
<1>8. FilesType'
  BY <1>1, <1>5, <1>6, <1>7 DEF FileInv, FilesType
<1>9. /\ \A n \in Names \ {Name(w)} : tmp'[n] = tmp[n]
      /\ tmp'[Name(w)] = f /\ f \in Shut
  BY <1>1, <1>3, <1>4, AtWork DEF Shut
<1>10. AtStep(w)'
  BY <1>1, <1>2, <1>9, AtWork DEF AtStep, Name, LockInv
<1>11. cache'[drv[w]] => staged'[drv[w]] = "whole"
  BY <1>1, AtWork
<1>12. staged'[drv[w]] \in Shut
  BY <1>1, AtWork
<1>13. pc' = [pc EXCEPT ![w] = b] /\ b # "idle" /\ tmp'[Name(w)] \in Shut
  BY <1>2, <1>9
<1>14. \A d \in Drivers \ {drv[w]} : staged'[d] = staged[d] /\ cache'[d] = cache[d]
  BY <1>1
<1>15. drv' = drv
  BY <1>1
<1> QED
  BY <1>7, <1>8, <1>9, <1>10, <1>11, <1>12, <1>13, <1>14, <1>15, OwnerKeeps

\* What is renamed is whole.
LEMMA RenameKeeps ==
    ASSUME FileInv, LockInv, WorkInv, Separate, NEW w \in Workers, drv[w] # NoDriver, Rename(w)
    PROVE  FileInv'
<1>1. pc[w] = "rename" /\ tmp[Name(w)] = "whole" /\ UNCHANGED <<cache, staged, src, drv>>
  BY DEF Rename, Step, store, others, FileInv, AtStep
<1>2. \/ /\ pc' = [pc EXCEPT ![w] = "genLock"]
         /\ bin' = [bin EXCEPT ![Name(w)] = "whole"] /\ tmp' = [tmp EXCEPT ![Name(w)] = "none"]
      \/ pc' = [pc EXCEPT ![w] = "errorReply"] /\ UNCHANGED <<bin, tmp>>
  BY <1>1, AtWork DEF Rename, Installed, Erred, Step, Goto, binary
<1>3. FilesType'
  BY <1>1, <1>2 DEF FileInv, FilesType, Files
<1>4. AtStep(w)'
  BY <1>2, AtWork DEF AtStep, LockInv
<1>5. tmp'[Name(w)] \in Shut /\ \A n \in Names \ {Name(w)} : tmp'[n] = tmp[n]
  BY <1>1, <1>2, AtWork DEF FileInv, FilesType, Shut
<1> QED
  BY <1>1, <1>2, <1>3, <1>4, <1>5, AtWork, OwnerKeeps

\* Steps of Remove.
LEMMA RemoveKeepsFiles ==
    ASSUME FileInv, LockInv, WorkInv, Separate, NEW w \in Workers, drv[w] # NoDriver,
           (RemoveBinary(w) /\ cache[drv[w]]) \/ RemoveStaged(w) \/ RemoveCache(w)
    PROVE  FileInv'
<1>1. CASE RemoveBinary(w) /\ cache[drv[w]]
  <2>1. /\ pc[w] = "rmBin" /\ pc' = [pc EXCEPT ![w] = "rmStaged"]
        /\ bin' = [bin EXCEPT ![Name(w)] = "none"] /\ UNCHANGED <<cache, staged, tmp, src, drv>>
    BY <1>1 DEF RemoveBinary, Step, Goto, store, others
  <2>2. FilesType'
    BY <2>1 DEF FileInv, FilesType
  <2>3. AtStep(w)'
    BY <2>1, AtWork DEF AtStep, LockInv
  <2> QED
    BY <2>1, <2>2, <2>3, AtWork, OwnerKeeps
<1>2. CASE RemoveStaged(w)
  <2>1. /\ pc[w] = "rmStaged" /\ pc' = [pc EXCEPT ![w] = "rmCache"]
        /\ staged' = [staged EXCEPT ![drv[w]] = "none"] /\ UNCHANGED <<cache, tmp, bin, src, drv>>
    BY <1>2 DEF RemoveStaged, Step, Goto, binary, others
  <2>2. FilesType'
    BY <2>1 DEF FileInv, FilesType, Files
  <2>3. AtStep(w)'
    BY <2>1, AtWork DEF AtStep, LockInv
  <2>4. staged'[drv[w]] \in Shut /\ \A d \in Drivers \ {drv[w]} : staged'[d] = staged[d]
    BY <2>1, AtWork DEF FileInv, FilesType, Shut
  <2> QED
    BY <2>1, <2>2, <2>3, <2>4, AtWork, OwnerKeeps
<1>3. CASE RemoveCache(w)
  <2>1. /\ pc[w] = "rmCache" /\ pc' = [pc EXCEPT ![w] = "uploadLock"]
        /\ cache' = [cache EXCEPT ![drv[w]] = FALSE] /\ UNCHANGED <<staged, tmp, bin, src, drv>>
    BY <1>3 DEF RemoveCache, Step, Goto, binary, others
  <2>2. FilesType'
    BY <2>1 DEF FileInv, FilesType
  <2>3. AtStep(w)'
    BY <2>1, AtWork DEF AtStep, LockInv
  <2>4. ~cache'[drv[w]]
    BY <2>1, AtWork, Zenon DEF FileInv, FilesType
  <2>5. \A d \in Drivers \ {drv[w]} : cache'[d] = cache[d]
    BY <2>1 DEF FileInv, FilesType
  <2> QED
    BY <2>1, <2>2, <2>3, <2>4, <2>5, AtWork, OwnerKeeps
<1> QED
  BY <1>1, <1>2, <1>3

-----------------------------------------------------------------------------
\* A worker gets a driver that no other worker has.
LEMMA TakesDriver ==
    ASSUME FileInv, LockInv, WorkInv, NEW w \in Workers, NEW d \in Drivers, HandleWork(w, d)
    PROVE  FileInv'
<1>1. w \in Callers /\ w # Startup /\ Workers \subseteq Callers /\ Startup \in Callers
  BY DriverAssumption DEF Callers
<1>2. pc[w] = "idle" /\ \A v \in Workers : drv[v] # d
  BY DEF HandleWork, Step, Waiting
<1>3. /\ pc'[w] = "getDriver" /\ \A c \in Callers : c # w => pc'[c] = pc[c]
      /\ drv'[w] = d /\ \A c \in Callers : c # w => drv'[c] = drv[c]
  BY <1>1 DEF HandleWork, Step, Goto, LockInv, WorkInv
<1>4. UNCHANGED <<cache, staged, tmp, bin, src>>
  BY DEF HandleWork, disk, store, binary
<1>5. Alone'
  BY <1>1, <1>2, <1>3, DriverAssumption DEF FileInv, Alone
<1>6. FilesType'
  BY <1>4 DEF FileInv, FilesType
<1>7. Owned'
  BY <1>1, <1>2, <1>3, <1>4 DEF FileInv, Owned, Name
<1>8. Cached'
  BY <1>1, <1>2, <1>3, <1>4 DEF FileInv, Cached
<1>9. ASSUME NEW v \in Workers
      PROVE  AtStep(v)'
  <2>1. AtStep(v)
    BY DEF FileInv
  <2> QED
    BY <1>1, <1>2, <1>3, <1>4, <2>1 DEF AtStep, Name
<1> QED
  BY <1>5, <1>6, <1>7, <1>8, <1>9 DEF FileInv

\* Every step of every handler.
LEMMA HandlersKeepFiles ==
    ASSUME FileInv, LockInv, WorkInv, Separate, NEW w \in Workers, Handle(w)
    PROVE  FileInv'
<1>1. drv[w] # NoDriver /\ job[w] \in Events
  BY DEF Handle, WorkInv
<1>2. CASE GenerateAndUploadSchema(w) \/ UploadMachineSchemas(w)
  BY <1>2, SchemasBeside, BesideKeeps
<1>3. CASE \/ GetVersion(w) \/ RemoveSchemas(w) \/ GetToRemove(w) \/ ClearError(w) \/ GetError(w)
           \/ RemoveBinary(w) /\ ~cache[drv[w]]
           \/ GetDriver(w) \/ PublishReply(w) \/ ErrorReply(w)
  BY <1>1, <1>3, CallsBeside, BesideKeeps, EndsKeeps
<1>4. CASE IsInstalled(w) \/ Download(w) \/ CopyStaged(w) \/ NameCache(w)
  BY <1>1, <1>4, IsInstalledKeeps, DownloadKeeps, CopyStagedKeeps, NameCacheKeeps
<1>5. CASE NameCheck(w) \/ Open(w) \/ Copy(w) \/ Rename(w)
  BY <1>1, <1>5, NameCheckKeeps, OpenKeeps, CopyKeeps, RenameKeeps
<1>6. CASE (RemoveBinary(w) /\ cache[drv[w]]) \/ RemoveStaged(w) \/ RemoveCache(w)
  BY <1>1, <1>6, RemoveKeepsFiles
<1> QED
  BY <1>2, <1>3, <1>4, <1>5, <1>6 DEF Handle, Stage, Install, Remove

\* The startup, which is over, takes no step, and Cattle touches no file.
LEMMA FileStep ==
    ASSUME FileInv, LockInv, WorkInv, Separate, [Next]_vars
    PROVE  FileInv'
<1>1. CASE Around \/ UNCHANGED vars
  <2>1. UNCHANGED <<pc, cache, staged, tmp, bin, src, drv>>
    BY <1>1 DEF Around, CattleSends, User, UserAsks, Connect, vars, local, disk, store, binary
  <2> QED
    BY <2>1 DEF FileInv, Alone, FilesType, Owned, Cached, AtStep, Name
<1>2. CASE \E w \in Workers, d \in Drivers : HandleWork(w, d)
  BY <1>2, TakesDriver
<1>3. CASE \E w \in Workers : Handle(w)
  BY <1>3, HandlersKeepFiles
<1>4. ~(Lists \/ Works \/ Dies)
  <2>1. pc[Startup] = "done"
    BY DEF FileInv, Alone
  <2>2. ~Lists
    BY <2>1, ListsOutside
  <2>3. ~Works
    BY <2>1 DEF Works, Stage, Install, GetError, IsInstalled, Download, CopyStaged, NameCache,
       StageFails, Open, Copy, Rename, Step
  <2>4. ~Dies
    BY <2>1 DEF Dies, TooLate, Fatal
  <2> QED
    BY <2>2, <2>3, <2>4
<1>5. ~Crash
  BY DEF Crash, Separate
<1> QED
  BY <1>1, <1>2, <1>3, <1>4, <1>5 DEF Next, StartupStep, Around, Lists, Works, Dies

\* The first state: nothing is open.
LEMMA FilesAtStart ==
    ASSUME InitReady
    PROVE  FileInv
<1>1. PICK A \in SUBSET Drivers : HasFiles(A \ Builtin) /\ \E I : Before(A, I)
  BY DEF InitReady
<1>2. pc = [c \in Callers |-> IF c = Startup THEN "done" ELSE "idle"]
  BY DEF InitReady
<1>3. \A w \in Workers : pc[w] = "idle"
  BY <1>2, DriverAssumption DEF Callers
<1>4. /\ drv = [c \in Callers |-> NoDriver] /\ src = [c \in Callers |-> "torn"]
      /\ tmp = [n \in Names |-> "none"]
  BY <1>1 DEF Before
<1>5. /\ cache = [d \in Drivers |-> d \in A \ Builtin]
      /\ staged = [d \in Drivers |-> IF d \in A \ Builtin THEN "whole" ELSE "none"]
      /\ bin = [n \in Names |-> IF n \in NamesIn(A \ Builtin) THEN "whole" ELSE "none"]
  BY <1>1 DEF HasFiles
<1>6. Alone
  BY <1>2, <1>3, <1>4 DEF Alone, Callers
<1>7. FilesType
  <2>1. cache \in [Drivers -> BOOLEAN]
    BY <1>5
  <2>2. staged \in [Drivers -> Files] /\ bin \in [Names -> {"none", "whole"}]
    BY <1>5 DEF Files
  <2>3. tmp \in [Names -> Files] /\ src \in [Callers -> {"whole", "torn"}]
    BY <1>4 DEF Files
  <2> QED
    BY <2>1, <2>2, <2>3 DEF FilesType
<1>8. Owned
  <2>1. \A d \in Drivers : staged[d] \in {"none", "whole"}
    BY <1>5
  <2>2. \A n \in Names : tmp[n] = "none"
    BY <1>4
  <2> QED
    BY <2>1, <2>2, DriverAssumption DEF Owned
<1>9. Cached
  <2>1. ASSUME NEW d \in Drivers, cache[d]
        PROVE  staged[d] = "whole"
    <3>1. d \in A \ Builtin
      BY <1>5, <2>1, Zenon
    <3> QED
      BY <1>5, <3>1
  <2> QED
    BY <2>1 DEF Cached
<1>10. \A w \in Workers : AtStep(w)
  BY <1>3 DEF AtStep
<1> QED
  BY <1>6, <1>7, <1>8, <1>9, <1>10 DEF FileInv

\* InstalledIsWhole, for any drivers with names of their own, any workers and
\* requests, and whatever calls fail, as long as the process lives on: no
\* handler leaves an incomplete plugin where it is run from.
THEOREM WholeTheorem ==
    ASSUME Separate
    PROVE  ReadySpec => []InstalledIsWhole
<1>1. InitReady => FileInv /\ LockInv /\ WorkInv
  BY FilesAtStart, LockAtStart
<1>2. FileInv /\ LockInv /\ WorkInv /\ [Next]_vars => (FileInv /\ LockInv /\ WorkInv)'
  BY FileStep, LockStep
<1>3. FileInv => InstalledIsWhole
  BY DEF FileInv, FilesType, InstalledIsWhole
<1> QED
  BY <1>1, <1>2, <1>3, PTL DEF ReadySpec

-----------------------------------------------------------------------------
(***************************************************************************)
(* The order of events.                                                    *)
(***************************************************************************)
\* The event that has led to a state, or is to lead out of it.
Due == [activating |-> "activate", reactivating |-> "activate", active |-> "activate",
        deactivating |-> "deactivate", inactive |-> "deactivate",
        removing |-> "remove", removed |-> "remove",
        erroring |-> "error", error |-> "error", absent |-> "none"]

\* Once the event that is due has been sent, it is the last of its driver; in a
\* state that was settled there are no others.
OnlyDue(d) == \A i \in 1..Len(pending[d]) : pending[d][i] = Due[dstate[d]]

InLine(d) ==
    /\ \A w \in Workers : drv[w] = d /\ job[w] = Due[dstate[d]] => OnlyDue(d)
    /\ \A i, j \in 1..Len(pending[d]) :
           i < j /\ pending[d][i] = Due[dstate[d]] => pending[d][j] = Due[dstate[d]]
    /\ dstate[d] \notin InTransition =>
           OnlyDue(d) /\ \A w \in Workers : drv[w] = d => job[w] = Due[dstate[d]]

\* What a handler of an event goes through.
Uploading == {"removeHost"} \cup Writing
Course == [activate |-> {"getDriver", "getError", "isInstalled", "download", "copyStaged",
                         "nameCache", "nameCheck", "open", "copy", "rename", "genLock", "version",
                         "uploadLock", "list", "publish", "errorReply"}
                        \cup Generating \cup Uploading,
           deactivate |-> {"getDriver", "rmSchemas", "getToRemove", "rmBin", "rmStaged", "rmCache",
                           "uploadLock", "list", "publish", "errorReply"} \cup Uploading,
           remove |-> {"getDriver", "rmSchemas", "getToRemove", "rmBin", "rmStaged", "rmCache",
                       "uploadLock", "list", "publish", "errorReply"} \cup Uploading,
           error |-> {"getDriver", "clearError", "publish", "errorReply"}]

OnCourse == \A w \in Workers : drv[w] # NoDriver => pc[w] \in Course[job[w]]

LineInv == OnCourse /\ \A d \in Drivers : InLine(d)

\* The error file of a driver is gone when "error" is answered, and later.
Cleared ==
    /\ FreshAttempt
    /\ \A w \in Workers : drv[w] # NoDriver /\ job[w] = "error" /\ pc[w] = "publish" => ~errFile[drv[w]]

-----------------------------------------------------------------------------
\* What FreshTheorem supposes, in which names do not matter: the process lives on.
Living == Faults \cap {"crash", "replace"} = {}

\* The first of a sequence, and the others.
LEMMA TailOf ==
    ASSUME NEW S, NEW q \in Seq(S), q # <<>>
    PROVE  /\ Len(q) \in Nat \ {0} /\ Head(q) = q[1] /\ Len(Tail(q)) = Len(q) - 1
           /\ \A i \in 1..Len(Tail(q)) : Tail(q)[i] = q[i + 1]
<1>1. Len(q) \in Nat \ {0} /\ Head(q) = q[1] /\ Len(Tail(q)) = Len(q) - 1
  OBVIOUS
<1>2. ASSUME NEW i \in 1..Len(Tail(q)) PROVE Tail(q)[i] = q[i + 1]
  BY <1>1, <1>2
<1> QED
  BY <1>1, <1>2

\* Every event leads to the state that it is due in.
LEMMA Dues ==
    /\ \A s \in InTransition : Due[s] = EventOf[s] /\ Due[s] \in Events
    /\ \A e \in Events : Due[Settled[e]] = e /\ Settled[e] \notin InTransition
    /\ \A s \in DriverStates : Due[s] \in Events \cup {"none"}
BY DEF Due, InTransition, EventOf, Events, Settled, DriverStates

\* Every step of a handler goes on, within its course, or ends it.
GoesOn(w) == SameWork /\ \E b \in Course[job[w]] \ {"idle"} : pc' = [pc EXCEPT ![w] = b]

\* A handler keeps to its course.
LEMMA CourseStep ==
    ASSUME WorkInv, NEW w \in Workers, pc[w] \in Course[job[w]], Handle(w)
    PROVE  GoesOn(w) \/ Finish(w)
<1>1. job[w] \in {"activate", "deactivate", "remove", "error"}
  BY DEF Handle, WorkInv, Events, Settled
<1>2. w # Startup
  BY DriverAssumption
<1> USE DEF GoesOn, SameWork, Step, Goto, Course, Generating, Uploading, Writing
<1>3. CASE GetDriver(w)
  <2>1. First[job[w]] \in Course[job[w]] \ {"idle"}
    BY <1>1 DEF First
  <2> HIDE DEF Course
  <2>2. "errorReply" \in Course[job[w]] \ {"idle"}
    BY <1>1 DEF Course
  <2> QED
    BY <1>3, <2>1, <2>2 DEF GetDriver
<1>4. ASSUME NEW b, Step(w, pc[w], b), UNCHANGED <<job, drv>>,
             b \in Course[job[w]], b # "idle"
      PROVE  GoesOn(w)
  BY <1>4
<1>5. CASE Stage(w)
  <2>1. job[w] = "activate"
    BY <1>1, <1>5 DEF Stage, GetError, IsInstalled, Download, CopyStaged, NameCache, StageFails
  <2> QED
    BY <1>2, <1>5, <2>1 DEF Stage, GetError, IsInstalled, Download, CopyStaged, NameCache,
       StageFails, Staged, Erred, others
<1>6. CASE NameCheck(w) \/ Install(w)
  <2>1. job[w] = "activate"
    BY <1>1, <1>6 DEF NameCheck, Install, Open, Copy, Rename
  <2> QED
    BY <1>2, <1>6, <2>1 DEF NameCheck, Install, Open, Copy, Rename, Installed, Erred, others
<1>7. CASE GenerateAndUploadSchema(w) \/ GetVersion(w)
  <2>1. job[w] = "activate"
    BY <1>1, <1>7 DEF GenerateAndUploadSchema, GenLock, GetCreateFlags, RemoveConfig, CreateConfig,
       SchemaFails, GetVersion
  <2> QED
    BY <1>7, <2>1 DEF GenerateAndUploadSchema, GenLock, GetCreateFlags, RemoveConfig, CreateConfig,
       SchemaFails, GetVersion, rest
<1>8. CASE RemoveSchemas(w) \/ GetToRemove(w) \/ Remove(w)
  <2>1. job[w] \in {"deactivate", "remove"}
    BY <1>1, <1>8 DEF RemoveSchemas, GetToRemove, Remove, RemoveBinary, RemoveStaged, RemoveCache
  <2> QED
    BY <1>8, <2>1 DEF RemoveSchemas, GetToRemove, Remove, RemoveBinary, RemoveStaged, RemoveCache,
       rest, others
<1>9. CASE ClearError(w)
  <2>1. job[w] = "error"
    BY <1>1, <1>9 DEF ClearError
  <2>2. "publish" \in Course[job[w]] \ {"idle"}
    BY <2>1
  <2> HIDE DEF Course
  <2> QED
    BY <1>9, <2>2 DEF ClearError, others
<1>10. CASE UploadLock(w) \/ ListDrivers(w) \/ RemoveHost(w)
  <2>1. job[w] \in {"activate", "deactivate", "remove"}
    BY <1>1, <1>10 DEF UploadLock, ListDrivers, RemoveHost, SchemaFails
  <2> QED
    BY <1>10, <2>1, UploadsAre DEF UploadLock, ListDrivers, RemoveHost, SchemaFails, rest
<1>11. ASSUME NEW i \in 1..Len(Uploads), UploadHost(w, i)
       PROVE  GoesOn(w)
  <2>1. Uploads[i] \in Writing /\ AfterUpload(i) \in Writing \cup {"publish"} /\ pc[w] = Uploads[i]
    BY <1>11, UploadsAre DEF AfterUpload, UploadHost, SchemaFails
  <2>2. job[w] \in {"activate", "deactivate", "remove"}
    BY <1>1, <2>1
  <2>3. {"errorReply", "publish"} \cup Writing \subseteq Course[job[w]] \ {"idle"}
    BY <2>2
  <2> HIDE DEF Course, Writing
  <2> QED
    BY <1>11, <2>1, <2>3 DEF UploadHost, SchemaFails, rest
<1>12. CASE PublishReply(w) \/ ErrorReply(w)
  <2>1. "errorReply" \in Course[job[w]] \ {"idle"}
    BY <1>1
  <2> HIDE DEF Course
  <2> QED
    BY <1>12, <2>1 DEF PublishReply, ErrorReply
<1> QED
  BY <1>3, <1>5, <1>6, <1>7, <1>8, <1>9, <1>10, <1>11, <1>12 DEF Handle, UploadMachineSchemas

\* Cattle's records change when a reply comes, and only then.
Replies(w) == \/ pc[w] = "publish" /\ Answered(drv[w], job[w])
              \/ pc[w] = "errorReply" /\ Refused(drv[w], job[w])

\* Only a reply writes the records, and no step of a handler sends or asks.
LEMMA RecordStep ==
    ASSUME NEW w \in Workers, Handle(w)
    PROVE  UNCHANGED <<pending, requests>> /\ (UNCHANGED record \/ Replies(w))
<1> USE DEF Replies
<1>1. CASE Stage(w) \/ Install(w)
  BY <1>1 DEF Stage, GetError, IsInstalled, Download, CopyStaged, NameCache, Install, Open, Copy,
     Rename, others
<1>2. CASE Remove(w) \/ ClearError(w) \/ NameCheck(w) \/ GetToRemove(w) \/ GetDriver(w)
  BY <1>2 DEF Remove, RemoveBinary, RemoveStaged, RemoveCache, ClearError, NameCheck, GetToRemove,
     GetDriver, others
<1>3. CASE GenerateAndUploadSchema(w) \/ GetVersion(w) \/ RemoveSchemas(w) \/ UploadMachineSchemas(w)
  BY <1>3 DEF GenerateAndUploadSchema, GenLock, GetCreateFlags, RemoveConfig, CreateConfig,
     GetVersion, RemoveSchemas, UploadMachineSchemas, UploadLock, ListDrivers, RemoveHost,
     UploadHost, rest
<1>4. CASE PublishReply(w)
  BY <1>4 DEF PublishReply
<1>5. CASE ErrorReply(w)
  BY <1>5 DEF ErrorReply
<1> QED
  BY <1>1, <1>2, <1>3, <1>4, <1>5 DEF Handle

\* The startup takes no step once it is over.
LEMMA StartupIsOver ==
    ASSUME LockInv, WorkInv, pc[Startup] = "done"
    PROVE  ~StartupStep
<1>1. ~Lists
  BY ListsOutside
<1>2. ~Works
  BY DEF Works, Stage, Install, GetError, IsInstalled, Download, CopyStaged, NameCache,
     StageFails, Open, Copy, Rename, Step
<1>3. ~Dies
  BY DEF Dies, TooLate, Fatal
<1> QED
  BY <1>1, <1>2, <1>3 DEF StartupStep, Lists, Works, Dies

\* A worker has a driver to itself, on the course of its event.
LEMMA AloneStep ==
    ASSUME Living, Alone, OnCourse, LockInv, WorkInv, [Next]_vars
    PROVE  Alone' /\ OnCourse'
<1>0. /\ Workers \subseteq Callers /\ Startup \in Callers /\ Startup \notin Workers
      /\ NoDriver \notin Drivers
  BY DriverAssumption DEF Callers
<1>1. CASE Around \/ UNCHANGED vars
  <2>1. UNCHANGED <<pc, drv, job>>
    BY <1>1 DEF Around, CattleSends, User, UserAsks, Connect, vars, local
  <2> QED
    BY <2>1 DEF Alone, OnCourse
<1>2. ASSUME NEW w \in Workers, NEW d \in Drivers, HandleWork(w, d)
      PROVE  Alone' /\ OnCourse'
  <2>1. /\ pc'[w] = "getDriver" /\ \A c \in Callers : c # w => pc'[c] = pc[c]
        /\ drv'[w] = d /\ \A c \in Callers : c # w => drv'[c] = drv[c]
        /\ job'[w] = Head(pending[d]) /\ \A c \in Callers : c # w => job'[c] = job[c]
    BY <1>0, <1>2 DEF HandleWork, Step, Goto, LockInv, WorkInv
  <2>2. \A v \in Workers : drv[v] # d
    BY <1>2 DEF HandleWork, Waiting
  <2>3. Head(pending[d]) \in Events
    BY <1>2 DEF HandleWork, WorkInv
  <2>4. \A e \in Events : "getDriver" \in Course[e]
    BY DEF Events, Settled, Course
  <2>5. Alone'
    BY <1>0, <2>1, <2>2 DEF Alone
  <2>6. OnCourse'
    BY <1>0, <2>1, <2>3, <2>4 DEF OnCourse
  <2> QED
    BY <2>5, <2>6
<1>3. ASSUME NEW w \in Workers, Handle(w)
      PROVE  Alone' /\ OnCourse'
  <2>1. drv[w] # NoDriver /\ pc[w] \in Course[job[w]]
    BY <1>3 DEF Handle, OnCourse
  <2>2. CASE GoesOn(w)
    <3>1. PICK b \in Course[job[w]] \ {"idle"} : pc' = [pc EXCEPT ![w] = b]
      BY <2>2 DEF GoesOn
    <3>2. pc'[w] = b /\ \A c \in Callers : c # w => pc'[c] = pc[c]
      BY <1>0, <3>1 DEF LockInv
    <3>3. UNCHANGED <<drv, job>>
      BY <2>2 DEF GoesOn, SameWork
    <3>4. Alone'
      BY <1>0, <2>1, <3>1, <3>2, <3>3 DEF Alone
    <3>5. OnCourse'
      BY <1>0, <3>1, <3>2, <3>3 DEF OnCourse
    <3> QED
      BY <3>4, <3>5
  <2>3. CASE Finish(w)
    <3>1. /\ pc'[w] = "idle" /\ \A c \in Callers : c # w => pc'[c] = pc[c]
          /\ drv'[w] = NoDriver /\ \A c \in Callers : c # w => drv'[c] = drv[c]
          /\ \A c \in Callers : c # w => job'[c] = job[c]
      BY <1>0, <2>3 DEF Finish, Goto, LockInv, WorkInv
    <3>2. Alone'
      BY <1>0, <3>1 DEF Alone
    <3>3. OnCourse'
      BY <1>0, <3>1 DEF OnCourse
    <3> QED
      BY <3>2, <3>3
  <2> QED
    BY <1>3, <2>1, <2>2, <2>3, CourseStep
<1>4. ~StartupStep /\ ~Crash
  BY StartupIsOver DEF Alone, Crash, Living
<1> QED
  BY <1>1, <1>2, <1>3, <1>4 DEF Next, Around

\* No two workers have one driver.
OneEach == \A v, w \in Workers : drv[v] = drv[w] /\ drv[v] # NoDriver => v = w

\* A reply settles what was due, or asks for "error" when that was refused.
LEMMA ReplyInLine ==
    ASSUME OneEach, WorkInv, RecordType, NEW w \in Workers, NEW d \in Drivers, drv[w] = d, InLine(d),
           Replies(w), UNCHANGED pending, GoesOn(w) \/ Finish(w)
    PROVE  InLine(d)'
<1>1. d # NoDriver /\ job[w] \in Events /\ w \in Callers
  BY DriverAssumption DEF WorkInv, Callers
<1>2. \A v \in Workers : drv'[v] = d => v = w /\ job'[v] = job[w]
  BY <1>1, DriverAssumption DEF GoesOn, SameWork, Finish, WorkInv, OneEach, Callers
<1>3. CASE dstate'[d] = dstate[d]
  <2>1. \A v \in Workers : drv'[v] = d => drv[v] = d /\ job'[v] = job[v]
    BY <1>2
  <2> QED
    BY <1>3, <2>1 DEF InLine, OnlyDue
<1>4. ASSUME Awaited(d, job[w])
      PROVE  /\ Due[dstate[d]] = job[w]
             /\ \A i \in 1..Len(pending[d]) : pending[d][i] = job[w]
  <2>1. Due[dstate[d]] = job[w]
    BY <1>4, Dues DEF Awaited
  <2> QED
    BY <2>1 DEF InLine, OnlyDue
<1>5. CASE Awaited(d, job[w]) /\ dstate'[d] = Settled[job[w]]
  <2>1. Due[dstate'[d]] = job[w]
    BY <1>1, <1>5, Dues
  <2> QED
    BY <1>2, <1>4, <1>5, <2>1 DEF InLine, OnlyDue
<1>6. CASE Awaited(d, job[w]) /\ job[w] = "activate" /\ dstate'[d] = "erroring"
  <2>1. Due["erroring"] = "error" /\ "erroring" \in InTransition
    BY DEF Due, InTransition, EventOf
  <2> QED
    BY <1>2, <1>4, <1>6, <2>1 DEF InLine, OnlyDue
<1>7. \/ dstate' = dstate
      \/ Awaited(d, job[w]) /\ dstate' = [dstate EXCEPT ![d] = Settled[job[w]]]
      \/ Awaited(d, job[w]) /\ job[w] = "activate" /\ dstate' = [dstate EXCEPT ![d] = "erroring"]
  BY DEF Replies, Answered, Refused, record
<1> QED
  BY <1>1, <1>3, <1>5, <1>6, <1>7 DEF RecordType

\* A driver that is settled is asked for another state.
LEMMA AskedInLine ==
    ASSUME NEW d \in Drivers, InLine(d), UNCHANGED <<pending, job>>,
           \A w \in Workers : drv'[w] = drv[w],
           dstate[d] \notin InTransition, dstate'[d] \in InTransition
    PROVE  InLine(d)'
<1>1. /\ \A i, j \in 1..Len(pending[d]) : pending[d][i] = pending[d][j]
      /\ \A w \in Workers : drv[w] = d => \A i \in 1..Len(pending[d]) : pending[d][i] = job[w]
  BY DEF InLine, OnlyDue
<1> QED
  BY <1>1 DEF InLine, OnlyDue

\* The order of the events of a driver is kept by Cattle, its users and the
\* handlers.
LEMMA EventInLine ==
    ASSUME OneEach, OnCourse, LockInv, WorkInv, RecordType, NEW d \in Drivers, InLine(d),
           (\/ Around \/ UNCHANGED vars
            \/ \E w \in Workers, e \in Drivers : HandleWork(w, e)
            \/ \E w \in Workers : Handle(w))
    PROVE  InLine(d)'
<1>0. Workers \subseteq Callers /\ NoDriver \notin Drivers
  BY DriverAssumption DEF Callers
<1>1. CASE UNCHANGED <<dstate, pending, drv, job>>
  BY <1>1 DEF InLine, OnlyDue
<1>2. ASSUME NEW e \in Drivers, CattleSends(e)
      PROVE  InLine(d)'
  <2>1. /\ pending' = [pending EXCEPT ![e] = Append(@, EventOf[dstate[e]])]
        /\ dstate[e] \in InTransition /\ UNCHANGED <<dstate, drv, job>>
    BY <1>2 DEF CattleSends, record, local
  <2>2. CASE e # d
    BY <2>1, <2>2 DEF InLine, OnlyDue, WorkInv
  <2>3. CASE e = d
    <3>1. pending'[d] = Append(pending[d], Due[dstate[d]]) /\ pending[d] \in Seq(Events)
      BY <2>1, <2>3, Dues DEF WorkInv
    <3>2. /\ Len(pending'[d]) = Len(pending[d]) + 1
          /\ \A i \in 1..Len(pending[d]) : pending'[d][i] = pending[d][i]
          /\ pending'[d][Len(pending[d]) + 1] = Due[dstate[d]] /\ Len(pending[d]) \in Nat
      BY <3>1
    <3> QED
      BY <2>1, <2>3, <3>2 DEF InLine, OnlyDue
  <2> QED
    BY <2>2, <2>3
<1>3. ASSUME NEW e \in Drivers, User(e)
      PROVE  InLine(d)'
  <2>1. UNCHANGED <<pending, drv, job>>
    BY <1>3 DEF User, UserAsks, local
  <2>2. PICK t \in InTransition : /\ dstate' = [dstate EXCEPT ![e] = t]
                                  /\ dstate[e] \notin InTransition
    BY <1>3 DEF User, UserAsks, InTransition, EventOf
  <2>3. CASE e # d
    BY <2>1, <2>2, <2>3 DEF InLine, OnlyDue
  <2>4. CASE e = d
    BY <2>1, <2>2, <2>4, AskedInLine DEF RecordType
  <2> QED
    BY <2>3, <2>4
<1>4. ASSUME NEW w \in Workers, NEW e \in Drivers, HandleWork(w, e)
      PROVE  InLine(d)'
  <2>1. /\ drv'[w] = e /\ \A c \in Workers : c # w => drv'[c] = drv[c] /\ job'[c] = job[c]
        /\ job'[w] = Head(pending[e]) /\ pending' = [pending EXCEPT ![e] = Tail(@)]
        /\ dstate' = dstate /\ pending[e] # <<>> /\ pending[e] \in Seq(Events)
    BY <1>0, <1>4 DEF HandleWork, WorkInv, record
  <2>2. \A v \in Workers : drv[v] # e
    BY <1>4 DEF HandleWork, Waiting
  <2>3. CASE e # d
    <3>1. pending'[d] = pending[d] /\ dstate'[d] = dstate[d]
      BY <2>1, <2>3 DEF WorkInv
    <3>2. \A v \in Workers : drv'[v] = d => drv[v] = d /\ job'[v] = job[v]
      BY <2>1, <2>3
    <3> QED
      BY <3>1, <3>2 DEF InLine, OnlyDue
  <2>4. CASE e = d
    <3>0. pending[d] \in Seq(Events) /\ pending[d] # <<>> /\ job'[w] = Head(pending[d])
      BY <2>1, <2>4
    <3>1. pending'[d] = Tail(pending[d]) /\ Len(pending[d]) \in Nat \ {0}
      BY <2>1, <2>4 DEF WorkInv
    <3>2. /\ Len(pending'[d]) = Len(pending[d]) - 1
          /\ \A i \in 1..Len(pending'[d]) : pending'[d][i] = pending[d][i + 1]
          /\ job'[w] = pending[d][1]
      BY <3>0, <3>1, TailOf
    <3>3. /\ 1 \in 1..Len(pending[d])
          /\ \A i \in 1..Len(pending'[d]) : i + 1 \in 1..Len(pending[d]) /\ 1 < i + 1
      BY <3>1, <3>2
    <3>4. \A v \in Workers : drv'[v] = d => v = w
      BY <2>1, <2>2, <2>4
    <3>5. pending[d][1] = Due[dstate[d]] => \A i \in 1..Len(pending'[d]) : pending'[d][i] = Due[dstate[d]]
      BY <3>2, <3>3 DEF InLine, OnlyDue
    <3>6. \A i, j \in 1..Len(pending'[d]) :
              i < j /\ pending'[d][i] = Due[dstate[d]] => pending'[d][j] = Due[dstate[d]]
      BY <3>2, <3>3 DEF InLine, OnlyDue
    <3>7. dstate[d] \notin InTransition =>
              /\ \A i \in 1..Len(pending'[d]) : pending'[d][i] = Due[dstate[d]]
              /\ job'[w] = Due[dstate[d]]
      BY <3>2, <3>3 DEF InLine, OnlyDue
    <3>8. Due[dstate'[d]] = Due[dstate[d]] /\ dstate'[d] = dstate[d]
      BY <2>1
    <3>9. ASSUME NEW v \in Workers, drv'[v] = d, job'[v] = Due[dstate'[d]]
          PROVE  OnlyDue(d)'
      BY <3>2, <3>4, <3>5, <3>8, <3>9 DEF OnlyDue
    <3>10. dstate'[d] \notin InTransition =>
               OnlyDue(d)' /\ \A v \in Workers : drv'[v] = d => job'[v] = Due[dstate'[d]]
      BY <3>4, <3>7, <3>8 DEF OnlyDue
    <3> QED
      BY <3>6, <3>8, <3>9, <3>10 DEF InLine
  <2> QED
    BY <2>3, <2>4
<1>5. ASSUME NEW w \in Workers, Handle(w)
      PROVE  InLine(d)'
  <2>1. drv[w] # NoDriver /\ (GoesOn(w) \/ Finish(w)) /\ pending' = pending
    BY <1>5, CourseStep, RecordStep DEF Handle, OnCourse
  <2>2. \A v \in Workers : drv'[v] = d => drv[v] = d /\ job'[v] = job[v]
    BY <1>0, <2>1 DEF GoesOn, SameWork, Finish, WorkInv
  <2>3. CASE dstate'[d] = dstate[d]
    BY <2>1, <2>2, <2>3 DEF InLine, OnlyDue
  <2>4. CASE Replies(w) /\ drv[w] = d
    BY <2>1, <2>4, ReplyInLine
  <2>5. CASE Replies(w) /\ drv[w] # d
    <3>1. dstate'[d] = dstate[d]
      BY <2>5 DEF Replies, Answered, Refused, record, RecordType
    <3> QED
      BY <2>3, <3>1
  <2> QED
    BY <1>5, <2>3, <2>4, <2>5, RecordStep DEF record
<1>6. CASE \E r \in Routers : Connect(r)
  BY <1>1, <1>6 DEF Connect, record, local
<1>7. CASE UNCHANGED vars
  BY <1>1, <1>7 DEF vars, record, local
<1> QED
  BY <1>2, <1>3, <1>4, <1>5, <1>6, <1>7 DEF Around

\* The order of events is kept by every step.
LEMMA LineStep ==
    ASSUME Living, Alone, LineInv, LockInv, WorkInv, RecordType, [Next]_vars
    PROVE  LineInv'
<1>1. OnCourse'
  BY AloneStep DEF LineInv
<1>2. ~StartupStep /\ ~Crash
  BY StartupIsOver DEF Alone, Crash, Living
<1>3. OneEach
  BY DEF Alone, OneEach
<1>4. ASSUME NEW d \in Drivers PROVE InLine(d)'
  BY <1>2, <1>3, EventInLine DEF LineInv, Next, Around
<1> QED
  BY <1>1, <1>4 DEF LineInv

-----------------------------------------------------------------------------
\* Who writes error files, and who is about to tell Cattle of an error.
LEMMA ErrorStep ==
    ASSUME LockInv, WorkInv, NEW w \in Workers, pc[w] \in Course[job[w]], Handle(w)
    PROVE  \/ UNCHANGED errFile /\ (job[w] = "error" => pc'[w] # "publish")
           \/ /\ job[w] = "activate" /\ UNCHANGED record
              /\ \E f \in BOOLEAN : errFile' = [errFile EXCEPT ![drv[w]] = f]
           \/ UNCHANGED record /\ errFile' = [errFile EXCEPT ![drv[w]] = FALSE]
<1>0. w \in Callers
  BY DEF Callers
<1>1. job[w] \in {"activate", "deactivate", "remove", "error"}
  BY DEF Handle, WorkInv, Events, Settled
<1>2. CASE Stage(w)
  <2>1. job[w] = "activate"
    BY <1>1, <1>2 DEF Stage, GetError, IsInstalled, Download, CopyStaged, NameCache, StageFails,
       Step, Course, Uploading, Writing
  <2>2. UNCHANGED record /\ (errFile' = errFile \/ \E f \in BOOLEAN : errFile' = [errFile EXCEPT ![drv[w]] = f])
    BY <1>2 DEF Stage, GetError, IsInstalled, Download, CopyStaged, NameCache, StageFails, others
  <2> QED
    BY <2>1, <2>2
<1>3. CASE ClearError(w)
  BY <1>3 DEF ClearError, others
<1>4. CASE Install(w) \/ Remove(w)
  <2>1. job[w] # "error"
    BY <1>1, <1>4 DEF Install, Open, Copy, Rename, Remove, RemoveBinary, RemoveStaged, RemoveCache,
       Step, Course
  <2> QED
    BY <1>4, <2>1 DEF Install, Open, Copy, Rename, Remove, RemoveBinary, RemoveStaged, RemoveCache
<1>5. CASE GetDriver(w) \/ NameCheck(w) \/ GetToRemove(w) \/ PublishReply(w) \/ ErrorReply(w)
  <2>1. errFile' = errFile
    BY <1>5 DEF GetDriver, NameCheck, GetToRemove, PublishReply, ErrorReply, disk
  <2>2. pc'[w] # "publish"
    <3>1. \A e \in Events : First[e] # "publish"
      BY DEF Events, Settled, First
    <3>2. job[w] \in Events
      BY DEF Handle, WorkInv
    <3> QED
      BY <1>0, <1>5, <3>1, <3>2 DEF GetDriver, NameCheck, GetToRemove, PublishReply, ErrorReply,
         Step, Goto, Finish, LockInv
  <2> QED
    BY <2>1, <2>2
<1>6. CASE GenerateAndUploadSchema(w) \/ GetVersion(w) \/ RemoveSchemas(w)
  <2>1. job[w] # "error"
    BY <1>1, <1>6 DEF GenerateAndUploadSchema, GenLock, GetCreateFlags, RemoveConfig, CreateConfig,
       SchemaFails, GetVersion, RemoveSchemas, Step, Course
  <2>2. errFile' = errFile
    BY <1>6 DEF GenerateAndUploadSchema, GenLock, GetCreateFlags, RemoveConfig, CreateConfig,
       GetVersion, RemoveSchemas, rest, disk
  <2> QED
    BY <2>1, <2>2
<1>7. CASE UploadMachineSchemas(w)
  <2>1. pc[w] \in {"uploadLock", "list", "removeHost"} \cup Writing
    BY <1>7, UploadsAre DEF UploadMachineSchemas, UploadLock, ListDrivers, RemoveHost, UploadHost,
       SchemaFails, Step, Writing
  <2>2. job[w] # "error"
    BY <2>1 DEF Course, Writing
  <2>3. errFile' = errFile
    BY <1>7 DEF UploadMachineSchemas, UploadLock, ListDrivers, RemoveHost, UploadHost, rest, disk
  <2> QED
    BY <2>2, <2>3
<1> QED
  BY <1>2, <1>3, <1>4, <1>5, <1>6, <1>7 DEF Handle

\* Error files are gone when they have to be, after every step.
LEMMA ClearedStep ==
    ASSUME Living, Alone, LineInv, LockInv, WorkInv, DataType, Cleared, [Next]_vars
    PROVE  Cleared'
<1>0. Workers \subseteq Callers /\ NoDriver \notin Drivers
  BY DriverAssumption DEF Callers
<1>1. CASE Around \/ UNCHANGED vars
  <2>1. UNCHANGED <<pc, drv, job, errFile>>
    BY <1>1 DEF Around, CattleSends, User, UserAsks, Connect, vars, local, disk
  <2>2. \A d \in Drivers : dstate'[d] = "error" => dstate[d] = "error"
    BY <1>1 DEF Around, CattleSends, User, UserAsks, Connect, vars, record, DataType, RecordType
  <2> QED
    BY <2>1, <2>2 DEF Cleared, FreshAttempt
<1>2. ASSUME NEW w \in Workers, NEW d \in Drivers, HandleWork(w, d)
      PROVE  Cleared'
  <2>1. /\ pc'[w] = "getDriver" /\ \A c \in Callers : c # w => pc'[c] = pc[c]
        /\ \A c \in Callers : c # w => drv'[c] = drv[c] /\ job'[c] = job[c]
        /\ UNCHANGED <<errFile, dstate>>
    BY <1>0, <1>2 DEF HandleWork, Step, Goto, LockInv, WorkInv, record, disk
  <2> QED
    BY <1>0, <2>1 DEF Cleared, FreshAttempt
<1>3. ASSUME NEW w \in Workers, Handle(w)
      PROVE  Cleared'
  <2>1. drv[w] \in Drivers /\ drv[w] # NoDriver /\ job[w] \in Events /\ pc[w] \in Course[job[w]]
    BY <1>0, <1>3 DEF Handle, WorkInv, LineInv, OnCourse
  <2>2. \A v \in Workers : v # w => pc'[v] = pc[v] /\ job'[v] = job[v] /\ drv'[v] = drv[v]
    BY <1>0, <1>3, <2>1, CourseStep DEF GoesOn, SameWork, Finish, Goto, LockInv, WorkInv
  <2>3. \A v \in Workers : v # w /\ drv[v] # NoDriver => drv[v] # drv[w]
    BY DEF Alone
  <2>4. \A d \in Drivers : d # drv[w] => errFile'[d] = errFile[d] /\ dstate'[d] = dstate[d]
    BY <1>3, <2>1, ErrorStep, RecordStep DEF DataType, DiskType, RecordType, record, Replies, Answered, Refused
  <2>5. drv'[w] = NoDriver \/ (drv'[w] = drv[w] /\ job'[w] = job[w])
    BY <1>0, <1>3, <2>1, CourseStep DEF GoesOn, SameWork, Finish, WorkInv
  <2>6. dstate[drv[w]] = "error" => job[w] = "error"
    <3>1. "error" \notin InTransition /\ Due["error"] = "error"
      BY DEF InTransition, EventOf, Due
    <3> QED
      BY <2>1, <3>1 DEF LineInv, InLine
  <2>7. dstate'[drv[w]] = "error" => ~errFile'[drv[w]]
    <3>1. CASE UNCHANGED errFile /\ UNCHANGED record
      BY <2>1, <3>1 DEF Cleared, FreshAttempt, record
    <3>2. CASE UNCHANGED errFile /\ Replies(w)
      <4>1. SUFFICES ASSUME dstate'[drv[w]] = "error", dstate[drv[w]] # "error"
                     PROVE  pc[w] = "publish" /\ job[w] = "error"
        BY <2>1, <3>2 DEF Cleared, FreshAttempt
      <4>2. \A e \in Events : Settled[e] = "error" => e = "error"
        BY DEF Events, Settled
      <4> QED
        BY <2>1, <3>2, <4>1, <4>2 DEF Replies, Answered, Refused, record, DataType, RecordType
    <3>3. CASE errFile' = [errFile EXCEPT ![drv[w]] = FALSE]
      BY <2>1, <3>3, Zenon DEF DataType, DiskType
    <3>4. CASE job[w] = "activate" /\ UNCHANGED record
      BY <2>6, <3>4 DEF record
    <3> QED
      BY <1>3, <2>1, <3>1, <3>2, <3>3, <3>4, ErrorStep, RecordStep
  <2>8. job'[w] = "error" /\ pc'[w] = "publish" /\ drv'[w] # NoDriver => ~errFile'[drv[w]]
    <3>1. CASE errFile' = [errFile EXCEPT ![drv[w]] = FALSE]
      BY <2>1, <3>1, Zenon DEF DataType, DiskType
    <3> QED
      BY <1>3, <2>1, <2>5, <3>1, ErrorStep
  <2>9. FreshAttempt'
    BY <2>1, <2>4, <2>7 DEF Cleared, FreshAttempt
  <2>10. ASSUME NEW v \in Workers, drv'[v] # NoDriver, job'[v] = "error", pc'[v] = "publish"
         PROVE  ~errFile'[drv'[v]]
    <3>1. CASE v = w
      BY <2>5, <2>8, <2>10, <3>1
    <3>2. CASE v # w
      <4>1. drv[v] \in Drivers
        BY <1>0, <2>2, <2>10, <3>2 DEF WorkInv
      <4> QED
        BY <2>2, <2>3, <2>4, <2>10, <3>2, <4>1 DEF Cleared
    <3> QED
      BY <3>1, <3>2
  <2> QED
    BY <2>9, <2>10 DEF Cleared
<1>4. ~StartupStep /\ ~Crash
  BY StartupIsOver DEF Alone, Crash, Living
<1> QED
  BY <1>1, <1>2, <1>3, <1>4 DEF Next, Around

\* The first state: nothing is pending, no worker has a driver.
LEMMA LinesAtStart ==
    ASSUME InitReady
    PROVE  Alone /\ LineInv /\ Cleared
<1>1. PICK A, I \in SUBSET Drivers : Before(A, I)
  BY DEF InitReady
<1>2. /\ pc = [c \in Callers |-> IF c = Startup THEN "done" ELSE "idle"]
      /\ drv = [c \in Callers |-> NoDriver] /\ pending = [d \in Drivers |-> <<>>]
      /\ errFile = [d \in Drivers |-> FALSE]
  BY <1>1 DEF InitReady, Before
<1>3. Startup \in Callers /\ Startup \notin Workers /\ Workers \subseteq Callers /\ NoDriver \notin Drivers
  BY DriverAssumption DEF Callers
<1>4. Alone
  BY <1>2, <1>3 DEF Alone
<1>5. LineInv
  <2>1. \A w \in Workers : drv[w] = NoDriver
    BY <1>2, <1>3
  <2>2. \A d \in Drivers : Len(pending[d]) = 0
    BY <1>2
  <2> QED
    BY <1>3, <2>1, <2>2 DEF LineInv, OnCourse, InLine, OnlyDue
<1>6. Cleared
  BY <1>2, <1>3 DEF Cleared, FreshAttempt
<1> QED
  BY <1>4, <1>5, <1>6

\* What the theorems before have established of every reachable state.
Settles == Alone /\ LineInv /\ Cleared /\ LockInv /\ WorkInv /\ DataType

\* FreshAttempt, for any drivers and workers, however often events are repeated
\* and whatever calls fail, as long as the process lives on.
THEOREM FreshTheorem ==
    ASSUME Living
    PROVE  ReadySpec => []FreshAttempt
<1>1. InitReady => Settles
  BY LinesAtStart, LockAtStart, TypedAtStart DEF Settles
<1>2. Settles /\ [Next]_vars => Settles'
  BY AloneStep, LineStep, ClearedStep, LockStep, TypeStep DEF Settles, LineInv, DataType
<1>3. Settles => FreshAttempt
  BY DEF Settles, Cleared
<1> QED
  BY <1>1, <1>2, <1>3, PTL DEF ReadySpec

-----------------------------------------------------------------------------
\* A handler's step concerns the driver of its worker and no other.
Narrow(w) ==
    /\ pending' = pending
    /\ \A d \in Drivers : drv[w] # d =>
           /\ dstate'[d] = dstate[d] /\ named'[d] = named[d] /\ errFile'[d] = errFile[d]
           /\ bin'[NameOf[d]] = bin[NameOf[d]]
           /\ NameOf[d] \in config' <=> NameOf[d] \in config

\* ... for a driver that is another has another name.
LEMMA NarrowStep ==
    ASSUME Settles, FileInv, Separate, NEW w \in Workers, Handle(w)
    PROVE  Narrow(w)
<1>1. w \in Callers /\ drv[w] \in Drivers /\ drv[w] # NoDriver
  BY DriverAssumption DEF Handle, Callers, Settles, WorkInv
<1>2. pending' = pending
  BY <1>1, RecordStep
<1>3. SUFFICES ASSUME NEW d \in Drivers, drv[w] # d
               PROVE  /\ dstate'[d] = dstate[d] /\ named'[d] = named[d] /\ errFile'[d] = errFile[d]
                      /\ bin'[NameOf[d]] = bin[NameOf[d]]
                      /\ NameOf[d] \in config' <=> NameOf[d] \in config
  BY <1>2 DEF Narrow
<1>4. NameOf[d] # Name(w) /\ NameOf[d] \in Names /\ Name(w) \in Names
  BY <1>1, <1>3 DEF Separate, Name, Names
<1>5. dstate'[d] = dstate[d] /\ named'[d] = named[d]
  <2>1. CASE UNCHANGED record
    BY <2>1 DEF record
  <2>2. CASE Replies(w)
    <3>1. \/ UNCHANGED <<dstate, named>>
          \/ /\ \E s : dstate' = [dstate EXCEPT ![drv[w]] = s]
             /\ \E s : named' = [named EXCEPT ![drv[w]] = s]
          \/ /\ \E s : dstate' = [dstate EXCEPT ![drv[w]] = s]
             /\ named' = named
      BY <2>2 DEF Replies, Answered, Refused, record
    <3> QED
      BY <1>3, <3>1 DEF Settles, DataType, RecordType
  <2> QED
    BY <2>1, <2>2, RecordStep
<1>6. errFile'[d] = errFile[d]
  <2>1. pc[w] \in Course[job[w]]
    BY <1>1 DEF Settles, LineInv, OnCourse
  <2> QED
    BY <1>1, <1>3, <2>1, ErrorStep DEF Settles, DataType, DiskType
<1>7. bin'[NameOf[d]] = bin[NameOf[d]]
  <2>1. \/ bin' = bin
        \/ \E f : bin' = [bin EXCEPT ![Name(w)] = f]
        \/ \E f : bin' = Closed(bin, w, f)
    <3>1. CASE Stage(w)
      BY <3>1 DEF Stage, GetError, IsInstalled, Download, CopyStaged, NameCache, binary
    <3>2. CASE Install(w)
      BY <3>2 DEF Install, Open, Copy, Rename, binary
    <3>3. CASE Remove(w) \/ ClearError(w)
      BY <3>3 DEF Remove, RemoveBinary, RemoveStaged, RemoveCache, ClearError, binary
    <3>4. CASE \/ GetDriver(w) \/ NameCheck(w) \/ GetToRemove(w) \/ PublishReply(w) \/ ErrorReply(w)
      BY <3>4 DEF GetDriver, NameCheck, GetToRemove, PublishReply, ErrorReply, disk, binary
    <3>5. CASE GenerateAndUploadSchema(w) \/ GetVersion(w) \/ RemoveSchemas(w) \/ UploadMachineSchemas(w)
      BY <3>5 DEF GenerateAndUploadSchema, GenLock, GetCreateFlags, RemoveConfig, CreateConfig,
         GetVersion, RemoveSchemas, UploadMachineSchemas, UploadLock, ListDrivers, RemoveHost,
         UploadHost, rest, disk, binary
    <3> QED
      BY <3>1, <3>2, <3>3, <3>4, <3>5 DEF Handle
  <2>2. bin \in [Names -> {"none", "whole"}] /\ w \notin {"none", "whole"}
    BY <1>1, DriverAssumption DEF FileInv, FilesType
  <2> QED
    BY <1>4, <2>1, <2>2 DEF Closed
<1>8. NameOf[d] \in config' <=> NameOf[d] \in config
  <2>1. config' \in {config, config \cup {Name(w)}, config \ {Name(w)}}
    <3>1. CASE Stage(w) \/ Install(w)
      BY <3>1 DEF Stage, GetError, IsInstalled, Download, CopyStaged, NameCache, Install, Open, Copy,
         Rename, others, schema
    <3>2. CASE \/ Remove(w) \/ ClearError(w) \/ GetDriver(w) \/ NameCheck(w) \/ GetToRemove(w)
               \/ PublishReply(w) \/ ErrorReply(w)
      BY <3>2 DEF Remove, RemoveBinary, RemoveStaged, RemoveCache, ClearError, GetDriver, NameCheck,
         GetToRemove, PublishReply, ErrorReply, others, schema
    <3>3. CASE GenerateAndUploadSchema(w) \/ GetVersion(w) \/ RemoveSchemas(w) \/ UploadMachineSchemas(w)
      BY <3>3 DEF GenerateAndUploadSchema, GenLock, GetCreateFlags, RemoveConfig, CreateConfig,
         GetVersion, RemoveSchemas, Described, UploadMachineSchemas, UploadLock, ListDrivers,
         RemoveHost, UploadHost, schema
    <3> QED
      BY <3>1, <3>2, <3>3 DEF Handle
  <2> QED
    BY <1>4, <2>1
<1> QED
  BY <1>5, <1>6, <1>7, <1>8


-----------------------------------------------------------------------------
(***************************************************************************)
(* Usable drivers.  An activation that is past the check of the name is of *)
(* a driver that is not active; past the question for its flags its plugin *)
(* runs, and past the upload of its description that is there.  Nobody     *)
(* else comes near any of them until it has replied.                       *)
(***************************************************************************)
\* Parts of an activation's course: past the check of the name, past the
\* question for the flags, past the <name>Config schema being created.
Created == {"version", "uploadLock", "list", "publish"} \cup Uploading
Flagged == {"removeConfig", "createConfig"} \cup Created
Checked == {"open", "copy", "rename", "genLock", "flags"} \cup Flagged

Activates(w) ==
    drv[w] # NoDriver /\ job[w] = "activate" =>
        /\ pc[w] \in Checked => dstate[drv[w]] # "active"
        /\ pc[w] \in Flagged => Runs(drv[w])
        /\ pc[w] \in Created => Name(w) \in config

InUse(d) == dstate[d] = "active" => named[d] = TRUE /\ Usable(d)

UseInv == (\A w \in Workers : Activates(w)) /\ (\A d \in Drivers : InUse(d))

\* What is known of a state, when calls may have failed.
Served == Settles /\ FileInv /\ UseInv

\* A worker at work: a driver that is being deactivated or removed is not
\* active.
LEMMA Working ==
    ASSUME Served, NEW w \in Workers, drv[w] # NoDriver
    PROVE  /\ w \in Callers /\ w # Startup /\ drv[w] \in Drivers /\ Name(w) \in Names
           /\ job[w] \in {"activate", "deactivate", "remove", "error"}
           /\ pc[w] \in Course[job[w]] /\ Activates(w) /\ InUse(drv[w])
           /\ job[w] # "activate" => dstate[drv[w]] # "active"
<1>1. w \in Callers /\ w # Startup
  BY DriverAssumption DEF Callers
<1>2. drv[w] \in Drivers /\ job[w] \in Events
  BY <1>1 DEF Served, Settles, WorkInv
<1>3. pc[w] \in Course[job[w]] /\ Activates(w) /\ InUse(drv[w]) /\ InLine(drv[w])
  BY <1>2 DEF Served, UseInv, Settles, LineInv, OnCourse
<1>4. "active" \notin InTransition /\ Due["active"] = "activate"
  BY DEF InTransition, EventOf, Due
<1> QED
  BY <1>1, <1>2, <1>3, <1>4 DEF InLine, Events, Settled, Name, Names

\* What a step of the worker w has to show.
Serves(w) == Activates(w)' /\ \A d \in Drivers : drv[w] = d => InUse(d)'

\* A step to b that leaves Cattle's records alone.
LEMMA StepServes ==
    ASSUME Served, NEW w \in Workers, drv[w] # NoDriver, NEW b,
           pc' = [pc EXCEPT ![w] = b], UNCHANGED <<dstate, named, job, drv>>,
           dstate[drv[w]] = "active" => UNCHANGED <<bin, config>>,
           job[w] = "activate" /\ b \in Checked => dstate[drv[w]] # "active",
           job[w] = "activate" /\ b \in Flagged => Runs(drv[w])',
           job[w] = "activate" /\ b \in Created => Name(w) \in config'
    PROVE  Serves(w)
<1>1. pc'[w] = b
  BY Working DEF Served, Settles, LockInv
<1>2. Activates(w)'
  BY <1>1 DEF Activates, Runs, Name
<1>3. ASSUME NEW d \in Drivers, drv[w] = d
      PROVE  InUse(d)'
  BY <1>3, Working DEF InUse, Usable, Runs
<1> QED
  BY <1>2, <1>3 DEF Serves

\* Before the check of the name; for "error", no such step is taken.
LEMMA StageServes ==
    ASSUME Served, NEW w \in Workers, drv[w] # NoDriver, Stage(w) \/ ClearError(w)
    PROVE  Serves(w)
<1>1. UNCHANGED <<dstate, named, job, drv, bin, config>>
  BY DEF Stage, GetError, IsInstalled, Download, CopyStaged, NameCache, ClearError, others, record,
     schema, binary
<1>2. PICK b \in {"isInstalled", "download", "copyStaged", "nameCache", "nameCheck", "errorReply", "publish"} :
          pc' = [pc EXCEPT ![w] = b] /\ (job[w] = "activate" => b # "publish")
  <2>1. CASE Stage(w)
    BY <2>1, Working DEF Stage, GetError, IsInstalled, Download, CopyStaged, NameCache, StageFails,
       Staged, Erred, Step, Goto
  <2>2. CASE ClearError(w)
    <3>1. job[w] # "activate"
      BY <2>2, Working DEF ClearError, Step, Course, Generating, Uploading, Writing
    <3> QED
      BY <2>2, <3>1 DEF ClearError, Step, Goto
  <2> QED
    BY <2>1, <2>2
<1>3. job[w] = "activate" => b \notin Checked /\ b \notin Flagged /\ b \notin Created
  BY <1>2 DEF Checked, Flagged, Created, Uploading, Writing
<1> QED
  BY <1>1, <1>2, <1>3, StepServes

\* The check of the name: an active driver is itself the one that has it.
LEMMA NameCheckServes ==
    ASSUME Served, NEW w \in Workers, drv[w] # NoDriver, NameCheck(w)
    PROVE  Serves(w)
<1>1. UNCHANGED <<dstate, named, job, drv, bin, config>>
  BY DEF NameCheck, others, record, schema, disk, binary
<1>2. PICK b \in {"open", "errorReply"} :
          pc' = [pc EXCEPT ![w] = b] /\ (b = "open" => dstate[drv[w]] # "active")
  BY Working DEF NameCheck, Step, Goto, Active, Name, InUse
<1>3. b \notin Flagged /\ b \notin Created /\ (b \in Checked => b = "open")
  BY DEF Checked, Flagged, Created, Uploading, Writing
<1> QED
  BY <1>1, <1>2, <1>3, StepServes

\* Installing and describing a driver, which is not active.
LEMMA InstallServes ==
    ASSUME Served, NEW w \in Workers, drv[w] # NoDriver,
           Install(w) \/ GenerateAndUploadSchema(w) \/ GetVersion(w)
    PROVE  Serves(w)
<1>1. UNCHANGED <<dstate, named, job, drv>>
  BY DEF Install, Open, Copy, Rename, GenerateAndUploadSchema, GenLock, GetCreateFlags, RemoveConfig,
     CreateConfig, GetVersion, others, rest, record
<1>2. /\ pc[w] \in {"open", "copy", "rename", "genLock", "flags", "removeConfig", "createConfig",
                    "version"}
      /\ job[w] = "activate"
  <2>1. pc[w] \in {"open", "copy", "rename", "genLock", "flags", "removeConfig", "createConfig",
                   "version"}
    BY DEF Install, Open, Copy, Rename, GenerateAndUploadSchema, GenLock, GetCreateFlags,
       RemoveConfig, CreateConfig, SchemaFails, GetVersion, Step
  <2> QED
    BY <2>1, Working DEF Course, Uploading, Writing
<1>3. dstate[drv[w]] # "active"
  BY <1>2, Working DEF Activates, Checked, Flagged, Created
<1>4. PICK b \in {"copy", "rename", "genLock", "flags", "removeConfig", "createConfig", "version",
                  "uploadLock", "errorReply"} :
          /\ pc' = [pc EXCEPT ![w] = b]
          /\ b \in {"removeConfig", "createConfig", "version", "uploadLock"} => Runs(drv[w])'
          /\ b \in {"version", "uploadLock"} => Name(w) \in config'
  <2>1. CASE Install(w)
    BY <2>1, Working DEF Install, Open, Copy, Rename, Installed, Erred, Step, Goto
  <2>2. CASE GenLock(w)
    BY <2>2 DEF GenLock, Step, Goto
  <2>3. CASE GetCreateFlags(w)
    BY <2>3 DEF GetCreateFlags, SchemaFails, Step, Goto, rest, disk, binary, Runs
  <2>4. CASE RemoveConfig(w) \/ CreateConfig(w) \/ GetVersion(w)
    <3>1. Runs(drv[w])' /\ (pc[w] = "version" => Name(w) \in config)
      BY <1>1, <1>2, <2>4, Working
      DEF RemoveConfig, CreateConfig, GetVersion, SchemaFails, Step, rest, disk, binary, Runs,
          Activates, Flagged, Created
    <3> QED
      BY <2>4, <3>1 DEF RemoveConfig, CreateConfig, GetVersion, SchemaFails, Step, Goto, schema
  <2> QED
    BY <2>1, <2>2, <2>3, <2>4 DEF GenerateAndUploadSchema
<1>5. /\ b \in Flagged => b \in {"removeConfig", "createConfig", "version", "uploadLock"}
      /\ b \in Created => b \in {"version", "uploadLock"}
  BY DEF Flagged, Created, Uploading, Writing
<1> QED
  BY <1>1, <1>2, <1>3, <1>4, <1>5, StepServes

\* Deactivating, or removing, a driver, which is not active either.
LEMMA RemovalServes ==
    ASSUME Served, NEW w \in Workers, drv[w] # NoDriver,
           RemoveSchemas(w) \/ GetToRemove(w) \/ Remove(w)
    PROVE  Serves(w)
<1>1. UNCHANGED <<dstate, named, job, drv>>
  BY DEF RemoveSchemas, GetToRemove, Remove, RemoveBinary, RemoveStaged, RemoveCache, others, rest,
     record
<1>2. PICK b : Step(w, pc[w], b)
  BY DEF RemoveSchemas, GetToRemove, Remove, RemoveBinary, RemoveStaged, RemoveCache, Step
<1>3. job[w] # "activate"
  <2>1. pc[w] \in {"rmSchemas", "getToRemove", "rmBin", "rmStaged", "rmCache"}
    BY DEF RemoveSchemas, GetToRemove, Remove, RemoveBinary, RemoveStaged, RemoveCache, Step
  <2> QED
    BY <2>1, Working DEF Course, Generating, Uploading, Writing
<1> QED
  BY <1>1, <1>2, <1>3, Working, StepServes DEF Step, Goto

\* The uploads.
LEMMA UploadServes ==
    ASSUME Served, NEW w \in Workers, drv[w] # NoDriver, UploadMachineSchemas(w)
    PROVE  Serves(w)
<1>1. UNCHANGED <<dstate, named, job, drv, bin, config>>
  BY DEF UploadMachineSchemas, UploadLock, ListDrivers, RemoveHost, UploadHost, rest, record, disk,
     binary, schema
<1>2. PICK b \in {"list", "publish", "errorReply"} \cup Uploading :
          pc' = [pc EXCEPT ![w] = b] /\ pc[w] \in {"uploadLock", "list"} \cup Uploading
  <2>1. CASE UploadLock(w) \/ ListDrivers(w) \/ RemoveHost(w)
    BY <2>1, UploadsAre DEF UploadLock, ListDrivers, RemoveHost, SchemaFails, Step, Goto, Uploading,
       Writing
  <2>2. ASSUME NEW i \in 1..Len(Uploads), UploadHost(w, i)
        PROVE  /\ pc[w] \in Uploading
               /\ \E b \in {"publish", "errorReply"} \cup Uploading : pc' = [pc EXCEPT ![w] = b]
    <3>1. Uploads[i] \in Uploading /\ AfterUpload(i) \in {"publish"} \cup Uploading
      BY UploadsAre DEF AfterUpload, Uploading, Writing
    <3> QED
      BY <2>2, <3>1 DEF UploadHost, SchemaFails, Step, Goto
  <2> QED
    BY <2>1, <2>2 DEF UploadMachineSchemas
<1>3. pc[w] \in Checked /\ pc[w] \in Flagged /\ pc[w] \in Created
  BY <1>2 DEF Checked, Flagged, Created
<1> QED
  BY <1>1, <1>2, <1>3, Working, StepServes DEF Activates, Runs, Name

\* The first step and the last: a driver becomes active when it is usable.
LEMMA ReplyServes ==
    ASSUME Served, NEW w \in Workers, drv[w] # NoDriver,
           GetDriver(w) \/ PublishReply(w) \/ ErrorReply(w)
    PROVE  Serves(w)
<1>1. UNCHANGED <<bin, config>>
  BY DEF GetDriver, PublishReply, ErrorReply, disk, binary, schema
<1>2. Activates(w)'
  <2>1. CASE Finish(w)
    <3>1. drv'[w] = NoDriver
      BY <2>1, Working DEF Finish, Served, Settles, WorkInv
    <3> QED
      BY <3>1 DEF Activates
  <2>2. CASE ~Finish(w)
    <3>1. PICK b \in {"getError", "rmSchemas", "clearError", "errorReply"} : Goto(w, b)
      <4>1. First[job[w]] \in {"getError", "rmSchemas", "clearError"}
        BY Working DEF First
      <4> QED
        BY <2>2, <4>1 DEF GetDriver, PublishReply, ErrorReply, Step
    <3>2. pc'[w] = b
      BY <3>1, Working DEF Goto, Served, Settles, LockInv
    <3>3. b \notin Checked /\ b \notin Flagged /\ b \notin Created
      BY DEF Checked, Flagged, Created, Uploading, Writing
    <3> QED
      BY <3>2, <3>3 DEF Activates
  <2> QED
    BY <2>1, <2>2
<1>3. ASSUME NEW d \in Drivers, drv[w] = d
      PROVE  InUse(d)'
  <2>1. CASE UNCHANGED record
    BY <1>1, <1>3, <2>1, Working DEF InUse, Usable, Runs, record
  <2>2. CASE ErrorReply(w) /\ ~UNCHANGED record
    <3>1. dstate' = [dstate EXCEPT ![d] = "erroring"]
      BY <1>3, <2>2 DEF ErrorReply, Refused
    <3>2. dstate'[d] = "erroring"
      BY <3>1 DEF Served, Settles, DataType, RecordType
    <3> QED
      BY <3>2 DEF InUse
  <2>3. CASE PublishReply(w) /\ Awaited(d, job[w])
    <3>1. SUFFICES ASSUME dstate'[d] = "active", ~UNCHANGED record
                   PROVE  named'[d] = TRUE /\ Usable(d)'
      BY <2>1 DEF InUse
    <3>2. /\ pc[w] = "publish" /\ dstate' = [dstate EXCEPT ![d] = Settled[job[w]]]
          /\ named' = [named EXCEPT ![d] = @ \/ job[w] = "activate"]
      BY <1>3, <2>3, <3>1 DEF PublishReply, Answered
    <3>3. job[w] = "activate"
      <4>1. dstate'[d] = Settled[job[w]]
        BY <3>2 DEF Served, Settles, DataType, RecordType
      <4> QED
        BY <3>1, <4>1, Working DEF Settled
    <3>4. named'[d] = TRUE
      <4>1. named \in [Drivers -> BOOLEAN]
        BY DEF Served, Settles, DataType, RecordType
      <4> QED
        BY <3>2, <3>3, <4>1, Zenon
    <3>5. Usable(d)'
      BY <1>1, <1>3, <3>2, <3>3, Working DEF Activates, Flagged, Created, Usable, Runs, Name
    <3> QED
      BY <3>4, <3>5
  <2> QED
    BY <1>3, <2>1, <2>2, <2>3 DEF GetDriver, PublishReply, Answered
<1> QED
  BY <1>2, <1>3 DEF Serves

\* The other workers and their drivers are not concerned.
LEMMA HandlerServes ==
    ASSUME Served, Separate, NEW w \in Workers, Handle(w)
    PROVE  UseInv'
<1>1. /\ w \in Callers /\ drv[w] \in Drivers /\ drv[w] # NoDriver /\ Workers \subseteq Callers
      /\ pc[w] \in Course[job[w]]
  BY Working DEF Handle, Callers
<1>2. Serves(w)
  BY <1>1, StageServes, NameCheckServes, InstallServes, RemovalServes, UploadServes, ReplyServes
  DEF Handle
<1>3. Narrow(w)
  BY NarrowStep DEF Served
<1>4. ASSUME NEW d \in Drivers
      PROVE  InUse(d)'
  <2>1. CASE drv[w] = d
    BY <1>2, <2>1 DEF Serves
  <2>2. CASE drv[w] # d
    BY <1>3, <2>2 DEF Narrow, InUse, Usable, Runs, Served, UseInv
  <2> QED
    BY <2>1, <2>2
<1>5. ASSUME NEW v \in Workers, v # w
      PROVE  Activates(v)'
  <2>1. pc'[v] = pc[v] /\ job'[v] = job[v] /\ drv'[v] = drv[v]
    <3>1. GoesOn(w) \/ Finish(w)
      BY <1>1, CourseStep DEF Served, Settles
    <3> QED
      BY <1>1, <1>5, <3>1 DEF GoesOn, SameWork, Finish, Goto, Served, Settles, LockInv, WorkInv
  <2>2. ASSUME NEW d \in Drivers, drv[v] = d
        PROVE  Activates(v)'
    <3>1. drv[w] # d
      BY <1>1, <1>5, <2>2 DEF Served, Settles, Alone
    <3>2. /\ dstate'[d] = dstate[d] /\ bin'[NameOf[d]] = bin[NameOf[d]]
          /\ NameOf[d] \in config' <=> NameOf[d] \in config
      BY <1>3, <3>1 DEF Narrow
    <3> QED
      BY <2>1, <2>2, <3>2 DEF Activates, Runs, Name, Served, UseInv
  <2> QED
    BY <1>1, <2>1, <2>2 DEF Activates, Served, Settles, WorkInv
<1> QED
  BY <1>2, <1>4, <1>5 DEF Serves, UseInv

\* Every step.
LEMMA UseStep ==
    ASSUME Served, Separate, [Next]_vars
    PROVE  UseInv'
<1>1. CASE Around \/ UNCHANGED vars
  <2>1. UNCHANGED <<pc, drv, job, bin, config, named>>
    BY <1>1 DEF Around, CattleSends, User, UserAsks, Connect, vars, local, disk, binary, schema, record
  <2>2. \A d \in Drivers : dstate'[d] = "active" => dstate[d] = "active"
    BY <1>1 DEF Around, CattleSends, User, UserAsks, Connect, vars, record, Served, Settles, DataType,
       RecordType
  <2>3. ASSUME NEW w \in Workers
        PROVE  Activates(w)'
    <3>1. Activates(w) /\ (drv[w] = NoDriver \/ drv[w] \in Drivers)
      BY DEF Served, UseInv, Settles, WorkInv, Callers
    <3> QED
      BY <2>1, <2>2, <3>1 DEF Activates, Runs, Name
  <2> QED
    BY <2>1, <2>2, <2>3 DEF UseInv, InUse, Usable, Runs, Served
<1>2. ASSUME NEW w \in Workers, NEW d \in Drivers, HandleWork(w, d)
      PROVE  UseInv'
  <2>1. /\ pc'[w] = "getDriver" /\ \A c \in Workers : c # w => pc'[c] = pc[c]
        /\ \A c \in Workers : c # w => drv'[c] = drv[c] /\ job'[c] = job[c]
        /\ UNCHANGED <<bin, config, named, dstate>>
    BY <1>2 DEF HandleWork, Step, Goto, Served, Settles, LockInv, WorkInv, record, schema, disk,
       binary, Callers
  <2>2. "getDriver" \notin Checked /\ "getDriver" \notin Flagged /\ "getDriver" \notin Created
    BY DEF Checked, Flagged, Created, Uploading, Writing
  <2>3. ASSUME NEW v \in Workers
        PROVE  Activates(v)'
    BY <2>1, <2>2 DEF Activates, Runs, Name, Served, UseInv
  <2> QED
    BY <2>1, <2>3 DEF UseInv, InUse, Usable, Runs, Served
<1>3. CASE \E w \in Workers : Handle(w)
  BY <1>3, HandlerServes
<1>4. ~StartupStep /\ ~Crash
  BY StartupIsOver DEF Alone, Crash, Separate, Served, Settles
<1> QED
  BY <1>1, <1>2, <1>3, <1>4 DEF Next, Around

\* The first state: active drivers have their files and their descriptions.
LEMMA UsableAtStart ==
    ASSUME InitReady
    PROVE  UseInv
<1>1. PICK A \in SUBSET (Drivers \ (Builtin \ Core)) :
          Before(A, Drivers \ (A \cup (Builtin \ Core))) /\ HasFiles(A \ Builtin)
  BY DEF InitReady
<1>2. /\ \A d \in Drivers : dstate[d] = "active" => d \in A
      /\ named \in [Drivers -> BOOLEAN] /\ \A d \in A : named[d]
      /\ config = NamesIn(A) /\ drv = [c \in Callers |-> NoDriver]
      /\ bin = [n \in Names |-> IF n \in NamesIn(A \ Builtin) THEN "whole" ELSE "none"]
  BY <1>1 DEF Before, HasFiles
<1>3. ASSUME NEW d \in Drivers
      PROVE  InUse(d)
  <2>1. SUFFICES ASSUME d \in A PROVE named[d] = TRUE /\ Usable(d)
    BY <1>2 DEF InUse
  <2>2. named[d] = TRUE
    BY <1>2, <2>1
  <2>3. d \in Core \/ NameOf[d] \in NamesIn(A \ Builtin)
    BY <1>1, <2>1 DEF NamesIn
  <2>4. NameOf[d] \in NamesIn(A) /\ NameOf[d] \in Names
    BY <2>1 DEF NamesIn, Names
  <2> QED
    BY <1>2, <2>2, <2>3, <2>4 DEF Usable, Runs
<1>4. \A w \in Workers : Activates(w)
  BY <1>2 DEF Activates, Callers
<1> QED
  BY <1>3, <1>4 DEF UseInv

\* All of it together, always.
LEMMA ServedAlways ==
    ASSUME Separate
    PROVE  ReadySpec => []Served
<1>1. Living
  BY DEF Separate, Living
<1>2. InitReady => Served
  BY LinesAtStart, LockAtStart, TypedAtStart, FilesAtStart, UsableAtStart DEF Settles, Served
<1>3. Served /\ [Next]_vars => Served'
  <2>1. Settles /\ [Next]_vars => Settles'
    BY <1>1, AloneStep, LineStep, ClearedStep, LockStep, TypeStep DEF Settles, LineInv, DataType
  <2>2. FileInv /\ LockInv /\ WorkInv /\ [Next]_vars => FileInv'
    BY FileStep
  <2>3. Served /\ [Next]_vars => UseInv'
    BY UseStep
  <2> QED
    BY <2>1, <2>2, <2>3 DEF Served, Settles
<1> QED
  BY <1>2, <1>3, PTL DEF ReadySpec

\* ActiveIsUsable, for any drivers with names of their own, any workers and
\* requests, and whatever calls fail, as long as the process lives on: the
\* plugin of an active driver can be run, and Cattle has its description.
THEOREM UsableTheorem ==
    ASSUME Separate
    PROVE  ReadySpec => []ActiveIsUsable
<1>1. Served => ActiveIsUsable
  BY DEF Served, UseInv, InUse, ActiveIsUsable, Active
<1> QED
  BY <1>1, ServedAlways, PTL

=============================================================================
