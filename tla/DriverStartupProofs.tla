------------------------ MODULE DriverStartupProofs -------------------------
(***************************************************************************)
(* Handlers beside the startup.  While DownloadAllDrivers stages and       *)
(* installs the plugins of active drivers, a user may ask for another      *)
(* state of one of them, and a handler then works on the same files as the *)
(* startup.  For drivers with names of their own, any workers, from the    *)
(* first start on, whatever calls fail and however often the process dies  *)
(* or is replaced:                                                         *)
(*                                                                         *)
(*   - drivers nevertheless become active only when they can be run and    *)
(*     are described (StartupInv, ActivatedTheorem);                       *)
(*   - if no handler stages or installs a plugin while the startup does    *)
(*     (StagesAlone, which the code does not see to), every active driver  *)
(*     has its plugin once the startup is over (RestoredInv,               *)
(*     RestoredTheorem).                                                   *)
(***************************************************************************)
EXTENDS DriverFileProofs

\* What the theorem supposes: no other driver has the name.
OwnNames == \A d, e \in Drivers : NameOf[d] = NameOf[e] => d = e

Typed == LockInv /\ WorkInv /\ DataType

\* A worker that is not idle has a driver to itself, but for the startup.
Held ==
    /\ \A w \in Workers : drv[w] = NoDriver <=> pc[w] = "idle"
    /\ \A v, w \in Workers : drv[v] = drv[w] /\ drv[v] # NoDriver => v = w

Named == \A d \in Drivers : dstate[d] = "active" => named[d] = TRUE

\* Who is writing a file is at the step that does it, for the driver whose it
\* is.  A binary that is written where it is run from has been moved there.
Opens(n, c) == drv[c] # NoDriver /\ Name(c) = n /\ pc[c] = "copy"

OpenFiles ==
    /\ \A d \in Drivers, c \in Callers : staged[d] = c => drv[c] = d /\ pc[c] = "copyStaged"
    /\ \A n \in Names, c \in Callers : tmp[n] = c => Opens(n, c)
    /\ \A n \in Names, c \in Callers : bin[n] = c => Opens(n, c) /\ tmp[n] # c

\* No built-in driver is downloaded.
Downloading == {"download", "copyStaged", "nameCache", "copy", "rename"}
NotBuiltin  == \A c \in Callers : pc[c] \in Downloading => drv[c] \notin Builtin

\* What the startup has opened whole was not truncated since.
SourceKept ==
    pc[Startup] = "copy" /\ src[Startup] = "whole" /\ drv[Startup] # NoDriver =>
        staged[drv[Startup]] \in {"whole", "none"}

\* An activation that has opened the "-tmp" file, or is done with it.
Past(w)   == \/ pc[w] \in {"genLock", "version"} \cup Generating
             \/ job[w] = "activate" /\ pc[w] \in Created
Opened(w) == drv[w] # NoDriver /\ (pc[w] \in {"copy", "rename"} \/ Past(w))

\* What it has installed, or is about to install, is whole.
Complete(w) == \/ pc[w] = "copy" /\ (src[w] = "whole" \/ tmp[Name(w)] = "whole")
               \/ pc[w] = "rename" /\ tmp[Name(w)] = "whole"
               \/ Past(w) /\ bin[Name(w)] = "whole"

\* Meanwhile the startup, if it works on the same driver, does not install
\* anything in place of what is whole but what is whole too.
StagedToo(w) == \/ staged[drv[w]] = "whole"
                \/ /\ drv[Startup] = drv[w]
                   /\ \/ pc[Startup] = "copyStaged" /\ staged[drv[w]] = Startup
                      \/ pc[Startup] = "redo"
TmpToo(w)    == \/ tmp[Name(w)] = "none"
                \/ /\ drv[Startup] = drv[w]
                   /\ \/ pc[Startup] = "copy" /\ tmp[Name(w)] = Startup
                      \/ /\ pc[Startup] = "rename" /\ tmp[Name(w)] \in {"whole", "torn"}
                         /\ tmp[Name(w)] = "whole" => staged[drv[w]] = "whole"
                      \/ pc[Startup] = "redo"
WholeToo(w)  == drv[Startup] = drv[w] =>
                    /\ pc[Startup] = "copy" /\ tmp[Name(w)] = Startup => src[Startup] = "whole"
                    /\ pc[Startup] = "rename" => tmp[Name(w)] # "torn"

AtFiles(w) == Opened(w) /\ drv[w] \notin Builtin =>
    /\ staged[drv[w]] # "none"
    /\ Complete(w) => StagedToo(w)
    /\ Past(w) => TmpToo(w)
    /\ Past(w) /\ bin[Name(w)] = "whole" => WholeToo(w)

StartupInv == /\ Held /\ OnCourse /\ Named /\ OpenFiles /\ NotBuiltin /\ SourceKept
              /\ \A w \in Workers : Activates(w) /\ AtFiles(w)

-----------------------------------------------------------------------------
(***************************************************************************)
(* The steps that touch the disk, of a worker or of the startup.           *)
(***************************************************************************)
Touches(c) == drv[c] # NoDriver /\ (Stage(c) \/ Install(c) \/ Remove(c) \/ ClearError(c))

\* What is known of who touches it.
LEMMA Toucher ==
    ASSUME Typed, NEW c \in Callers, drv[c] # NoDriver
    PROVE  /\ drv[c] \in Drivers /\ Name(c) \in Names
           /\ c \notin {"none", "whole", "torn"}
           /\ staged \in [Drivers -> Files] /\ tmp \in [Names -> Files] /\ bin \in [Names -> Files]
           /\ src \in [Callers -> {"whole", "torn"}]
           /\ pc \in [Callers -> Free \cup Locked]
BY AtDriver, DriverAssumption DEF Typed, DataType, DiskType, LockInv

\* It goes to another step, and its driver stays.
Turns(c) == UNCHANGED <<record, schema, job, drv>> /\ \E b \in Free : pc' = [pc EXCEPT ![c] = b]

LEMMA TouchTurns ==
    ASSUME Typed, NEW c \in Callers, Touches(c)
    PROVE  Turns(c)
<1>1. Outside(c) /\ SameWork
  BY StageOutside, InstallOutside, RemoveOutside DEF Touches
<1>2. UNCHANGED <<record, schema>>
  BY StageFiles, InstallFiles, RemoveFiles DEF Touches, Typed, DataType, Filing
<1> QED
  BY <1>1, <1>2 DEF Turns, Outside, Moves, SameWork

\* A file of another driver or another name is left as it is.
Spares(c) == /\ \A d \in Drivers : d # drv[c] => staged'[d] = staged[d]
             /\ \A n \in Names : n # Name(c) => tmp'[n] = tmp[n] /\ bin'[n] = bin[n]
             /\ \A e \in Callers : e # c /\ drv[e] # drv[c] => src'[e] = src[e]

LEMMA TouchSpares ==
    ASSUME Typed, OpenFiles, NEW c \in Callers, Touches(c)
    PROVE  Spares(c)
<1>0. drv[c] # NoDriver
  BY DEF Touches
<1> USE <1>0, Toucher DEF Spares
<1>1. CASE GetError(c) \/ IsInstalled(c) \/ NameCache(c)
  BY <1>1 DEF GetError, IsInstalled, NameCache, store, binary
<1>2. CASE Download(c)
  <2>1. \A e \in Callers : e # c /\ drv[e] # drv[c] => src'[e] = src[e]
    BY <1>2 DEF Download
  <2>2. \A d \in Drivers : d # drv[c] => staged'[d] = staged[d]
    BY <1>2 DEF Download
  <2> QED
    BY <1>2, <2>1, <2>2 DEF Download, binary
<1>3. CASE CopyStaged(c)
  <2>1. \A d \in Drivers : d # drv[c] => staged[d] # c
    BY DEF OpenFiles
  <2> QED
    BY <1>3, <2>1 DEF CopyStaged, Closed, binary
<1>4. CASE Open(c)
  BY <1>4 DEF Open, store
<1>5. CASE Copy(c)
  <2>1. \A n \in Names : n # Name(c) => tmp[n] # c /\ bin[n] # c
    BY DEF OpenFiles, Opens
  <2>2. \A n \in Names : n # Name(c) => tmp'[n] = tmp[n] /\ bin'[n] = bin[n]
    BY <1>5, <2>1 DEF Copy, Closed
  <2> QED
    BY <1>5, <2>2 DEF Copy, store
<1>6. CASE Rename(c)
  BY <1>6 DEF Rename, store, binary
<1>7. CASE Remove(c) \/ ClearError(c)
  BY <1>7 DEF Remove, RemoveBinary, RemoveStaged, RemoveCache, ClearError, store, binary
<1> QED
  BY <1>1, <1>2, <1>3, <1>4, <1>5, <1>6, <1>7 DEF Touches, Stage, Install

\* Who is not writing may go anywhere, and work on anything.
LEMMA OthersOpen ==
    ASSUME Typed, OpenFiles, UNCHANGED <<staged, tmp, bin>>, NEW c \in Callers,
           pc[c] \notin {"copyStaged", "copy"},
           \A e \in Callers : e # c => pc'[e] = pc[e] /\ drv'[e] = drv[e]
    PROVE  OpenFiles'
BY DEF OpenFiles, Opens, Name

\* Files are opened for who writes them, and closed by the same.
LEMMA TouchOpens ==
    ASSUME Typed, OpenFiles, NEW c \in Callers, Touches(c)
    PROVE  OpenFiles'
<1>0. drv[c] # NoDriver
  BY DEF Touches
<1>1. /\ drv' = drv /\ \A e \in Callers : e # c => pc'[e] = pc[e]
      /\ \A d \in Drivers, e \in Callers : staged[d] = e => drv[e] = d /\ pc[e] = "copyStaged"
      /\ \A n \in Names, e \in Callers : tmp[n] = e => Opens(n, e)
      /\ \A n \in Names, e \in Callers : bin[n] = e => Opens(n, e) /\ tmp[n] # e
  BY <1>0, Toucher, TouchTurns DEF Turns, OpenFiles
<1>2. CASE UNCHANGED <<staged, tmp, bin>> /\ pc[c] \notin {"copyStaged", "copy"}
  BY <1>1, <1>2, OthersOpen
<1>3. CASE Download(c) /\ ~UNCHANGED <<staged, tmp, bin>>
  <2>1. staged' = [staged EXCEPT ![drv[c]] = c] /\ UNCHANGED <<tmp, bin>> /\ pc[c] = "download"
        /\ pc' = [pc EXCEPT ![c] = "copyStaged"]
    BY <1>3 DEF Download, StageFails, Step, Goto, binary
  <2>2. pc'[c] = "copyStaged"
    BY <2>1, Toucher, <1>0
  <2> QED
    BY <1>0, <1>1, <2>1, <2>2, Toucher DEF OpenFiles, Opens, Name
<1>4. CASE CopyStaged(c)
  <2>1. PICK f \in {"whole", "torn"} : staged' = Closed(staged, c, f)
    BY <1>4 DEF CopyStaged
  <2>2. UNCHANGED <<tmp, bin>> /\ pc[c] = "copyStaged"
    BY <1>4 DEF CopyStaged, StageFails, Step, binary
  <2>3. \A d \in Drivers : staged'[d] = IF staged[d] = c THEN f ELSE staged[d]
    BY <2>1, <1>0, Toucher DEF Closed
  <2>4. \A e \in Callers : e # f
    BY DriverAssumption
  <2> QED
    BY <1>0, <1>1, <2>2, <2>3, <2>4, Toucher DEF OpenFiles, Opens, Name
<1>5. CASE Open(c) /\ ~UNCHANGED <<staged, tmp, bin>>
  <2>1. UNCHANGED <<staged, bin>> /\ pc[c] = "open"
    BY <1>5 DEF Open, store
  <2>2. CASE tmp' = [tmp EXCEPT ![Name(c)] = c] /\ pc' = [pc EXCEPT ![c] = "copy"]
    <3>1. pc'[c] = "copy"
      BY <2>2, Toucher, <1>0
    <3> QED
      BY <1>0, <1>1, <2>1, <2>2, <3>1, Toucher DEF OpenFiles, Opens, Name
  <2>3. CASE tmp' = [tmp EXCEPT ![Name(c)] = "torn"]
    <3>1. \A e \in Callers : e # "torn"
      BY DriverAssumption
    <3> QED
      BY <1>0, <1>1, <2>1, <2>3, <3>1, Toucher DEF OpenFiles, Opens, Name
  <2> QED
    BY <1>5, <2>1, <2>2, <2>3 DEF Open, Goto
<1>6. CASE Copy(c)
  <2>1. PICK f \in {"whole", "torn"} : tmp' = Closed(tmp, c, f) /\ bin' = Closed(bin, c, f)
    BY <1>0, <1>6, Toucher DEF Copy
  <2>2. UNCHANGED staged /\ pc[c] = "copy"
    BY <1>6 DEF Copy, Step, store
  <2>3. \A n \in Names : /\ tmp'[n] = IF tmp[n] = c THEN f ELSE tmp[n]
                         /\ bin'[n] = IF bin[n] = c THEN f ELSE bin[n]
    BY <2>1, <1>0, Toucher DEF Closed
  <2>4. \A e \in Callers : e # f
    BY DriverAssumption
  <2> QED
    BY <1>0, <1>1, <2>2, <2>3, <2>4, Toucher DEF OpenFiles, Opens, Name
<1>7. CASE Rename(c) /\ ~UNCHANGED <<staged, tmp, bin>>
  <2>1. /\ UNCHANGED staged /\ pc[c] = "rename"
        /\ bin' = [bin EXCEPT ![Name(c)] = tmp[Name(c)]] /\ tmp' = [tmp EXCEPT ![Name(c)] = "none"]
    BY <1>7 DEF Rename, Step, store, binary
  <2>2. \A e \in Callers : e # "none"
    BY DriverAssumption
  <2> QED
    BY <1>0, <1>1, <2>1, <2>2, Toucher DEF OpenFiles, Opens, Name
<1>8. CASE Remove(c) /\ ~UNCHANGED <<staged, tmp, bin>>
  <2>1. /\ \/ staged' = [staged EXCEPT ![drv[c]] = "none"] /\ UNCHANGED bin
           \/ bin' = [bin EXCEPT ![Name(c)] = "none"] /\ UNCHANGED staged
        /\ UNCHANGED tmp /\ pc[c] \notin {"copyStaged", "copy"}
    BY <1>8 DEF Remove, RemoveBinary, RemoveStaged, RemoveCache, Step, store, binary
  <2>2. \A e \in Callers : e # "none"
    BY DriverAssumption
  <2> QED
    BY <1>0, <1>1, <2>1, <2>2, Toucher DEF OpenFiles, Opens, Name
<1>9. \/ UNCHANGED <<staged, tmp, bin>> /\ pc[c] \notin {"copyStaged", "copy"}
      \/ Download(c) \/ CopyStaged(c) \/ Open(c) \/ Copy(c) \/ Rename(c) \/ Remove(c)
  BY DEF Touches, Stage, Install, GetError, IsInstalled, NameCache, StageFails, ClearError, Step,
     store, binary
<1>10. /\ Download(c) \/ Open(c) \/ Rename(c) \/ Remove(c) => pc[c] \notin {"copyStaged", "copy"}
  BY DEF Download, StageFails, Open, Rename, Remove, RemoveBinary, RemoveStaged, RemoveCache, Step
<1> QED
  BY <1>2, <1>3, <1>4, <1>5, <1>6, <1>7, <1>8, <1>9, <1>10

\* Only what is not built in gets there.
LEMMA TouchBuiltin ==
    ASSUME Typed, NotBuiltin, NEW c \in Callers, Touches(c)
    PROVE  NotBuiltin'
<1>0. drv[c] # NoDriver
  BY DEF Touches
<1>1. PICK b \in Free : pc' = [pc EXCEPT ![c] = b] /\ drv' = drv
  BY TouchTurns DEF Turns
<1>2. pc'[c] = b /\ \A e \in Callers : e # c => pc'[e] = pc[e]
  BY <1>0, <1>1, Toucher
<1>3. b \in Downloading => pc[c] \in Downloading \/ drv[c] \notin Builtin
  <2>1. Staged(c) \notin Downloading /\ Installed(c) \notin Downloading /\ Erred(c) \notin Downloading
    BY DEF Staged, Installed, Erred, Downloading
  <2>2. CASE Stage(c)
    BY <1>2, <2>1, <2>2, <1>0, Toucher DEF Stage, GetError, IsInstalled, Download, CopyStaged, NameCache, StageFails,
       Step, Goto, IsBuiltin, Downloading
  <2>3. CASE Install(c)
    BY <1>2, <2>1, <2>3, <1>0, Toucher DEF Install, Open, Copy, Rename, Step, Goto, IsBuiltin, Downloading
  <2>4. CASE Remove(c) \/ ClearError(c)
    BY <1>2, <2>4, <1>0, Toucher DEF Remove, RemoveBinary, RemoveStaged, RemoveCache, ClearError, Step, Goto,
       Downloading
  <2> QED
    BY <2>2, <2>3, <2>4 DEF Touches
<1> QED
  BY <1>1, <1>2, <1>3 DEF NotBuiltin

-----------------------------------------------------------------------------
(***************************************************************************)
(* The steps of a handler.                                                 *)
(***************************************************************************)

\* A worker at work.
LEMMA AtJob ==
    ASSUME Typed, OnCourse, NEW w \in Workers, drv[w] # NoDriver
    PROVE  /\ w \in Callers /\ w # Startup /\ drv[w] \in Drivers /\ Name(w) \in Names
           /\ job[w] \in {"activate", "deactivate", "remove", "error"}
           /\ pc[w] \in Course[job[w]]
<1>1. w \in Callers /\ w # Startup
  BY DriverAssumption DEF Callers
<1>2. drv[w] \in Drivers /\ job[w] \in Events
  BY <1>1 DEF Typed, WorkInv
<1> QED
  BY <1>1, <1>2 DEF OnCourse, Events, Settled, Name, Names

\* The files are opened by activations that have checked the name.
LEMMA OpenedChecked ==
    ASSUME Typed, OnCourse, NEW w \in Workers, Opened(w)
    PROVE  job[w] = "activate" /\ pc[w] \in Checked
<1>1. job[w] \in {"activate", "deactivate", "remove", "error"} /\ pc[w] \in Course[job[w]]
  BY AtJob DEF Opened
<1>2. CASE pc[w] \in {"copy", "rename", "genLock", "version"} \cup Generating
  <2>1. job[w] = "activate"
    BY <1>1, <1>2 DEF Course, Generating, Uploading, Writing
  <2> QED
    BY <1>2, <2>1 DEF Checked, Flagged, Created, Generating
<1>3. CASE job[w] = "activate" /\ pc[w] \in Created
  BY <1>3 DEF Checked, Flagged
<1> QED
  BY <1>2, <1>3 DEF Opened, Past

\* The steps of a handler that do not touch the disk.
Calls(w) == \/ GetDriver(w) \/ NameCheck(w) \/ GetToRemove(w) \/ PublishReply(w) \/ ErrorReply(w)
            \/ GenerateAndUploadSchema(w) \/ GetVersion(w) \/ RemoveSchemas(w)
            \/ UploadMachineSchemas(w)

\* A handler touches it or calls Cattle.
LEMMA TouchOrCall ==
    ASSUME NEW w \in Workers, Handle(w)
    PROVE  Touches(w) \/ (Calls(w) /\ UNCHANGED <<disk, src>>)
<1>1. CASE GetDriver(w) \/ NameCheck(w) \/ GetToRemove(w) \/ PublishReply(w) \/ ErrorReply(w)
  BY <1>1 DEF GetDriver, NameCheck, GetToRemove, PublishReply, ErrorReply, Calls
<1>2. CASE GenerateAndUploadSchema(w) \/ GetVersion(w) \/ RemoveSchemas(w) \/ UploadMachineSchemas(w)
  BY <1>2 DEF GenerateAndUploadSchema, GenLock, GetCreateFlags, RemoveConfig, CreateConfig,
     GetVersion, RemoveSchemas, UploadMachineSchemas, UploadLock, ListDrivers, RemoveHost,
     UploadHost, rest, Calls
<1> QED
  BY <1>1, <1>2 DEF Handle, Touches

\* What the step of w leaves alone of a driver that is not its own.
Confined(w) ==
    /\ Spares(w)
    /\ \A d \in Drivers : d # drv[w] =>
           /\ dstate'[d] = dstate[d] /\ named'[d] = named[d]
           /\ NameOf[d] \in config' <=> NameOf[d] \in config
    /\ \A c \in Callers : c # w => pc'[c] = pc[c] /\ drv'[c] = drv[c] /\ job'[c] = job[c]

LEMMA HandlerConfined ==
    ASSUME Typed, OpenFiles, OnCourse, OwnNames, NEW w \in Workers, Handle(w)
    PROVE  Confined(w)
<1>1. w \in Callers /\ drv[w] \in Drivers /\ drv[w] # NoDriver /\ pc[w] \in Course[job[w]]
      /\ Name(w) \in Names
  BY AtJob DEF Handle
<1>2. Spares(w)
  <2>1. CASE UNCHANGED <<disk, src>>
    BY <2>1 DEF Spares, disk, store, binary
  <2> QED
    BY <1>1, <2>1, TouchOrCall, TouchSpares
<1>3. \A c \in Callers : c # w => pc'[c] = pc[c] /\ drv'[c] = drv[c] /\ job'[c] = job[c]
  <2>1. GoesOn(w) \/ Finish(w)
    BY <1>1, CourseStep DEF Typed
  <2> QED
    BY <2>1 DEF GoesOn, SameWork, Finish, Goto, Typed, LockInv, WorkInv
<1>4. ASSUME NEW d \in Drivers, d # drv[w]
      PROVE  dstate'[d] = dstate[d] /\ named'[d] = named[d]
  <2>1. CASE UNCHANGED record
    BY <2>1 DEF record
  <2>2. CASE Replies(w)
    <3>1. \/ UNCHANGED <<dstate, named>>
          \/ /\ \E s : dstate' = [dstate EXCEPT ![drv[w]] = s]
             /\ \E s : named' = [named EXCEPT ![drv[w]] = s]
          \/ /\ \E s : dstate' = [dstate EXCEPT ![drv[w]] = s]
             /\ named' = named
      BY <2>2 DEF Replies, Answered, Refused, record
    <3> QED
      BY <1>4, <3>1 DEF Typed, DataType, RecordType
  <2> QED
    BY <2>1, <2>2, RecordStep
<1>5. config' \in {config, config \cup {Name(w)}, config \ {Name(w)}}
  <2>1. CASE Touches(w)
    BY <1>1, <2>1, TouchTurns DEF Turns, schema
  <2>2. CASE GetDriver(w) \/ NameCheck(w) \/ GetToRemove(w) \/ PublishReply(w) \/ ErrorReply(w)
    BY <2>2 DEF GetDriver, NameCheck, GetToRemove, PublishReply, ErrorReply, others, schema
  <2>3. CASE GenerateAndUploadSchema(w) \/ GetVersion(w) \/ RemoveSchemas(w) \/ UploadMachineSchemas(w)
    BY <2>3 DEF GenerateAndUploadSchema, GenLock, GetCreateFlags, RemoveConfig, CreateConfig,
       GetVersion, RemoveSchemas, Described, UploadMachineSchemas, UploadLock, ListDrivers,
       RemoveHost, UploadHost, schema
  <2> QED
    BY <2>1, <2>2, <2>3, TouchOrCall DEF Calls
<1>6. ASSUME NEW d \in Drivers, d # drv[w]
      PROVE  NameOf[d] \in config' <=> NameOf[d] \in config
  <2>1. NameOf[d] # Name(w)
    BY <1>1, <1>6 DEF OwnNames, Name
  <2> QED
    BY <1>5, <2>1
<1> QED
  BY <1>2, <1>3, <1>4, <1>6 DEF Confined

\* So a worker sees nothing of the steps of another.
LEMMA OthersUnaware ==
    ASSUME Typed, Held, OnCourse, OwnNames, NEW v \in Workers, Confined(v), drv[v] # NoDriver,
           NEW w \in Workers, w # v, Activates(w), AtFiles(w)
    PROVE  Activates(w)' /\ AtFiles(w)'
<1>1. v \in Callers /\ w \in Callers /\ Startup \in Callers /\ v # Startup
  BY DriverAssumption DEF Callers
<1>2. /\ pc'[w] = pc[w] /\ drv'[w] = drv[w] /\ job'[w] = job[w]
      /\ pc'[Startup] = pc[Startup] /\ drv'[Startup] = drv[Startup]
  BY <1>1 DEF Confined
<1>3. SUFFICES ASSUME drv[w] # NoDriver
               PROVE  Activates(w)' /\ AtFiles(w)'
  BY <1>2 DEF Activates, AtFiles, Opened
<1>4. drv[w] \in Drivers /\ drv[v] \in Drivers /\ drv[w] # drv[v]
  BY <1>3, AtJob DEF Held
<1>5. Name(w) # Name(v) /\ Name(w) \in Names
  BY <1>4 DEF OwnNames, Name, Names
<1>6. /\ dstate'[drv[w]] = dstate[drv[w]] /\ staged'[drv[w]] = staged[drv[w]]
      /\ Name(w) \in config' <=> Name(w) \in config
      /\ tmp'[Name(w)] = tmp[Name(w)] /\ bin'[Name(w)] = bin[Name(w)]
      /\ src'[w] = src[w]
      /\ drv[Startup] = drv[w] => src'[Startup] = src[Startup]
  BY <1>1, <1>4, <1>5 DEF Confined, Spares, Name
<1>7. Name(w)' = Name(w) /\ (Past(w)' <=> Past(w)) /\ (Opened(w)' <=> Opened(w))
  BY <1>2 DEF Name, Past, Opened
<1>8. Activates(w)'
  BY <1>2, <1>6, <1>7 DEF Activates, Runs, Name
<1>9. (Complete(w)' <=> Complete(w)) /\ (StagedToo(w)' <=> StagedToo(w))
      /\ (TmpToo(w)' <=> TmpToo(w)) /\ (WholeToo(w)' <=> WholeToo(w))
  BY <1>2, <1>6, <1>7 DEF Complete, StagedToo, TmpToo, WholeToo
<1> QED
  BY <1>2, <1>6, <1>7, <1>8, <1>9 DEF AtFiles

\* A step to b that leaves Cattle's record of the driver alone.
LEMMA StepActs ==
    ASSUME Typed, NEW w \in Workers, w \in Callers, NEW b,
           pc' = [pc EXCEPT ![w] = b], UNCHANGED <<dstate, job, drv>>,
           job[w] = "activate" /\ b \in Checked => dstate[drv[w]] # "active",
           job[w] = "activate" /\ b \in Flagged => Runs(drv[w])',
           job[w] = "activate" /\ b \in Created => Name(w) \in config'
    PROVE  Activates(w)'
<1>1. pc'[w] = b
  BY DEF Typed, LockInv
<1> QED
  BY <1>1 DEF Activates, Runs, Name

\* The steps of a handler: which are of an activation, and where they lead.
LEMMA TouchActs ==
    ASSUME Typed, OnCourse, NEW w \in Workers, Touches(w), Activates(w)
    PROVE  Activates(w)'
<1>0. drv[w] # NoDriver
  BY DEF Touches
<1>1. UNCHANGED <<dstate, config, job, drv>>
  BY <1>0, AtJob, TouchTurns DEF Turns, record, schema
<1>2. CASE Stage(w) \/ ClearError(w)
  <2>1. PICK b \in {"isInstalled", "download", "copyStaged", "nameCache", "nameCheck", "errorReply",
                    "publish"} :
            pc' = [pc EXCEPT ![w] = b] /\ (job[w] = "activate" => b # "publish")
    <3>1. CASE Stage(w)
      BY <1>0, <3>1, AtJob DEF Stage, GetError, IsInstalled, Download, CopyStaged, NameCache,
         StageFails, Staged, Erred, Step, Goto
    <3>2. CASE ClearError(w)
      <4>1. job[w] # "activate"
        BY <1>0, <3>2, AtJob DEF ClearError, Step, Course, Generating, Uploading, Writing
      <4> QED
        BY <3>2, <4>1 DEF ClearError, Step, Goto
    <3> QED
      BY <1>2, <3>1, <3>2
  <2>2. job[w] = "activate" => b \notin Checked /\ b \notin Flagged /\ b \notin Created
    BY <2>1 DEF Checked, Flagged, Created, Uploading, Writing
  <2> QED
    BY <1>0, <1>1, <2>1, <2>2, AtJob, StepActs
<1>3. CASE Install(w)
  <2>1. job[w] = "activate" /\ pc[w] \in {"open", "copy", "rename"}
    <3>1. pc[w] \in {"open", "copy", "rename"}
      BY <1>3 DEF Install, Open, Copy, Rename, Step
    <3> QED
      BY <1>0, <3>1, AtJob DEF Course, Generating, Uploading, Writing
  <2>2. dstate[drv[w]] # "active"
    BY <1>0, <2>1 DEF Activates, Checked
  <2>3. PICK b \in {"copy", "rename", "genLock", "errorReply"} : pc' = [pc EXCEPT ![w] = b]
    BY <1>0, <1>3, AtJob DEF Install, Open, Copy, Rename, Installed, Erred, Step, Goto
  <2>4. b \notin Flagged /\ b \notin Created
    BY DEF Flagged, Created, Uploading, Writing
  <2> QED
    BY <1>0, <1>1, <2>2, <2>3, <2>4, AtJob, StepActs
<1>4. CASE Remove(w)
  <2>1. job[w] # "activate"
    <3>1. pc[w] \in {"rmBin", "rmStaged", "rmCache"}
      BY <1>4 DEF Remove, RemoveBinary, RemoveStaged, RemoveCache, Step
    <3> QED
      BY <1>0, <3>1, AtJob DEF Course, Generating, Uploading, Writing
  <2> QED
    BY <1>1, <2>1 DEF Activates
<1> QED
  BY <1>2, <1>3, <1>4 DEF Touches

\* The check of the name finds the driver itself, if that is active.
LEMMA CallActs ==
    ASSUME Typed, OnCourse, Named, NEW w \in Workers, drv[w] # NoDriver, Calls(w),
           UNCHANGED <<disk, src>>, Activates(w)
    PROVE  Activates(w)'
<1>0. bin' = bin
  BY DEF disk, binary
<1>1. CASE GetDriver(w) \/ PublishReply(w) \/ ErrorReply(w)
  <2>1. CASE Finish(w)
    <3>1. drv'[w] = NoDriver
      BY <2>1, AtJob DEF Finish, Typed, WorkInv
    <3> QED
      BY <3>1 DEF Activates
  <2>2. CASE ~Finish(w)
    <3>1. PICK b \in {"getError", "rmSchemas", "clearError", "errorReply"} : Goto(w, b)
      <4>1. First[job[w]] \in {"getError", "rmSchemas", "clearError"}
        BY AtJob DEF First
      <4> QED
        BY <1>1, <2>2, <4>1 DEF GetDriver, PublishReply, ErrorReply, Step
    <3>2. pc'[w] = b
      BY <3>1, AtJob DEF Goto, Typed, LockInv
    <3>3. b \notin Checked /\ b \notin Flagged /\ b \notin Created
      BY DEF Checked, Flagged, Created, Uploading, Writing
    <3> QED
      BY <3>2, <3>3 DEF Activates
  <2> QED
    BY <2>1, <2>2
<1>2. CASE NameCheck(w)
  <2>1. UNCHANGED <<dstate, named, job, drv, config>>
    BY <1>2 DEF NameCheck, others, record, schema
  <2>2. PICK b \in {"open", "errorReply"} :
            pc' = [pc EXCEPT ![w] = b] /\ (b = "open" => dstate[drv[w]] # "active")
    BY <1>2, AtJob DEF NameCheck, Step, Goto, Active, Name, Named
  <2>3. b \notin Flagged /\ b \notin Created /\ (b \in Checked => b = "open")
    BY DEF Checked, Flagged, Created, Uploading, Writing
  <2> QED
    BY <2>1, <2>2, <2>3, AtJob, StepActs
<1>3. CASE GenerateAndUploadSchema(w) \/ GetVersion(w)
  <2>1. UNCHANGED <<dstate, named, job, drv>>
    BY <1>3 DEF GenerateAndUploadSchema, GenLock, GetCreateFlags, RemoveConfig, CreateConfig,
       GetVersion, rest, record
  <2>2. /\ pc[w] \in {"genLock", "flags", "removeConfig", "createConfig", "version"}
        /\ job[w] = "activate"
    <3>1. pc[w] \in {"genLock", "flags", "removeConfig", "createConfig", "version"}
      BY <1>3 DEF GenerateAndUploadSchema, GenLock, GetCreateFlags, RemoveConfig, CreateConfig,
         SchemaFails, GetVersion, Step
    <3> QED
      BY <3>1, AtJob DEF Course, Uploading, Writing
  <2>3. dstate[drv[w]] # "active"
    BY <2>2 DEF Activates, Checked, Flagged, Created
  <2>4. PICK b \in {"flags", "removeConfig", "createConfig", "version", "uploadLock", "errorReply"} :
            /\ pc' = [pc EXCEPT ![w] = b]
            /\ b \in {"removeConfig", "createConfig", "version", "uploadLock"} => Runs(drv[w])'
            /\ b \in {"version", "uploadLock"} => Name(w) \in config'
    <3>1. CASE GenLock(w)
      BY <3>1 DEF GenLock, Step, Goto
    <3>2. CASE GetCreateFlags(w)
      BY <1>0, <2>1, <3>2 DEF GetCreateFlags, SchemaFails, Step, Goto, Runs
    <3>3. CASE RemoveConfig(w) \/ CreateConfig(w) \/ GetVersion(w)
      <4>1. Runs(drv[w])' /\ (pc[w] = "version" => Name(w) \in config)
        BY <1>0, <2>1, <2>2, <3>3, AtJob
        DEF RemoveConfig, CreateConfig, GetVersion, SchemaFails, Step, Runs, Activates, Flagged,
            Created
      <4> QED
        BY <2>1, <3>3, <4>1
        DEF RemoveConfig, CreateConfig, GetVersion, SchemaFails, Step, Goto, schema, Name
    <3> QED
      BY <1>3, <3>1, <3>2, <3>3 DEF GenerateAndUploadSchema
  <2>5. /\ b \in Flagged => b \in {"removeConfig", "createConfig", "version", "uploadLock"}
        /\ b \in Created => b \in {"version", "uploadLock"}
    BY DEF Flagged, Created, Uploading, Writing
  <2> QED
    BY <2>1, <2>3, <2>4, <2>5, AtJob, StepActs
<1>4. CASE RemoveSchemas(w) \/ GetToRemove(w)
  <2>1. UNCHANGED <<job, drv>>
    BY <1>4 DEF RemoveSchemas, GetToRemove, others, rest
  <2>2. job[w] # "activate"
    <3>1. pc[w] \in {"rmSchemas", "getToRemove"}
      BY <1>4 DEF RemoveSchemas, GetToRemove, Step
    <3> QED
      BY <3>1, AtJob DEF Course, Generating, Uploading, Writing
  <2> QED
    BY <2>1, <2>2 DEF Activates
<1>5. CASE UploadMachineSchemas(w)
  <2>1. UNCHANGED <<dstate, job, drv, config>>
    BY <1>5 DEF UploadMachineSchemas, UploadLock, ListDrivers, RemoveHost, UploadHost, rest, record,
       schema
  <2>2. PICK b \in {"list", "publish", "errorReply"} \cup Uploading :
            pc' = [pc EXCEPT ![w] = b] /\ pc[w] \in {"uploadLock", "list"} \cup Uploading
    <3>1. CASE UploadLock(w) \/ ListDrivers(w) \/ RemoveHost(w)
      BY <3>1, UploadsAre DEF UploadLock, ListDrivers, RemoveHost, SchemaFails, Step, Goto, Uploading,
         Writing
    <3>2. ASSUME NEW i \in 1..Len(Uploads), UploadHost(w, i)
          PROVE  /\ pc[w] \in Uploading
                 /\ \E b \in {"publish", "errorReply"} \cup Uploading : pc' = [pc EXCEPT ![w] = b]
      <4>1. Uploads[i] \in Uploading /\ AfterUpload(i) \in {"publish"} \cup Uploading
        BY UploadsAre DEF AfterUpload, Uploading, Writing
      <4> QED
        BY <3>2, <4>1 DEF UploadHost, SchemaFails, Step, Goto
    <3> QED
      BY <1>5, <3>1, <3>2 DEF UploadMachineSchemas
  <2>3. pc[w] \in Checked /\ pc[w] \in Flagged /\ pc[w] \in Created
    BY <2>2 DEF Checked, Flagged, Created
  <2> QED
    BY <1>0, <2>1, <2>2, <2>3, AtJob, StepActs DEF Activates, Runs, Name
<1> QED
  BY <1>1, <1>2, <1>3, <1>4, <1>5 DEF Calls

\* Past the files, a handler goes on without them.
LEMMA CallPast ==
    ASSUME Typed, OnCourse, NEW w \in Workers, drv[w] # NoDriver, Calls(w), Opened(w)'
    PROVE  Past(w) /\ Past(w)' /\ drv'[w] = drv[w]
<1>0. w \in Callers /\ pc \in [Callers -> Free \cup Locked]
  BY AtJob DEF Typed, LockInv
<1>1. CASE GetDriver(w) \/ PublishReply(w) \/ ErrorReply(w)
  <2>1. drv'[w] # NoDriver /\ ~Finish(w)
    BY <1>0 DEF Opened, Finish, Typed, WorkInv
  <2>2. PICK b \in {"getError", "rmSchemas", "clearError", "errorReply"} : Goto(w, b)
    <3>1. First[job[w]] \in {"getError", "rmSchemas", "clearError"}
      BY <1>1, <2>1, AtJob DEF First, GetDriver, PublishReply, ErrorReply
    <3> QED
      BY <1>1, <2>1, <3>1 DEF GetDriver, PublishReply, ErrorReply, Step
  <2>3. pc'[w] = b
    BY <1>0, <2>2 DEF Goto
  <2> QED
    BY <2>3 DEF Opened, Past, Created, Generating, Uploading, Writing
<1>2. CASE NameCheck(w)
  <2>1. pc'[w] \in {"open", "errorReply"}
    BY <1>0, <1>2 DEF NameCheck, Step, Goto
  <2> QED
    BY <2>1 DEF Opened, Past, Created, Generating, Uploading, Writing
<1>3. CASE GenerateAndUploadSchema(w) \/ GetVersion(w)
  <2>1. UNCHANGED <<job, drv>>
    BY <1>3 DEF GenerateAndUploadSchema, GenLock, GetCreateFlags, RemoveConfig, CreateConfig,
       GetVersion, rest
  <2>2. /\ pc[w] \in {"genLock", "flags", "removeConfig", "createConfig", "version"}
        /\ pc'[w] \in {"flags", "removeConfig", "createConfig", "version", "uploadLock", "errorReply"}
    BY <1>0, <1>3 DEF GenerateAndUploadSchema, GenLock, GetCreateFlags, RemoveConfig, CreateConfig,
       SchemaFails, GetVersion, Step, Goto
  <2>3. Past(w)
    BY <2>2 DEF Past, Generating
  <2>4. Past(w)'
    BY <2>2 DEF Opened
  <2> QED
    BY <2>1, <2>3, <2>4
<1>4. CASE RemoveSchemas(w) \/ GetToRemove(w)
  <2>1. UNCHANGED <<job, drv>> /\ pc[w] \in {"rmSchemas", "getToRemove"}
    BY <1>4 DEF RemoveSchemas, GetToRemove, others, rest, Step
  <2>2. job'[w] # "activate"
    BY <2>1, AtJob DEF Course, Generating, Uploading, Writing, RemoveSchemas, GetToRemove
  <2>3. pc'[w] \in {"getToRemove", "rmBin", "uploadLock", "errorReply"}
    BY <1>0, <1>4 DEF RemoveSchemas, GetToRemove, Step, Goto
  <2> QED
    BY <2>2, <2>3 DEF Opened, Past, Generating
<1>5. CASE UploadMachineSchemas(w)
  <2>1. UNCHANGED <<job, drv>>
    BY <1>5 DEF UploadMachineSchemas, UploadLock, ListDrivers, RemoveHost, UploadHost, rest
  <2>2. /\ pc'[w] \in {"list", "publish", "errorReply"} \cup Uploading
        /\ pc[w] \in {"uploadLock", "list"} \cup Uploading
    <3>1. CASE UploadLock(w) \/ ListDrivers(w) \/ RemoveHost(w)
      BY <1>0, <3>1, UploadsAre DEF UploadLock, ListDrivers, RemoveHost, SchemaFails, Step, Goto,
         Uploading, Writing
    <3>2. ASSUME NEW i \in 1..Len(Uploads), UploadHost(w, i)
          PROVE  pc[w] \in Uploading /\ pc'[w] \in {"publish", "errorReply"} \cup Uploading
      <4>1. Uploads[i] \in Uploading /\ AfterUpload(i) \in {"publish"} \cup Uploading
        BY UploadsAre DEF AfterUpload, Uploading, Writing
      <4> QED
        BY <1>0, <3>2, <4>1 DEF UploadHost, SchemaFails, Step, Goto
    <3> QED
      BY <1>5, <3>1, <3>2 DEF UploadMachineSchemas
  <2>3. job'[w] = "activate" /\ Past(w)'
    BY <2>2 DEF Opened, Past, Generating, Uploading, Writing
  <2> QED
    BY <2>1, <2>2, <2>3 DEF Past, Created
<1> QED
  BY <1>1, <1>2, <1>3, <1>4, <1>5 DEF Calls

\* ... and finds them as they were.
LEMMA CallFiles ==
    ASSUME Typed, OnCourse, NEW w \in Workers, drv[w] # NoDriver, Calls(w),
           UNCHANGED <<disk, src>>, pc'[Startup] = pc[Startup], drv'[Startup] = drv[Startup],
           AtFiles(w)
    PROVE  AtFiles(w)'
<1>1. SUFFICES ASSUME Opened(w)', drv'[w] \notin Builtin
               PROVE  AtFiles(w)'
  BY DEF AtFiles
<1>2. Past(w) /\ Past(w)' /\ drv'[w] = drv[w] /\ Name(w)' = Name(w)
  BY <1>1, CallPast DEF Name
<1>3. UNCHANGED <<staged, tmp, bin, src>>
  BY DEF disk, store, binary
<1>4. pc'[w] \notin {"copy", "rename"} /\ pc[w] \notin {"copy", "rename"}
  BY <1>2 DEF Past, Created, Generating, Uploading, Writing
<1>5. (Complete(w)' <=> Complete(w)) /\ (StagedToo(w)' <=> StagedToo(w))
      /\ (TmpToo(w)' <=> TmpToo(w)) /\ (WholeToo(w)' <=> WholeToo(w))
  BY <1>2, <1>3, <1>4 DEF Complete, StagedToo, TmpToo, WholeToo
<1> QED
  BY <1>1, <1>2, <1>3, <1>5 DEF AtFiles, Opened

\* The "-tmp" file is opened, written and moved by the handler.
LEMMA TouchFiles ==
    ASSUME Typed, OnCourse, NEW w \in Workers, Touches(w),
           pc'[Startup] = pc[Startup], drv'[Startup] = drv[Startup], AtFiles(w)
    PROVE  AtFiles(w)'
<1>0. /\ drv[w] # NoDriver /\ w \in Callers /\ w # Startup /\ Startup \in Callers
      /\ Name(w) \in Names /\ drv[w] \in Drivers
      /\ w \notin {"none", "whole", "torn"}
      /\ staged \in [Drivers -> Files] /\ tmp \in [Names -> Files] /\ bin \in [Names -> Files]
      /\ src \in [Callers -> {"whole", "torn"}]
      /\ pc \in [Callers -> Free \cup Locked]
  BY AtJob, Toucher DEF Touches, Callers
<1>1. UNCHANGED <<job, drv>> /\ Name(w)' = Name(w)
  BY <1>0, TouchTurns DEF Turns, Name
<1>2. SUFFICES ASSUME Opened(w)', drv[w] \notin Builtin
               PROVE  AtFiles(w)'
  BY <1>1 DEF AtFiles
<1>3. CASE Open(w)
  <2>1. /\ pc'[w] = "copy" /\ staged' = staged /\ staged[drv[w]] # "none"
        /\ tmp' = [tmp EXCEPT ![Name(w)] = w]
        /\ src' = [src EXCEPT ![w] = IF staged[drv[w]] = "whole" THEN "whole" ELSE "torn"]
    <3>1. pc'[w] # "errorReply"
      BY <1>2 DEF Opened, Past, Created, Generating, Uploading, Writing
    <3> QED
      BY <1>0, <1>2, <1>3, <3>1 DEF Open, Goto, Erred, IsBuiltin, store
  <2>2. ~Past(w)'
    BY <2>1 DEF Past, Created, Generating, Uploading, Writing
  <2>3. Complete(w)' => staged'[drv[w]] = "whole"
    BY <1>0, <1>1, <2>1, <2>2 DEF Complete
  <2> QED
    BY <1>1, <2>1, <2>2, <2>3 DEF AtFiles, StagedToo
<1>4. CASE Copy(w)
  <2>1. /\ pc[w] = "copy" /\ pc'[w] = "rename" /\ staged' = staged
        /\ tmp' = Closed(tmp, w, src[w])
    <3>1. pc'[w] # "errorReply"
      BY <1>2 DEF Opened, Past, Created, Generating, Uploading, Writing
    <3> QED
      BY <1>0, <1>4, <3>1 DEF Copy, Step, Goto, Erred, store
  <2>2. ~Past(w)'
    BY <2>1 DEF Past, Created, Generating, Uploading, Writing
  <2>3. Complete(w)' => Complete(w)
    BY <1>0, <1>1, <2>1, <2>2 DEF Complete, Closed
  <2>4. StagedToo(w)' <=> StagedToo(w)
    BY <1>1, <2>1 DEF StagedToo
  <2> QED
    BY <1>0, <1>1, <1>2, <2>1, <2>2, <2>3, <2>4 DEF AtFiles, Opened
<1>5. CASE Rename(w)
  <2>1. /\ pc[w] = "rename" /\ pc'[w] = "genLock" /\ staged' = staged /\ src' = src
        /\ bin' = [bin EXCEPT ![Name(w)] = tmp[Name(w)]] /\ tmp' = [tmp EXCEPT ![Name(w)] = "none"]
    <3>1. pc'[w] # "errorReply"
      BY <1>2 DEF Opened, Past, Created, Generating, Uploading, Writing
    <3> QED
      BY <1>0, <1>5, <3>1 DEF Rename, Step, Goto, Erred, Installed, store
  <2>2. tmp'[Name(w)] = "none" /\ bin'[Name(w)] = tmp[Name(w)]
    BY <1>0, <2>1
  <2>3. Complete(w)' => Complete(w)
    BY <1>1, <2>1, <2>2 DEF Complete
  <2>4. StagedToo(w)' <=> StagedToo(w)
    BY <1>1, <2>1 DEF StagedToo
  <2>5. TmpToo(w)' /\ WholeToo(w)'
    BY <1>0, <1>1, <2>2, DriverAssumption DEF TmpToo, WholeToo
  <2> QED
    BY <1>0, <1>1, <1>2, <2>1, <2>3, <2>4, <2>5 DEF AtFiles, Opened
<1>6. CASE Stage(w) \/ Remove(w) \/ ClearError(w)
  <2>1. pc'[w] \in {"isInstalled", "download", "copyStaged", "nameCache", "nameCheck", "errorReply",
                    "rmStaged", "rmCache", "uploadLock", "publish"}
    BY <1>0, <1>6 DEF Stage, GetError, IsInstalled, Download, CopyStaged, NameCache, StageFails,
       Staged, Erred, Remove, RemoveBinary, RemoveStaged, RemoveCache, ClearError, Step, Goto
  <2>2. pc'[w] \in {"uploadLock", "publish"} => job[w] # "activate"
    <3>1. pc'[w] \in {"uploadLock", "publish"} => pc[w] \in {"rmBin", "rmCache", "clearError"}
      BY <1>0, <1>6 DEF Stage, GetError, IsInstalled, Download, CopyStaged, NameCache, StageFails,
         Staged, Erred, Remove, RemoveBinary, RemoveStaged, RemoveCache, ClearError, Step, Goto
    <3> QED
      BY <1>0, <3>1, AtJob DEF Course, Generating, Uploading, Writing
  <2>3. ~Opened(w)'
    BY <1>1, <2>1, <2>2 DEF Opened, Past, Created, Generating, Uploading, Writing
  <2> QED
    BY <1>2, <2>3
<1> QED
  BY <1>3, <1>4, <1>5, <1>6 DEF Touches, Install

\* Calls are made between the steps that write.
LEMMA CallOutside ==
    ASSUME Typed, OnCourse, NEW w \in Workers, drv[w] # NoDriver, Calls(w)
    PROVE  pc[w] \notin {"copyStaged", "copy"} /\ pc'[w] \notin Downloading
<1>0. w \in Callers /\ pc \in [Callers -> Free \cup Locked]
  BY AtJob DEF Typed, LockInv
<1> USE DEF Downloading, Step, Goto
<1>1. CASE GetDriver(w)
  <2>1. First[job[w]] \in {"getError", "rmSchemas", "clearError"}
    BY AtJob DEF First
  <2> QED
    BY <1>0, <1>1, <2>1 DEF GetDriver, Finish
<1>2. CASE NameCheck(w) \/ GetToRemove(w) \/ PublishReply(w) \/ ErrorReply(w)
  BY <1>0, <1>2 DEF NameCheck, GetToRemove, PublishReply, ErrorReply, Finish
<1>3. CASE GenerateAndUploadSchema(w) \/ GetVersion(w) \/ RemoveSchemas(w)
  BY <1>0, <1>3 DEF GenerateAndUploadSchema, GenLock, GetCreateFlags, RemoveConfig, CreateConfig,
     SchemaFails, GetVersion, RemoveSchemas
<1>4. CASE UploadLock(w) \/ ListDrivers(w) \/ RemoveHost(w)
  BY <1>0, <1>4, UploadsAre DEF UploadLock, ListDrivers, RemoveHost, SchemaFails
<1>5. ASSUME NEW i \in 1..Len(Uploads), UploadHost(w, i)
      PROVE  pc[w] \notin {"copyStaged", "copy"} /\ pc'[w] \notin Downloading
  <2>1. Uploads[i] \in Writing /\ AfterUpload(i) \in {"publish"} \cup Writing
    BY UploadsAre DEF AfterUpload, Writing
  <2> QED
    BY <1>0, <1>5, <2>1 DEF UploadHost, SchemaFails, Writing
<1> QED
  BY <1>1, <1>2, <1>3, <1>4, <1>5 DEF Calls, UploadMachineSchemas

\* A driver is named when it becomes active.
LEMMA HandlerNames ==
    ASSUME Typed, OnCourse, Named, NEW w \in Workers, Handle(w)
    PROVE  Named'
<1>0. drv[w] \in Drivers /\ job[w] \in {"activate", "deactivate", "remove", "error"}
  BY AtJob DEF Handle
<1>1. dstate \in [Drivers -> DriverStates] /\ named \in [Drivers -> BOOLEAN]
  BY DEF Typed, DataType, RecordType
<1>2. CASE UNCHANGED record
  BY <1>2 DEF Named, record
<1>3. CASE Answered(drv[w], job[w]) /\ ~UNCHANGED record
  <2>1. /\ dstate' = [dstate EXCEPT ![drv[w]] = Settled[job[w]]]
        /\ named' = [named EXCEPT ![drv[w]] = @ \/ job[w] = "activate"]
    BY <1>3 DEF Answered
  <2>2. \A d \in Drivers : d # drv[w] => dstate'[d] = dstate[d] /\ named'[d] = named[d]
    BY <1>0, <1>1, <2>1
  <2>3. dstate'[drv[w]] = Settled[job[w]]
    BY <1>0, <1>1, <2>1
  <2>4. job[w] = "activate" => named'[drv[w]] = TRUE
    BY <1>0, <1>1, <2>1, Zenon
  <2>5. dstate'[drv[w]] = "active" => job[w] = "activate"
    BY <1>0, <2>3 DEF Settled
  <2> QED
    BY <2>2, <2>4, <2>5 DEF Named
<1>4. CASE Refused(drv[w], job[w]) /\ ~UNCHANGED record
  <2>1. dstate' = [dstate EXCEPT ![drv[w]] = "erroring"] /\ named' = named
    BY <1>4 DEF Refused
  <2>2. \A d \in Drivers : dstate'[d] = "active" => dstate[d] = "active"
    BY <1>0, <1>1, <2>1
  <2> QED
    BY <2>1, <2>2 DEF Named
<1> QED
  BY <1>2, <1>3, <1>4, RecordStep DEF Replies

\* A worker that goes on keeps its driver; one that ends has none.
LEMMA HandlerHeld ==
    ASSUME Typed, Held, OnCourse, NEW w \in Workers, Handle(w)
    PROVE  Held' /\ OnCourse'
<1>0. Workers \subseteq Callers /\ NoDriver \notin Drivers
  BY DriverAssumption DEF Callers
<1>1. drv[w] # NoDriver /\ pc[w] \in Course[job[w]]
  BY DEF Handle, OnCourse
<1>2. CASE GoesOn(w)
  <2>1. PICK b \in Course[job[w]] \ {"idle"} : pc' = [pc EXCEPT ![w] = b]
    BY <1>2 DEF GoesOn
  <2>2. pc'[w] = b /\ \A c \in Callers : c # w => pc'[c] = pc[c]
    BY <1>0, <2>1 DEF Typed, LockInv
  <2>3. UNCHANGED <<drv, job>>
    BY <1>2 DEF GoesOn, SameWork
  <2>4. Held'
    BY <1>0, <1>1, <2>1, <2>2, <2>3 DEF Held
  <2>5. OnCourse'
    BY <1>0, <2>1, <2>2, <2>3 DEF OnCourse
  <2> QED
    BY <2>4, <2>5
<1>3. CASE Finish(w)
  <2>1. /\ pc'[w] = "idle" /\ \A c \in Callers : c # w => pc'[c] = pc[c]
        /\ drv'[w] = NoDriver /\ \A c \in Callers : c # w => drv'[c] = drv[c]
        /\ \A c \in Callers : c # w => job'[c] = job[c]
    BY <1>0, <1>3 DEF Finish, Goto, Typed, LockInv, WorkInv
  <2>2. Held'
    BY <1>0, <2>1 DEF Held
  <2>3. OnCourse'
    BY <1>0, <2>1 DEF OnCourse
  <2> QED
    BY <2>2, <2>3
<1> QED
  BY <1>1, <1>2, <1>3, CourseStep DEF Typed

\* Who truncates what the startup is reading spoils it.
LEMMA HandlerSource ==
    ASSUME Typed, OpenFiles, OnCourse, OwnNames, SourceKept, NEW w \in Workers, Handle(w)
    PROVE  SourceKept'
<1>0. /\ drv[w] # NoDriver /\ w \in Callers /\ w # Startup /\ Startup \in Callers
      /\ w \notin {"none", "whole", "torn"}
      /\ staged \in [Drivers -> Files] /\ src \in [Callers -> {"whole", "torn"}]
  BY AtJob, Toucher DEF Handle, Callers
<1>1. Spares(w) /\ pc'[Startup] = pc[Startup] /\ drv'[Startup] = drv[Startup]
  BY <1>0, HandlerConfined DEF Confined
<1>2. SUFFICES ASSUME pc[Startup] = "copy", src'[Startup] = "whole", drv[Startup] # NoDriver
               PROVE  staged'[drv[Startup]] \in {"whole", "none"}
  BY <1>1 DEF SourceKept
<1>3. drv[Startup] \in Drivers
  BY <1>0, <1>2 DEF Typed, WorkInv
<1>4. CASE drv[Startup] # drv[w]
  BY <1>0, <1>1, <1>2, <1>3, <1>4 DEF Spares, SourceKept
<1>5. CASE drv[Startup] = drv[w]
  <2>1. src'[Startup] = src[Startup] /\ ~(Download(w) /\ ~UNCHANGED staged)
    <3>1. CASE Touches(w)
      <4>1. CASE Download(w)
        <5>1. src' # [e \in Callers |-> IF pc[e] = "copy" /\ drv[e] = drv[w] THEN "torn" ELSE src[e]]
          BY <1>0, <1>2, <1>5
        <5> QED
          BY <4>1, <5>1 DEF Download
      <4>2. CASE ~Download(w)
        BY <1>0, <3>1, <4>2 DEF Touches, Stage, GetError, IsInstalled, CopyStaged, NameCache, Install, Open,
           Copy, Rename, Remove, RemoveBinary, RemoveStaged, RemoveCache, ClearError
      <4> QED
        BY <4>1, <4>2
    <3>2. CASE UNCHANGED <<disk, src>>
      BY <3>2 DEF disk, store
    <3> QED
      BY <3>1, <3>2, TouchOrCall
  <2>2. staged[drv[w]] \in {"whole", "none"}
    BY <1>2, <1>5, <2>1 DEF SourceKept
  <2>3. \/ UNCHANGED staged
        \/ \E f : staged' = Closed(staged, w, f)
        \/ staged' = [staged EXCEPT ![drv[w]] = "none"]
    <3>1. CASE Touches(w)
      BY <2>1, <3>1 DEF Touches, Stage, GetError, IsInstalled, CopyStaged, NameCache, Install, Open,
         Copy, Rename, Remove, RemoveBinary, RemoveStaged, RemoveCache, ClearError, store
    <3>2. CASE UNCHANGED <<disk, src>>
      BY <3>2 DEF disk, store
    <3> QED
      BY <3>1, <3>2, TouchOrCall
  <2> QED
    BY <1>0, <1>3, <1>5, <2>2, <2>3 DEF Closed
<1> QED
  BY <1>4, <1>5

\* A step of a handler.
LEMMA HandlerBeside ==
    ASSUME Typed, StartupInv, OwnNames, NEW w \in Workers, Handle(w)
    PROVE  StartupInv'
<1>0. drv[w] # NoDriver /\ w \in Callers /\ w # Startup /\ Startup \in Callers
  BY AtJob DEF StartupInv, Handle, Callers
<1> USE DEF StartupInv
<1>1. Confined(w)
  BY HandlerConfined
<1>2. Held' /\ OnCourse' /\ Named' /\ SourceKept'
  BY HandlerHeld, HandlerNames, HandlerSource
<1>3. OpenFiles'
  <2>1. CASE Touches(w)
    BY <1>0, <2>1, TouchOpens
  <2>2. CASE Calls(w) /\ UNCHANGED <<disk, src>>
    <3>1. UNCHANGED <<staged, tmp, bin>>
      BY <2>2 DEF disk, store, binary
    <3> QED
      BY <1>0, <1>1, <2>2, <3>1, CallOutside, OthersOpen DEF Confined
  <2> QED
    BY <2>1, <2>2, TouchOrCall
<1>4. NotBuiltin'
  <2>1. CASE Touches(w)
    BY <1>0, <2>1, TouchBuiltin
  <2>2. CASE Calls(w)
    BY <1>0, <1>1, <2>2, CallOutside DEF NotBuiltin, Confined
  <2> QED
    BY <2>1, <2>2, TouchOrCall
<1>5. Activates(w)' /\ AtFiles(w)'
  <2>1. pc'[Startup] = pc[Startup] /\ drv'[Startup] = drv[Startup]
    BY <1>0, <1>1 DEF Confined
  <2>2. CASE Touches(w)
    BY <2>1, <2>2, TouchActs, TouchFiles
  <2>3. CASE Calls(w) /\ UNCHANGED <<disk, src>>
    BY <1>0, <2>1, <2>3, CallActs, CallFiles
  <2> QED
    BY <2>2, <2>3, TouchOrCall
<1>6. ASSUME NEW v \in Workers, v # w
      PROVE  Activates(v)' /\ AtFiles(v)'
  BY <1>0, <1>1, <1>6, OthersUnaware
<1> QED
  BY <1>2, <1>3, <1>4, <1>5, <1>6

-----------------------------------------------------------------------------
(***************************************************************************)
(* The steps of the startup on a driver that a handler works on too.       *)
(***************************************************************************)

\* What the startup does, on whatever driver, leaves alone.
LEMMA WorksTurns ==
    ASSUME Typed, Works
    PROVE  /\ Touches(Startup) /\ Startup \in Callers /\ drv[Startup] # NoDriver
           /\ UNCHANGED <<record, schema, job, drv>>
           /\ \A w \in Workers : w \in Callers /\ w # Startup /\ pc'[w] = pc[w]
<1>1. Startup \in Callers /\ \A w \in Workers : w \in Callers /\ w # Startup
  BY DriverAssumption DEF Callers
<1>2. Touches(Startup) /\ drv[Startup] # NoDriver
  BY DEF Works, Touches
<1>3. Turns(Startup)
  BY <1>1, <1>2, TouchTurns
<1> QED
  BY <1>1, <1>2, <1>3 DEF Turns, Typed, LockInv

\* What a worker w finds, that has opened its file, and what it is to find.
Finds(w) == Opened(w) /\ drv[w] \notin Builtin /\ drv[Startup] = drv[w]

LEMMA FindsWhat ==
    ASSUME Typed, StartupInv, Works, NEW w \in Workers, Finds(w)
    PROVE  /\ w \in Callers /\ w # Startup /\ Startup \in Callers /\ Name(Startup) = Name(w)
           /\ drv[w] \in Drivers /\ Name(w) \in Names /\ drv[Startup] # NoDriver
           /\ Startup \notin {"none", "whole", "torn"}
           /\ staged \in [Drivers -> Files] /\ tmp \in [Names -> Files] /\ bin \in [Names -> Files]
           /\ src \in [Callers -> {"whole", "torn"}]
           /\ pc \in [Callers -> Free \cup Locked]
           /\ pc'[w] = pc[w] /\ drv' = drv /\ job' = job /\ Name(w)' = Name(w)
           /\ Past(w)' = Past(w) /\ Opened(w)' = Opened(w)
           /\ staged[drv[w]] # "none" /\ Erred(Startup) = "redo"
           /\ Complete(w) => StagedToo(w)
           /\ Past(w) => TmpToo(w)
           /\ Past(w) /\ bin[Name(w)] = "whole" => WholeToo(w)
           /\ Past(w) => pc[w] \notin {"copy", "rename"}
<1>1. /\ Startup \in Callers /\ drv[Startup] # NoDriver
      /\ UNCHANGED <<record, schema, job, drv>>
      /\ w \in Callers /\ w # Startup /\ pc'[w] = pc[w]
  BY WorksTurns
<1>2. Opened(w) /\ drv[w] \notin Builtin /\ drv[Startup] = drv[w] /\ drv[w] # NoDriver
  BY DEF Finds, Opened
<1>3. /\ drv[w] \in Drivers /\ Name(w) \in Names /\ Name(Startup) = Name(w)
      /\ Startup \notin {"none", "whole", "torn"}
      /\ staged \in [Drivers -> Files] /\ tmp \in [Names -> Files] /\ bin \in [Names -> Files]
      /\ src \in [Callers -> {"whole", "torn"}]
      /\ pc \in [Callers -> Free \cup Locked]
  BY <1>1, <1>2, Toucher DEF Name
<1>4. AtFiles(w)
  BY DEF StartupInv
<1>5. Past(w) => pc[w] \notin {"copy", "rename"}
  BY DEF Past, Created, Generating, Uploading, Writing
<1>6. /\ pc'[w] = pc[w] /\ drv' = drv /\ job' = job /\ Name(w)' = Name(w)
      /\ Past(w)' = Past(w) /\ Opened(w)' = Opened(w)
  BY <1>1 DEF Past, Opened, Name
<1> QED
  BY <1>1, <1>2, <1>3, <1>4, <1>5, <1>6 DEF AtFiles, Erred

\* What it is to find again, and what it can run is not taken away.
Unharmed(w) == AtFiles(w)' /\ (Past(w) /\ bin[Name(w)] = "whole" => bin'[Name(w)] = "whole")

\* From what the files of the one driver are.
LEMMA FilesUnharmed ==
    ASSUME Typed, StartupInv, Works, NEW w \in Workers, Finds(w),
           staged'[drv[w]] # "none",
           (\/ pc[w] = "copy" /\ (src'[w] = "whole" \/ tmp'[Name(w)] = "whole")
            \/ pc[w] = "rename" /\ tmp'[Name(w)] = "whole"
            \/ Past(w) /\ bin'[Name(w)] = "whole") =>
                      \/ staged'[drv[w]] = "whole"
                      \/ pc'[Startup] = "copyStaged" /\ staged'[drv[w]] = Startup
                      \/ pc'[Startup] = "redo",
           Past(w) => \/ tmp'[Name(w)] = "none"
                      \/ pc'[Startup] = "copy" /\ tmp'[Name(w)] = Startup
                      \/ /\ pc'[Startup] = "rename" /\ tmp'[Name(w)] \in {"whole", "torn"}
                         /\ tmp'[Name(w)] = "whole" => staged'[drv[w]] = "whole"
                      \/ pc'[Startup] = "redo",
           Past(w) /\ bin'[Name(w)] = "whole" =>
                      /\ pc'[Startup] = "copy" /\ tmp'[Name(w)] = Startup => src'[Startup] = "whole"
                      /\ pc'[Startup] = "rename" => tmp'[Name(w)] # "torn",
           Past(w) /\ bin[Name(w)] = "whole" => bin'[Name(w)] = "whole"
    PROVE  Unharmed(w)
<1>1. /\ pc'[w] = pc[w] /\ drv' = drv /\ Name(w)' = Name(w) /\ Past(w)' = Past(w)
      /\ drv[Startup] = drv[w]
  BY FindsWhat DEF Finds
<1>2. Complete(w)' => StagedToo(w)'
  BY <1>1 DEF Complete, StagedToo
<1>3. Past(w)' => TmpToo(w)'
  BY <1>1 DEF TmpToo
<1>4. Past(w)' /\ bin'[Name(w)'] = "whole" => WholeToo(w)'
  BY <1>1 DEF WholeToo
<1>5. AtFiles(w)'
  BY <1>1, <1>2, <1>3, <1>4 DEF AtFiles
<1> QED
  BY <1>5 DEF Unharmed

\* The startup gets to its own "-tmp" file, or to the next driver.
LEMMA LooksUnharmed ==
    ASSUME Typed, StartupInv, Works, NEW w \in Workers, Finds(w),
           GetError(Startup) \/ IsInstalled(Startup) \/ NameCache(Startup)
    PROVE  Unharmed(w)
<1>1. UNCHANGED <<staged, tmp, bin, src>>
  BY DEF GetError, IsInstalled, NameCache, store, binary
<1>2. /\ pc[Startup] \in {"getError", "isInstalled", "nameCache"}
      /\ pc'[Startup] \in {"isInstalled", "open", "download", "redo"}
  BY FindsWhat DEF GetError, IsInstalled, NameCache, StageFails, Staged, Step, Goto
<1> QED
  BY <1>1, <1>2, FindsWhat, FilesUnharmed DEF Complete, StagedToo, TmpToo, WholeToo

\* The staged binary is truncated; who copies it gets a part.
LEMMA DownloadUnharmed ==
    ASSUME Typed, StartupInv, Works, NEW w \in Workers, Finds(w), Download(Startup)
    PROVE  Unharmed(w)
<1>0. UNCHANGED <<tmp, bin>> /\ pc[Startup] = "download"
  BY DEF Download, StageFails, Step, binary
<1>1. CASE UNCHANGED <<staged, src>> /\ pc'[Startup] = "redo"
  BY <1>0, <1>1, FindsWhat, FilesUnharmed DEF Complete, StagedToo, TmpToo, WholeToo
<1>2. CASE pc'[Startup] = "copyStaged" /\ staged'[drv[w]] = Startup
  BY <1>0, <1>2, FindsWhat, FilesUnharmed DEF TmpToo
<1>3. \/ UNCHANGED <<staged, src>> /\ pc'[Startup] = "redo"
      \/ pc'[Startup] = "copyStaged" /\ staged'[drv[w]] = Startup
  BY FindsWhat DEF Download, StageFails, Step, Goto, Finds
<1> QED
  BY <1>1, <1>2, <1>3

\* It is whole again, or the startup gives up.
LEMMA CopyStagedUnharmed ==
    ASSUME Typed, StartupInv, Works, NEW w \in Workers, Finds(w), CopyStaged(Startup)
    PROVE  Unharmed(w)
<1>0. UNCHANGED <<tmp, bin, src>> /\ pc[Startup] = "copyStaged"
  BY DEF CopyStaged, StageFails, Step, binary
<1>1. \/ /\ pc'[Startup] = "nameCache"
         /\ staged'[drv[w]] = IF staged[drv[w]] = Startup THEN "whole" ELSE staged[drv[w]]
      \/ /\ pc'[Startup] = "redo"
         /\ staged'[drv[w]] = IF staged[drv[w]] = Startup THEN "torn" ELSE staged[drv[w]]
  BY FindsWhat DEF CopyStaged, StageFails, Step, Goto, Closed
<1> QED
  BY <1>0, <1>1, FindsWhat, FilesUnharmed DEF Complete, StagedToo, TmpToo, WholeToo

\* The startup opens the "-tmp" file, to read what is whole if anything is.
LEMMA OpenUnharmed ==
    ASSUME Typed, StartupInv, Works, NEW w \in Workers, Finds(w), Open(Startup)
    PROVE  Unharmed(w)
<1>0. UNCHANGED <<staged, bin>> /\ pc[Startup] = "open" /\ ~IsBuiltin(Startup)
      /\ drv[Startup] = drv[w] /\ staged[drv[w]] # "none"
  BY FindsWhat DEF Open, store, IsBuiltin, Finds
<1>1. CASE UNCHANGED <<tmp, src>> /\ pc'[Startup] = "redo"
  BY <1>0, <1>1, FindsWhat, FilesUnharmed DEF Complete, StagedToo, TmpToo, WholeToo
<1>2. CASE /\ pc'[Startup] = "copy" /\ tmp'[Name(w)] = Startup /\ src'[w] = src[w]
           /\ src'[Startup] = IF staged[drv[w]] = "whole" THEN "whole" ELSE "torn"
  BY <1>0, <1>2, FindsWhat, FilesUnharmed DEF Complete, StagedToo
<1>3. \/ UNCHANGED <<tmp, src>> /\ pc'[Startup] = "redo"
      \/ /\ pc'[Startup] = "copy" /\ tmp'[Name(w)] = Startup /\ src'[w] = src[w]
         /\ src'[Startup] = IF staged[drv[w]] = "whole" THEN "whole" ELSE "torn"
  BY <1>0, FindsWhat DEF Open, Goto
<1> QED
  BY <1>1, <1>2, <1>3

\* It writes it, or what a handler has moved to where it is run from.
LEMMA CopyUnharmed ==
    ASSUME Typed, StartupInv, Works, NEW w \in Workers, Finds(w), Copy(Startup)
    PROVE  Unharmed(w)
<1>0. UNCHANGED staged /\ pc[Startup] = "copy" /\ src'[w] = src[w]
  BY FindsWhat DEF Copy, Step, store
<1>1. src[Startup] = "whole" => staged[drv[w]] = "whole"
  BY <1>0, FindsWhat DEF StartupInv, SourceKept, Finds
<1>2. bin[Name(w)] = Startup => tmp[Name(w)] # Startup
  BY FindsWhat DEF StartupInv, OpenFiles
<1>3. CASE /\ pc'[Startup] = "rename"
           /\ tmp'[Name(w)] = IF tmp[Name(w)] = Startup THEN src[Startup] ELSE tmp[Name(w)]
           /\ bin'[Name(w)] = IF bin[Name(w)] = Startup THEN src[Startup] ELSE bin[Name(w)]
  BY <1>0, <1>1, <1>2, <1>3, FindsWhat, FilesUnharmed DEF Complete, StagedToo, TmpToo, WholeToo
<1>4. CASE /\ pc'[Startup] = "redo"
           /\ bin'[Name(w)] = IF bin[Name(w)] = Startup THEN "torn" ELSE bin[Name(w)]
  BY <1>0, <1>4, FindsWhat, FilesUnharmed
<1>5. \/ /\ pc'[Startup] = "rename"
         /\ tmp'[Name(w)] = IF tmp[Name(w)] = Startup THEN src[Startup] ELSE tmp[Name(w)]
         /\ bin'[Name(w)] = IF bin[Name(w)] = Startup THEN src[Startup] ELSE bin[Name(w)]
      \/ /\ pc'[Startup] = "redo"
         /\ bin'[Name(w)] = IF bin[Name(w)] = Startup THEN "torn" ELSE bin[Name(w)]
  BY FindsWhat DEF Copy, Step, Goto, Closed
<1> QED
  BY <1>3, <1>4, <1>5

\* It moves it: in place of what is whole comes what is whole.
LEMMA RenameUnharmed ==
    ASSUME Typed, StartupInv, Works, NEW w \in Workers, Finds(w), Rename(Startup)
    PROVE  Unharmed(w)
<1>0. UNCHANGED <<staged, src>> /\ pc[Startup] = "rename"
  BY DEF Rename, Step, store
<1>1. CASE UNCHANGED <<tmp, bin>> /\ pc'[Startup] = "redo"
  BY <1>0, <1>1, FindsWhat, FilesUnharmed DEF Complete, StagedToo, TmpToo, WholeToo
<1>2. CASE /\ pc'[Startup] = "nextDriver" /\ tmp[Name(w)] # "none"
           /\ bin'[Name(w)] = tmp[Name(w)] /\ tmp'[Name(w)] = "none"
  BY <1>0, <1>2, FindsWhat, FilesUnharmed DEF Complete, StagedToo, TmpToo, WholeToo
<1>3. \/ UNCHANGED <<tmp, bin>> /\ pc'[Startup] = "redo"
      \/ /\ pc'[Startup] = "nextDriver" /\ tmp[Name(w)] # "none"
         /\ bin'[Name(w)] = tmp[Name(w)] /\ tmp'[Name(w)] = "none"
  BY FindsWhat DEF Rename, Step, Goto, Installed, binary
<1> QED
  BY <1>1, <1>2, <1>3

\* Together.
LEMMA WorksUnharmed ==
    ASSUME Typed, StartupInv, Works, NEW w \in Workers, Finds(w)
    PROVE  Unharmed(w)
BY LooksUnharmed, DownloadUnharmed, CopyStagedUnharmed, OpenUnharmed, CopyUnharmed, RenameUnharmed
DEF Works, Stage, Install

\* A worker that has its flags has opened its file, and needs what is there.
LEMMA WorksActs ==
    ASSUME Typed, StartupInv, OwnNames, Works, NEW w \in Workers
    PROVE  Activates(w)' /\ AtFiles(w)'
<1>0. /\ Touches(Startup) /\ Startup \in Callers /\ drv[Startup] # NoDriver
      /\ UNCHANGED <<record, schema, job, drv>>
      /\ w \in Callers /\ w # Startup /\ pc'[w] = pc[w]
  BY WorksTurns
<1>1. Activates(w) /\ AtFiles(w) /\ OpenFiles /\ NotBuiltin /\ OnCourse
  BY DEF StartupInv
<1>2. dstate' = dstate /\ config' = config
  BY <1>0 DEF record, schema
<1>3. Name(w)' = Name(w) /\ Past(w)' = Past(w) /\ Opened(w)' = Opened(w)
  BY <1>0 DEF Name, Past, Opened
<1>4. job[w] = "activate" /\ pc[w] \in Flagged => Past(w)
  BY DEF Past, Flagged, Generating
<1>5. SUFFICES ASSUME drv[w] # NoDriver
               PROVE  Activates(w)' /\ AtFiles(w)'
  BY <1>0 DEF Activates, AtFiles, Opened
<1>6. drv[w] \in Drivers /\ Name(w) \in Names
  BY <1>1, <1>5, AtJob
<1>7. ASSUME Past(w) /\ bin[Name(w)] = "whole" => bin'[Name(w)] = "whole"
      PROVE  Activates(w)'
  BY <1>0, <1>1, <1>2, <1>3, <1>4, <1>7 DEF Activates, Runs, Name
<1>8. CASE drv[Startup] # drv[w]
  <2>1. Spares(Startup)
    BY <1>0, <1>1, TouchSpares
  <2>2. Name(w) # Name(Startup)
    BY <1>0, <1>6, <1>8, AtDriver DEF OwnNames, Name, Typed
  <2>3. /\ staged'[drv[w]] = staged[drv[w]] /\ tmp'[Name(w)] = tmp[Name(w)]
        /\ bin'[Name(w)] = bin[Name(w)] /\ src'[w] = src[w]
    BY <1>0, <1>6, <1>8, <2>1, <2>2 DEF Spares
  <2>4. (Complete(w)' <=> Complete(w)) /\ (StagedToo(w)' <=> StagedToo(w))
        /\ (TmpToo(w)' <=> TmpToo(w)) /\ (WholeToo(w)' <=> WholeToo(w))
    BY <1>0, <1>3, <1>8, <2>3 DEF Complete, StagedToo, TmpToo, WholeToo
  <2>5. AtFiles(w)'
    BY <1>0, <1>1, <1>3, <2>3, <2>4 DEF AtFiles
  <2> QED
    BY <1>7, <2>3, <2>5
<1>9. CASE drv[Startup] = drv[w] /\ drv[w] \in Builtin
  <2>1. pc[Startup] \notin Downloading
    BY <1>0, <1>1, <1>9 DEF NotBuiltin
  <2>2. bin' = bin
    BY <2>1 DEF Works, Stage, Install, GetError, IsInstalled, Download, CopyStaged, NameCache,
       StageFails, Open, Copy, Rename, Step, Downloading, binary
  <2>3. AtFiles(w)'
    BY <1>0, <1>9 DEF AtFiles
  <2> QED
    BY <1>7, <2>2, <2>3
<1>10. CASE drv[Startup] = drv[w] /\ drv[w] \notin Builtin /\ Opened(w)
  <2>1. Unharmed(w)
    BY <1>10, WorksUnharmed DEF Finds
  <2> QED
    BY <1>7, <2>1 DEF Unharmed
<1>11. CASE ~Opened(w)
  <2>1. AtFiles(w)'
    BY <1>3, <1>11 DEF AtFiles
  <2>2. ~Past(w)
    BY <1>5, <1>11 DEF Opened
  <2> QED
    BY <1>7, <2>1, <2>2
<1> QED
  BY <1>8, <1>9, <1>10, <1>11

\* The startup reads what it has opened, until that is truncated.
LEMMA WorksSource ==
    ASSUME Typed, StartupInv, Works
    PROVE  SourceKept'
<1>0. Startup \in Callers /\ drv[Startup] # NoDriver /\ drv' = drv
  BY WorksTurns
<1>1. pc \in [Callers -> Free \cup Locked] /\ src \in [Callers -> {"whole", "torn"}]
  BY <1>0, Toucher
<1>2. CASE Open(Startup)
  <2>1. SUFFICES ASSUME pc'[Startup] = "copy", src'[Startup] = "whole"
                 PROVE  staged'[drv[Startup]] \in {"whole", "none"}
    BY <1>0 DEF SourceKept
  <2>2. src' = [src EXCEPT ![Startup] = IF staged[drv[Startup]] = "whole" THEN "whole" ELSE "torn"]
        /\ staged' = staged
    BY <1>0, <1>1, <1>2, <2>1 DEF Open, Goto, Installed, Erred, store
  <2> QED
    BY <1>0, <1>1, <2>1, <2>2
<1>3. CASE ~Open(Startup)
  <2>1. pc'[Startup] # "copy"
    BY <1>0, <1>1, <1>3 DEF Works, Stage, Install, GetError, IsInstalled, Download, CopyStaged, NameCache,
       StageFails, Copy, Rename, Step, Goto, Staged, Installed, Erred
  <2> QED
    BY <2>1 DEF SourceKept
<1> QED
  BY <1>2, <1>3

\* The startup stages or installs the plugin of a driver.
LEMMA WorksBeside ==
    ASSUME Typed, StartupInv, OwnNames, Works
    PROVE  StartupInv'
<1>1. /\ Touches(Startup) /\ Startup \in Callers
      /\ UNCHANGED <<record, schema, job, drv>>
      /\ \A w \in Workers : w \in Callers /\ pc'[w] = pc[w]
  BY WorksTurns
<1>2. Held' /\ OnCourse' /\ Named'
  BY <1>1 DEF StartupInv, Held, OnCourse, Named, record
<1>3. OpenFiles' /\ NotBuiltin'
  BY <1>1, TouchOpens, TouchBuiltin DEF StartupInv
<1>4. SourceKept'
  BY WorksSource
<1>5. \A w \in Workers : Activates(w)' /\ AtFiles(w)'
  BY WorksActs
<1> QED
  BY <1>2, <1>3, <1>4, <1>5 DEF StartupInv

-----------------------------------------------------------------------------
(***************************************************************************)
(* The other steps.                                                        *)
(***************************************************************************)

\* What the startup lists, and what it asks of Cattle: to reactivate a driver
\* that is active, which no activation past the check of the name is of.
LEMMA ListsBeside ==
    ASSUME Typed, StartupInv, Lists
    PROVE  StartupInv'
<1>0. /\ Startup \in Callers /\ pc \in [Callers -> Free \cup Locked]
      /\ \A w \in Workers : w \in Callers /\ w # Startup
      /\ drv \in [Callers -> Drivers \cup {NoDriver}]
  BY DriverAssumption DEF Callers, Typed, LockInv, WorkInv
<1>1. /\ UNCHANGED <<named, config, staged, tmp, bin, src, job>>
      /\ \A w \in Workers : pc'[w] = pc[w] /\ drv'[w] = drv[w]
      /\ \A c \in Callers : c # Startup => pc'[c] = pc[c] /\ drv'[c] = drv[c]
  <2>1. UNCHANGED <<named, schema, disk, src, job>>
    BY DEF Lists, Ready, ListOld, ReactivateOld, ListBuiltin, Sync, ListAll, NextDriver, Redo, unmoved
  <2>2. \A c \in Callers : c # Startup => pc'[c] = pc[c] /\ drv'[c] = drv[c]
    BY <1>0 DEF Lists, Ready, ListOld, ReactivateOld, ListBuiltin, Sync, ListAll, NextDriver, Redo,
       SGoto, Step, Goto
  <2> QED
    BY <1>0, <2>1, <2>2 DEF schema, disk, store, binary
<1>2. /\ pc[Startup] \in {"ready1", "ready2", "listOld", "reactivateOld", "listBuiltin", "sync",
                          "listAll", "nextDriver", "redo"}
      /\ pc'[Startup] \in {"ready2", "listOld", "reactivateOld", "listBuiltin", "sync", "listAll",
                           "nextDriver", "getError", "done"}
      /\ pc[Startup] = "redo" => Redo
      /\ pc[Startup] # "redo" \/ drv' = drv
  BY <1>0 DEF Lists, Ready, ListOld, ReactivateOld, ListBuiltin, Sync, ListAll, NextDriver, Redo,
     SGoto, Step, Goto
<1>3. \A d \in Drivers : dstate'[d] = "active" => dstate[d] = "active"
  <2>1. dstate \in [Drivers -> DriverStates]
    BY DEF Typed, DataType, RecordType
  <2>2. CASE Sync
    BY <2>2, SyncAsks DEF Typed, DataType
  <2>3. CASE Redo
    BY <2>1, <2>3 DEF Redo, Reactivate
  <2>4. CASE ReactivateOld
    BY <2>1, <2>4 DEF ReactivateOld, Reactivate
  <2> QED
    BY <2>2, <2>3, <2>4 DEF Lists, Ready, ListOld, ListBuiltin, ListAll, NextDriver
<1>4. Held' /\ OnCourse' /\ Named'
  BY <1>1, <1>3 DEF StartupInv, Held, OnCourse, Named
<1>5. OpenFiles'
  BY <1>0, <1>1, <1>2, OthersOpen DEF StartupInv
<1>6. NotBuiltin' /\ SourceKept'
  BY <1>1, <1>2 DEF StartupInv, NotBuiltin, SourceKept, Downloading
<1>7. ASSUME NEW w \in Workers
      PROVE  Activates(w)' /\ AtFiles(w)'
  <2>1. /\ Activates(w) /\ AtFiles(w)
        /\ pc'[w] = pc[w] /\ drv'[w] = drv[w] /\ job'[w] = job[w] /\ Name(w)' = Name(w)
    BY <1>1, <1>7 DEF StartupInv, Name
  <2>2. (Past(w)' <=> Past(w)) /\ (Opened(w)' <=> Opened(w))
    BY <2>1 DEF Past, Opened
  <2>3. Activates(w)'
    BY <1>0, <1>1, <1>3, <1>7, <2>1 DEF Activates, Runs, Name
  <2>4. SUFFICES ASSUME Opened(w), drv[w] \notin Builtin
                 PROVE  AtFiles(w)'
    BY <2>1, <2>2, <2>3 DEF AtFiles
  <2>5. ~(drv[Startup] = drv[w] /\ pc[Startup] = "redo")
    <3>1. dstate[drv[w]] # "active"
      BY <1>7, <2>1, <2>4, OpenedChecked DEF Activates, StartupInv, Opened
    <3> QED
      BY <1>2, <3>1 DEF Redo, Reactivate
  <2>6. /\ Complete(w) => staged[drv[w]] = "whole"
        /\ Past(w) => tmp[Name(w)] = "none"
        /\ staged[drv[w]] # "none"
    BY <1>2, <2>1, <2>4, <2>5 DEF AtFiles, StagedToo, TmpToo
  <2>7. (Complete(w)' <=> Complete(w)) /\ WholeToo(w)'
    BY <1>1, <1>2, <2>1, <2>2 DEF Complete, WholeToo
  <2> QED
    BY <1>1, <2>1, <2>2, <2>6, <2>7 DEF AtFiles, StagedToo, TmpToo
<1> QED
  BY <1>4, <1>5, <1>6, <1>7 DEF StartupInv

\* Cattle, the users and the routers.
LEMMA AroundBeside ==
    ASSUME Typed, StartupInv, Around \/ UNCHANGED vars
    PROVE  StartupInv'
<1>1. UNCHANGED <<pc, drv, job, src, staged, tmp, bin, config, named>>
  BY DEF Around, CattleSends, User, UserAsks, Connect, vars, local, disk, store, binary, schema, record
<1>2. \A d \in Drivers : dstate'[d] = "active" => dstate[d] = "active"
  BY DEF Around, CattleSends, User, UserAsks, Connect, vars, record, Typed, DataType, RecordType
<1>3. Held' /\ OnCourse' /\ Named' /\ OpenFiles' /\ NotBuiltin' /\ SourceKept'
  BY <1>1, <1>2 DEF StartupInv, Held, OnCourse, Named, OpenFiles, Opens, Name, NotBuiltin, SourceKept
<1>4. ASSUME NEW w \in Workers
      PROVE  Activates(w)' /\ AtFiles(w)'
  <2>1. Activates(w) /\ AtFiles(w) /\ drv[w] \in Drivers \cup {NoDriver}
    BY <1>4 DEF StartupInv, Typed, WorkInv, Callers
  <2>2. Activates(w)'
    BY <1>1, <1>2, <2>1 DEF Activates, Runs, Name
  <2>3. AtFiles(w)'
    BY <1>1, <2>1 DEF AtFiles, Opened, Past, Complete, StagedToo, TmpToo, WholeToo, Name
  <2> QED
    BY <2>2, <2>3
<1> QED
  BY <1>3, <1>4 DEF StartupInv

\* A worker takes an event, of a driver that no other works on.
LEMMA TakesBeside ==
    ASSUME Typed, StartupInv, NEW w \in Workers, NEW d \in Drivers, HandleWork(w, d)
    PROVE  StartupInv'
<1>0. Workers \subseteq Callers /\ Startup \in Callers /\ Startup \notin Workers
      /\ NoDriver \notin Drivers
  BY DriverAssumption DEF Callers
<1>1. /\ pc'[w] = "getDriver" /\ \A c \in Callers : c # w => pc'[c] = pc[c]
      /\ drv'[w] = d /\ \A c \in Callers : c # w => drv'[c] = drv[c]
      /\ job'[w] = Head(pending[d]) /\ \A c \in Callers : c # w => job'[c] = job[c]
      /\ pc[w] = "idle"
  BY <1>0 DEF HandleWork, Step, Goto, Typed, LockInv, WorkInv
<1>2. UNCHANGED <<dstate, named, config, staged, tmp, bin, src>>
  BY DEF HandleWork, record, schema, disk, store, binary
<1>3. Held'
  <2>1. \A v \in Workers : drv[v] # d
    BY DEF HandleWork, Waiting
  <2> QED
    BY <1>0, <1>1, <2>1 DEF StartupInv, Held
<1>4. OnCourse'
  <2>1. Head(pending[d]) \in Events
    BY DEF HandleWork, Typed, WorkInv
  <2>2. \A e \in Events : "getDriver" \in Course[e]
    BY DEF Events, Settled, Course
  <2> QED
    BY <1>0, <1>1, <2>1, <2>2 DEF StartupInv, OnCourse
<1>5. OpenFiles'
  BY <1>0, <1>1, <1>2, OthersOpen DEF StartupInv
<1>6. Named' /\ NotBuiltin' /\ SourceKept'
  BY <1>0, <1>1, <1>2 DEF StartupInv, Named, NotBuiltin, SourceKept, Downloading
<1>7. Activates(w)' /\ AtFiles(w)'
  BY <1>1 DEF Activates, AtFiles, Opened, Past, Checked, Flagged, Created, Generating, Uploading, Writing
<1>8. ASSUME NEW v \in Workers, v # w
      PROVE  Activates(v)' /\ AtFiles(v)'
  <2>1. /\ Activates(v) /\ AtFiles(v)
        /\ pc'[v] = pc[v] /\ drv'[v] = drv[v] /\ job'[v] = job[v]
        /\ pc'[Startup] = pc[Startup] /\ drv'[Startup] = drv[Startup]
    BY <1>0, <1>1, <1>8 DEF StartupInv
  <2>2. Activates(v)'
    BY <1>2, <2>1 DEF Activates, Runs, Name
  <2>3. AtFiles(v)'
    BY <1>2, <2>1 DEF AtFiles, Opened, Past, Complete, StagedToo, TmpToo, WholeToo, Name
  <2> QED
    BY <2>2, <2>3
<1> QED
  BY <1>3, <1>4, <1>5, <1>6, <1>7, <1>8 DEF StartupInv

\* The process starts again: nobody works, and nothing is open.
LEMMA RestartBeside ==
    ASSUME Typed, StartupInv, ProcessStarts, UNCHANGED <<dstate, named>>, Restart \/ Replace
    PROVE  StartupInv'
<1>0. Workers \subseteq Callers /\ Startup \in Callers /\ Startup \notin Workers
      /\ Callers \cap {"none", "torn"} = {}
  BY DriverAssumption DEF Callers
<1>1. /\ \A c \in Callers : drv'[c] = NoDriver /\ job'[c] = "none"
      /\ \A w \in Workers : pc'[w] = "idle"
      /\ pc'[Startup] = "ready1"
  BY <1>0 DEF ProcessStarts
<1>2. Held' /\ OnCourse' /\ Named' /\ NotBuiltin' /\ SourceKept'
  BY <1>0, <1>1 DEF Held, OnCourse, Named, StartupInv, NotBuiltin, SourceKept, Downloading, Callers
<1>3. OpenFiles'
  <2>1. /\ \A d \in Drivers : staged'[d] \notin Callers
        /\ \A n \in Names : tmp'[n] \notin Callers /\ bin'[n] \notin Callers
    <3>1. CASE Restart
      BY <1>0, <3>1 DEF Restart, Torn, Typed, DataType, DiskType
    <3>2. CASE Replace
      BY <1>0, <3>2 DEF Replace
    <3> QED
      BY <3>1, <3>2
  <2> QED
    BY <2>1 DEF OpenFiles
<1>4. \A w \in Workers : Activates(w)' /\ AtFiles(w)'
  BY <1>0, <1>1 DEF Activates, AtFiles, Opened
<1> QED
  BY <1>2, <1>3, <1>4 DEF StartupInv

\* Every step.
LEMMA BesideStep ==
    ASSUME Typed, StartupInv, OwnNames, [Next]_vars
    PROVE  StartupInv'
<1>1. CASE Around \/ UNCHANGED vars
  BY <1>1, AroundBeside
<1>2. CASE \E w \in Workers, d \in Drivers : HandleWork(w, d)
  BY <1>2, TakesBeside
<1>3. CASE \E w \in Workers : Handle(w)
  BY <1>3, HandlerBeside
<1>4. CASE Lists
  BY <1>4, ListsBeside
<1>5. CASE Works
  BY <1>5, WorksBeside
<1>6. CASE Dies
  <2>1. Restart /\ UNCHANGED <<dstate, named>>
    BY <1>6 DEF Dies, TooLate, Fatal, record
  <2> QED
    BY <2>1, RestartBeside DEF Restart
<1>7. CASE Crash
  <2>1. (Restart \/ Replace) /\ UNCHANGED <<dstate, named>>
    BY <1>7 DEF Crash, Replace, record
  <2> QED
    BY <2>1, RestartBeside DEF Restart, Replace
<1> QED
  BY <1>1, <1>2, <1>3, <1>4, <1>5, <1>6, <1>7 DEF Next, StartupStep, Around, Lists, Works, Dies

\* The first states: nobody works, and active drivers have their names.
LEMMA BesideAtStart ==
    ASSUME Init \/ InitReady
    PROVE  StartupInv
<1>0. Workers \subseteq Callers /\ Startup \in Callers /\ Startup \notin Workers
      /\ Callers \cap {"none", "whole"} = {}
  BY DriverAssumption DEF Callers
<1>1. PICK A, I \in SUBSET Drivers : Before(A, I) /\ A \cap I = {}
  <2>1. CASE Init
    BY <2>1 DEF Init
  <2>2. CASE InitReady
    BY <2>2 DEF InitReady
  <2> QED
    BY <2>1, <2>2
<1>2. PICK B \in SUBSET Drivers : HasFiles(B)
  <2>1. \A C \in SUBSET Drivers : C \ Builtin \in SUBSET Drivers
    OBVIOUS
  <2>2. {} \in SUBSET Drivers
    OBVIOUS
  <2> QED
    BY <2>1, <2>2 DEF Init, InitReady
<1>3. \E b \in {"ready1", "done"} : pc = [c \in Callers |-> IF c = Startup THEN b ELSE "idle"]
  BY DEF Init, InitReady
<1>4. /\ \A c \in Callers : drv[c] = NoDriver
      /\ \A w \in Workers : pc[w] = "idle"
      /\ pc[Startup] \in {"ready1", "done"}
  BY <1>0, <1>1, <1>3 DEF Before
<1>5. Named
  <2>1. /\ \A d \in Drivers : dstate[d] = "active" => d \in A
        /\ named \in [Drivers -> BOOLEAN] /\ \A d \in Drivers : ~named[d] => d \in I
    BY <1>1 DEF Before
  <2> QED
    BY <1>1, <2>1 DEF Named
<1>6. OpenFiles
  <2>1. /\ \A d \in Drivers : staged[d] \in {"none", "whole"}
        /\ \A n \in Names : tmp[n] \in {"none", "whole"} /\ bin[n] \in {"none", "whole"}
    BY <1>1, <1>2 DEF Before, HasFiles
  <2> QED
    BY <1>0, <2>1 DEF OpenFiles
<1>7. Held /\ OnCourse /\ NotBuiltin /\ SourceKept
  BY <1>0, <1>4 DEF Held, OnCourse, NotBuiltin, SourceKept, Downloading, Callers
<1>8. \A w \in Workers : Activates(w) /\ AtFiles(w)
  BY <1>0, <1>4 DEF Activates, AtFiles, Opened
<1> QED
  BY <1>5, <1>6, <1>7, <1>8 DEF StartupInv

\* A handler makes a driver active that is usable; nobody else does.
LEMMA BecomesUsable ==
    ASSUME Typed, StartupInv, [Next]_vars, NEW d \in Drivers, dstate[d] # "active", dstate'[d] = "active"
    PROVE  Usable(d)'
<1>0. dstate \in [Drivers -> DriverStates]
  BY DEF Typed, DataType, RecordType
<1>1. PICK w \in Workers : Handle(w)
  <2>1. ~(Around \/ UNCHANGED vars)
    BY <1>0 DEF Around, CattleSends, User, UserAsks, Connect, vars, record
  <2>2. ~\E w \in Workers, e \in Drivers : HandleWork(w, e)
    BY DEF HandleWork, record
  <2>3. ~Lists
    <3>1. ~Sync
      BY SyncAsks DEF Typed, DataType
    <3> QED
      BY <1>0, <3>1 DEF Lists, Ready, ListOld, ReactivateOld, ListBuiltin, ListAll, NextDriver, Redo, Reactivate
  <2>4. ~Works
    BY WorksTurns DEF record
  <2>5. ~Dies /\ ~Crash
    BY DEF Dies, TooLate, Fatal, Crash, Replace, record
  <2> QED
    BY <2>1, <2>2, <2>3, <2>4, <2>5 DEF Next, StartupStep, Around, Lists, Works, Dies
<1>2. /\ drv[w] \in Drivers /\ drv[w] # NoDriver
      /\ job[w] \in {"activate", "deactivate", "remove", "error"}
      /\ Activates(w)
  BY <1>1, AtJob DEF Handle, StartupInv
<1>3. ~UNCHANGED record
  BY DEF record
<1>4. pc[w] = "publish" /\ Answered(drv[w], job[w])
  <2>1. ~(Refused(drv[w], job[w]))
    BY <1>0, <1>2, <1>3 DEF Refused
  <2> QED
    BY <1>1, <1>3, <2>1, RecordStep DEF Replies
<1>5. drv[w] = d /\ job[w] = "activate"
  <2>1. dstate' = [dstate EXCEPT ![drv[w]] = Settled[job[w]]]
    BY <1>3, <1>4 DEF Answered
  <2>2. Settled[job[w]] = "active" => job[w] = "activate"
    BY <1>2 DEF Settled
  <2> QED
    BY <1>0, <1>2, <2>1, <2>2
<1>6. UNCHANGED <<bin, config>>
  <2>1. Calls(w) /\ UNCHANGED <<disk, src>>
    BY <1>1, <1>3, <1>2, TouchOrCall, TouchTurns, AtJob DEF Turns, StartupInv
  <2>2. PublishReply(w)
    BY <1>1, <1>3, <1>4, <2>1 DEF Calls, GetDriver, NameCheck, GetToRemove, ErrorReply, GenerateAndUploadSchema,
       GenLock, GetCreateFlags, RemoveConfig, CreateConfig, GetVersion, RemoveSchemas,
       UploadMachineSchemas, UploadLock, ListDrivers, RemoveHost, UploadHost, rest, others
  <2> QED
    BY <2>2 DEF PublishReply, disk, binary, schema
<1> QED
  BY <1>2, <1>4, <1>5, <1>6 DEF Activates, Flagged, Created, Usable, Runs, Name

\* ActivatedIsUsable, of the service as it starts and once it is ready, for any
\* drivers with names of their own, any workers and requests, whatever fails,
\* crashes or is replaced: a driver becomes active only when its plugin can be
\* run and Cattle has its description, though the startup may work on its files
\* at the same time.
THEOREM ActivatedTheorem ==
    ASSUME OwnNames
    PROVE  /\ Spec => ActivatedIsUsable
           /\ ReadySpec => ActivatedIsUsable
<1>1. Init \/ InitReady => Typed /\ StartupInv
  BY LockAtStart, TypedAtStart, BesideAtStart DEF Typed
<1>2. Typed /\ StartupInv /\ [Next]_vars => (Typed /\ StartupInv)'
  BY LockStep, TypeStep, BesideStep DEF Typed
<1>3. Typed /\ StartupInv /\ [Next]_vars =>
          [\A d \in Drivers : dstate[d] # "active" /\ dstate'[d] = "active" => Usable(d)']_vars
  BY BecomesUsable
<1>4. Spec => ActivatedIsUsable
  BY <1>1, <1>2, <1>3, PTL DEF Spec, ActivatedIsUsable
<1>5. ReadySpec => ActivatedIsUsable
  BY <1>1, <1>2, <1>3, PTL DEF ReadySpec, ActivatedIsUsable
<1> QED
  BY <1>4, <1>5

-----------------------------------------------------------------------------
(***************************************************************************)
(* What the startup restores.  A plugin that nobody else stages or         *)
(* installs meanwhile is whole when the startup has installed it, whatever *)
(* was left on the disk by a process that died.                            *)
(***************************************************************************)

\* What the steps of Stage, Install and Remove find.
FindsOwn(c) == drv[c] \in Drivers \ Builtin =>
    /\ pc[c] \in {"download", "copyStaged"} => ~cache[drv[c]]
    /\ pc[c] = "copyStaged" => staged[drv[c]] = c
    /\ pc[c] \in {"nameCache", "nameCheck", "open"} => staged[drv[c]] \in {"whole", "none"}
    /\ pc[c] = "copy" => src[c] = "whole" /\ tmp[Name(c)] = c
    /\ pc[c] = "rename" => tmp[Name(c)] = "whole"
    /\ pc[c] \in {"rmStaged", "rmCache"} => cache[drv[c]] = TRUE

\* A cache file names what is whole, or what Remove has taken away.
CacheNames == \A d \in Drivers \ Builtin : cache[d] => staged[d] \in {"whole", "none"}

\* The startup removes nothing.
Removing == {"rmBin", "rmStaged", "rmCache"}

FilesInv == /\ CacheNames /\ InstalledIsWhole /\ \A c \in Callers : FindsOwn(c)
            /\ pc[Startup] \notin Removing

\* An active driver is still to be seen to by the startup, or has its plugin.
Listing == {"ready1", "ready2", "listOld", "reactivateOld", "listBuiltin", "sync", "listAll"}
SeesTo(d) == drv[Startup] = d /\ pc[Startup] \notin {"nextDriver", "done"}
Restored ==
    /\ pc[Startup] \notin Listing =>
           \A d \in Drivers \ Builtin : dstate[d] = "active" =>
               d \in todo \/ SeesTo(d) \/ bin[NameOf[d]] = "whole"
    /\ pc[Startup] = "done" => todo = {}

\* The order of the events of a driver that is not built in.
Lined == \A d \in Drivers \ Builtin : InLine(d)

RestoredInv == FilesInv /\ Lined /\ Restored

-----------------------------------------------------------------------------
\* Who stages or installs a plugin, or removes it, does so alone.
AloneAt(c) ==
    \A e \in Callers : e # c /\ drv[e] = drv[c] /\ drv[c] \in Drivers \ Builtin =>
        /\ ~(pc[c] \in Staging /\ pc[e] \in Staging)
        /\ ~(pc[c] \in Removing /\ pc[e] \in Removing)

LEMMA WorksAlone ==
    ASSUME Typed, StartupInv, StagesAlone, pc[Startup] \notin Removing, NEW c \in Callers
    PROVE  AloneAt(c)
<1>1. SUFFICES ASSUME NEW e \in Callers, e # c, drv[e] = drv[c], drv[c] \in Drivers \ Builtin
               PROVE  /\ ~(pc[c] \in Staging /\ pc[e] \in Staging)
                      /\ ~(pc[c] \in Removing /\ pc[e] \in Removing)
  BY DEF AloneAt
<1>2. ~(c \in Workers /\ e \in Workers)
  BY <1>1, DriverAssumption DEF StartupInv, Held
<1>3. \/ c = Startup /\ e \in Workers
      \/ e = Startup /\ c \in Workers
  BY <1>1, <1>2 DEF Callers
<1> QED
  BY <1>1, <1>3 DEF StagesAlone

\* The steps on the disk of one driver tell nothing of another.
LEMMA TouchCache ==
    ASSUME Typed, NEW c \in Callers, Touches(c), NEW d \in Drivers, d # drv[c]
    PROVE  cache'[d] = cache[d]
<1>1. cache' = cache \/ \E f : cache' = [cache EXCEPT ![drv[c]] = f]
  BY DEF Touches, Stage, GetError, IsInstalled, Download, CopyStaged, NameCache, Install, Open, Copy,
     Rename, Remove, RemoveBinary, RemoveStaged, RemoveCache, ClearError, store
<1>2. cache \in [Drivers -> BOOLEAN]
  BY DEF Typed, DataType, DiskType
<1> QED
  BY <1>1, <1>2

LEMMA OthersFind ==
    ASSUME Typed, OpenFiles, OwnNames, NEW c \in Callers, Touches(c),
           NEW e \in Callers, drv[e] # drv[c], FindsOwn(e)
    PROVE  FindsOwn(e)'
<1>1. SUFFICES ASSUME drv[e] \in Drivers \ Builtin
               PROVE  FindsOwn(e)'
  BY TouchTurns DEF Turns, FindsOwn
<1>2. drv[c] \in Drivers /\ e # c
  BY Toucher DEF Touches
<1>3. Name(e) # Name(c) /\ Name(e) \in Names
  BY <1>1, <1>2 DEF OwnNames, Name, Names
<1>4. /\ staged'[drv[e]] = staged[drv[e]] /\ tmp'[Name(e)] = tmp[Name(e)] /\ src'[e] = src[e]
      /\ cache'[drv[e]] = cache[drv[e]]
  BY <1>1, <1>2, <1>3, TouchSpares, TouchCache DEF Spares
<1>5. drv' = drv /\ pc'[e] = pc[e] /\ Name(e)' = Name(e)
  BY <1>2, TouchTurns, Toucher DEF Turns, Touches, Name
<1> QED
  BY <1>1, <1>4, <1>5 DEF FindsOwn

\* A step on the disk, of one who is alone there.
Touched(c) ==
    /\ Typed /\ OpenFiles /\ NotBuiltin /\ FilesInv /\ Touches(c) /\ AloneAt(c)
    /\ drv[c] # NoDriver

\* Who works on the same driver meanwhile is not at its files, or waits for
\* Remove to end.
LEMMA BesideFinds ==
    ASSUME NEW c \in Callers, Touched(c), NEW e \in Callers, e # c, drv[e] = drv[c],
           drv[c] \in Drivers \ Builtin
    PROVE  /\ drv'[e] = drv[e] /\ pc'[e] = pc[e] /\ FindsOwn(e)
           /\ pc[c] \in Staging => pc[e] \notin Staging
           /\ pc[c] \in Removing => pc[e] \notin Removing
BY TouchTurns, Toucher DEF Turns, Touched, FilesInv, AloneAt

\* The step of c itself: to b.
LEMMA OwnStep ==
    ASSUME NEW c \in Callers, Touched(c)
    PROVE  /\ drv[c] \in Drivers /\ Name(c) \in Names /\ c \notin {"none", "whole", "torn"}
           /\ cache \in [Drivers -> BOOLEAN]
           /\ staged \in [Drivers -> Files] /\ tmp \in [Names -> Files] /\ bin \in [Names -> Files]
           /\ src \in [Callers -> {"whole", "torn"}]
           /\ pc \in [Callers -> Free \cup Locked]
           /\ drv' = drv /\ Name(c)' = Name(c)
           /\ FindsOwn(c) /\ CacheNames /\ InstalledIsWhole
           /\ pc[c] \in Downloading => drv[c] \notin Builtin
BY TouchTurns, Toucher DEF Turns, Touched, FilesInv, Typed, DataType, DiskType, Name, NotBuiltin

\* What c finds at its next step.
LEMMA OwnFinds ==
    ASSUME NEW c \in Callers, Touched(c)
    PROVE  FindsOwn(c)'
<1>0. /\ drv[c] \in Drivers /\ Name(c) \in Names /\ c \notin {"none", "whole", "torn"}
      /\ cache \in [Drivers -> BOOLEAN]
      /\ staged \in [Drivers -> Files] /\ tmp \in [Names -> Files] /\ bin \in [Names -> Files]
      /\ src \in [Callers -> {"whole", "torn"}]
      /\ pc \in [Callers -> Free \cup Locked]
      /\ drv' = drv /\ Name(c)' = Name(c)
      /\ FindsOwn(c) /\ CacheNames /\ InstalledIsWhole
      /\ pc[c] \in Downloading => drv[c] \notin Builtin
  BY OwnStep
<1> USE <1>0 DEF FindsOwn
<1>1. SUFFICES ASSUME drv[c] \in Drivers \ Builtin
               PROVE  FindsOwn(c)'
  OBVIOUS
<1>2. Staged(c) \in {"open", "nameCheck"} /\ Installed(c) \in {"nextDriver", "genLock"}
      /\ Erred(c) \in {"redo", "errorReply"}
  BY DEF Staged, Installed, Erred
<1>3. CASE GetError(c)
  <2>1. pc'[c] \in {"isInstalled", "redo", "errorReply"}
    BY <1>2, <1>3 DEF GetError, Step, Goto
  <2> QED
    BY <2>1
<1>4. CASE IsInstalled(c)
  <2>1. UNCHANGED <<cache, staged>>
    BY <1>4 DEF IsInstalled, store
  <2>2. \/ pc'[c] \in {"open", "nameCheck"} /\ cache[drv[c]]
        \/ pc'[c] = "download" /\ ~cache[drv[c]]
        \/ pc'[c] \in {"redo", "errorReply"}
    BY <1>1, <1>2, <1>4 DEF IsInstalled, StageFails, IsBuiltin, Step, Goto
  <2> QED
    BY <1>1, <2>1, <2>2 DEF CacheNames
<1>5. CASE Download(c)
  <2>1. UNCHANGED cache /\ ~cache[drv[c]]
    BY <1>1, <1>5 DEF Download, StageFails, Step
  <2>2. \/ pc'[c] = "copyStaged" /\ staged'[drv[c]] = c
        \/ pc'[c] \in {"redo", "errorReply"}
    BY <1>2, <1>5 DEF Download, StageFails, Step, Goto
  <2> QED
    BY <2>1, <2>2
<1>6. CASE CopyStaged(c)
  <2>1. staged[drv[c]] = c
    BY <1>1, <1>6 DEF CopyStaged, StageFails, Step
  <2>2. \/ pc'[c] = "nameCache" /\ staged'[drv[c]] = "whole"
        \/ pc'[c] \in {"redo", "errorReply"}
    BY <1>2, <1>6, <2>1 DEF CopyStaged, StageFails, Step, Goto, Closed
  <2> QED
    BY <2>2
<1>7. CASE NameCache(c)
  <2>1. UNCHANGED staged /\ staged[drv[c]] \in {"whole", "none"}
    BY <1>1, <1>7 DEF NameCache, StageFails, Step
  <2>2. pc'[c] \in {"open", "nameCheck", "redo", "errorReply"}
    BY <1>2, <1>7 DEF NameCache, StageFails, Step, Goto
  <2> QED
    BY <2>1, <2>2
<1>8. CASE Open(c)
  <2>1. staged[drv[c]] \in {"whole", "none"}
    BY <1>1, <1>8 DEF Open
  <2>2. \/ pc'[c] = "copy" /\ tmp'[Name(c)] = c /\ src'[c] = "whole"
        \/ pc'[c] \in {"redo", "errorReply"}
    BY <1>1, <1>2, <1>8, <2>1 DEF Open, IsBuiltin, Goto
  <2> QED
    BY <2>2
<1>9. CASE Copy(c)
  <2>1. src[c] = "whole" /\ tmp[Name(c)] = c
    BY <1>1, <1>9 DEF Copy, Step
  <2>2. \/ pc'[c] = "rename" /\ tmp'[Name(c)] = "whole"
        \/ pc'[c] \in {"redo", "errorReply"}
    BY <1>2, <1>9, <2>1 DEF Copy, Step, Goto, Closed
  <2> QED
    BY <2>2
<1>10. CASE Rename(c)
  <2>1. pc'[c] \in {"nextDriver", "genLock", "redo", "errorReply"}
    BY <1>2, <1>10 DEF Rename, Step, Goto
  <2> QED
    BY <2>1
<1>11. CASE Remove(c)
  <2>1. \/ pc'[c] \in {"rmStaged", "rmCache"} /\ UNCHANGED cache /\ cache[drv[c]] = TRUE
        \/ pc'[c] = "uploadLock"
    BY <1>1, <1>11 DEF Remove, RemoveBinary, RemoveStaged, RemoveCache, Step, Goto, store
  <2> QED
    BY <2>1
<1>12. CASE ClearError(c)
  <2>1. pc'[c] = "publish"
    BY <1>12 DEF ClearError, Step, Goto
  <2> QED
    BY <2>1
<1> QED
  BY <1>3, <1>4, <1>5, <1>6, <1>7, <1>8, <1>9, <1>10, <1>11, <1>12 DEF Touched, Touches, Stage, Install

\* ... and who works on the same driver.
LEMMA SameFinds ==
    ASSUME NEW c \in Callers, Touched(c), NEW e \in Callers, e # c, drv[e] = drv[c]
    PROVE  FindsOwn(e)'
<1>0. /\ drv[c] \in Drivers /\ Name(c) \in Names /\ c \notin {"none", "whole", "torn"}
      /\ cache \in [Drivers -> BOOLEAN]
      /\ staged \in [Drivers -> Files] /\ tmp \in [Names -> Files] /\ bin \in [Names -> Files]
      /\ src \in [Callers -> {"whole", "torn"}]
      /\ pc \in [Callers -> Free \cup Locked]
      /\ drv' = drv /\ Name(c)' = Name(c)
      /\ FindsOwn(c) /\ CacheNames /\ InstalledIsWhole
      /\ pc[c] \in Downloading => drv[c] \notin Builtin
  BY OwnStep
<1> USE <1>0
<1>1. SUFFICES ASSUME drv[c] \in Drivers \ Builtin
               PROVE  FindsOwn(e)'
  BY DEF FindsOwn
<1>2. /\ drv'[e] = drv[e] /\ pc'[e] = pc[e] /\ FindsOwn(e) /\ Name(e)' = Name(e)
      /\ pc[c] \in Staging => pc[e] \notin Staging
      /\ pc[c] \in Removing => pc[e] \notin Removing
  <2>1. /\ drv'[e] = drv[e] /\ pc'[e] = pc[e] /\ FindsOwn(e)
        /\ pc[c] \in Staging => pc[e] \notin Staging
        /\ pc[c] \in Removing => pc[e] \notin Removing
    BY <1>1, BesideFinds
  <2> QED
    BY <2>1 DEF Name
<1> USE DEF FindsOwn
<1>3. CASE GetError(c) \/ ClearError(c)
  <2>1. UNCHANGED <<cache, staged, tmp, src>>
    BY <1>3 DEF GetError, ClearError, store, binary
  <2> QED
    BY <1>1, <1>2, <2>1
<1>4. CASE pc[c] \in Staging /\ (cache[drv[c]] = TRUE => cache'[drv[c]] = TRUE)
  <2>1. pc[e] \notin Staging
    BY <1>2, <1>4
  <2> QED
    BY <1>1, <1>2, <1>4, <2>1 DEF Staging
<1>5. CASE IsInstalled(c) \/ Download(c) \/ CopyStaged(c) \/ Install(c)
  BY <1>4, <1>5 DEF IsInstalled, Download, CopyStaged, StageFails, Install, Open, Copy, Rename, Step,
     Staging, store
<1>6. CASE NameCache(c)
  <2>1. cache' = cache \/ cache' = [cache EXCEPT ![drv[c]] = TRUE]
    BY <1>6 DEF NameCache
  <2> QED
    BY <1>4, <1>6, <2>1 DEF NameCache, StageFails, Step, Staging
<1>7. CASE Remove(c)
  <2>1. pc[c] \in Removing /\ UNCHANGED <<tmp, src>>
    BY <1>7 DEF Remove, RemoveBinary, RemoveStaged, RemoveCache, Step, Removing, binary
  <2>2. pc[e] \notin Removing
    BY <1>2, <2>1
  <2>3. CASE RemoveBinary(c)
    BY <1>1, <1>2, <2>1, <2>3 DEF RemoveBinary, store
  <2>4. CASE RemoveStaged(c)
    BY <1>1, <1>2, <2>1, <2>4 DEF RemoveStaged, Step
  <2>5. CASE RemoveCache(c)
    BY <1>1, <1>2, <2>1, <2>2, <2>5 DEF RemoveCache, Step, Removing
  <2> QED
    BY <1>7, <2>3, <2>4, <2>5 DEF Remove
<1> QED
  BY <1>3, <1>5, <1>6, <1>7 DEF Touched, Touches, Stage

\* A binary that is written is not the one that is run; what takes its place is
\* whole.
LEMMA BinaryWhole ==
    ASSUME NEW c \in Callers, Touched(c)
    PROVE  /\ InstalledIsWhole'
           /\ \A n \in Names : bin[n] = "whole" => bin'[n] = "whole" \/ (RemoveBinary(c) /\ n = Name(c))
           /\ Rename(c) => bin'[Name(c)] = "whole" \/ pc'[c] = Erred(c)
<1>0. /\ drv[c] \in Drivers /\ Name(c) \in Names /\ c \notin {"none", "whole", "torn"}
      /\ cache \in [Drivers -> BOOLEAN]
      /\ staged \in [Drivers -> Files] /\ tmp \in [Names -> Files] /\ bin \in [Names -> Files]
      /\ src \in [Callers -> {"whole", "torn"}]
      /\ pc \in [Callers -> Free \cup Locked]
      /\ drv' = drv /\ Name(c)' = Name(c)
      /\ FindsOwn(c) /\ CacheNames /\ InstalledIsWhole
      /\ pc[c] \in Downloading => drv[c] \notin Builtin
  BY OwnStep
<1> USE <1>0 DEF InstalledIsWhole
<1>1. CASE Copy(c)
  <2>1. bin' = Closed(bin, c, src[c]) \/ bin' = Closed(bin, c, "torn")
    BY <1>1 DEF Copy
  <2>2. \A n \in Names : bin'[n] = bin[n]
    BY <2>1 DEF Closed
  <2>3. ~Rename(c)
    BY <1>1 DEF Copy, Rename, Step
  <2> QED
    BY <2>2, <2>3
<1>2. CASE Rename(c)
  <2>1. drv[c] \in Drivers \ Builtin /\ tmp[Name(c)] = "whole"
    BY <1>2 DEF Rename, Step, Downloading, FindsOwn
  <2>2. \/ bin' = [bin EXCEPT ![Name(c)] = "whole"]
        \/ bin' = bin /\ pc' = [pc EXCEPT ![c] = Erred(c)]
    BY <1>2, <2>1 DEF Rename, Step, Goto, binary
  <2>3. ~Remove(c)
    BY <1>2 DEF Remove, RemoveBinary, RemoveStaged, RemoveCache, Rename, Step
  <2> QED
    BY <2>2
<1>3. CASE Remove(c)
  <2>1. ~Rename(c)
    BY <1>3 DEF Remove, RemoveBinary, RemoveStaged, RemoveCache, Rename, Step
  <2>2. CASE RemoveBinary(c)
    BY <2>1, <2>2 DEF RemoveBinary
  <2>3. CASE ~RemoveBinary(c)
    BY <1>3, <2>1, <2>3 DEF Remove, RemoveStaged, RemoveCache, binary
  <2> QED
    BY <2>2, <2>3
<1>4. CASE ~(Copy(c) \/ Rename(c) \/ Remove(c))
  <2>1. UNCHANGED bin
    BY <1>4 DEF Touched, Touches, Stage, Install, GetError, IsInstalled, Download, CopyStaged, NameCache,
       Open, ClearError, binary
  <2> QED
    BY <1>4, <2>1
<1> QED
  BY <1>1, <1>2, <1>3, <1>4

LEMMA CacheWhole ==
    ASSUME NEW c \in Callers, Touched(c)
    PROVE  CacheNames'
<1>0. /\ drv[c] \in Drivers /\ Name(c) \in Names /\ c \notin {"none", "whole", "torn"}
      /\ cache \in [Drivers -> BOOLEAN]
      /\ staged \in [Drivers -> Files] /\ tmp \in [Names -> Files] /\ bin \in [Names -> Files]
      /\ src \in [Callers -> {"whole", "torn"}]
      /\ pc \in [Callers -> Free \cup Locked]
      /\ drv' = drv /\ Name(c)' = Name(c)
      /\ FindsOwn(c) /\ CacheNames /\ InstalledIsWhole
      /\ pc[c] \in Downloading => drv[c] \notin Builtin
  BY OwnStep
<1> USE <1>0
<1>1. ASSUME NEW d \in Drivers \ Builtin, d # drv[c], cache'[d]
      PROVE  staged'[d] \in {"whole", "none"}
  <2>1. cache'[d] = cache[d] /\ staged'[d] = staged[d]
    BY <1>1, TouchCache, TouchSpares DEF Touched, Spares
  <2> QED
    BY <1>1, <2>1 DEF CacheNames
<1>2. ASSUME drv[c] \notin Builtin, cache'[drv[c]]
      PROVE  staged'[drv[c]] \in {"whole", "none"}
  <2>1. CASE GetError(c) \/ IsInstalled(c) \/ Install(c) \/ ClearError(c) \/ RemoveBinary(c)
    <3>1. UNCHANGED <<cache, staged>>
      BY <2>1 DEF GetError, IsInstalled, Install, Open, Copy, Rename, ClearError, RemoveBinary, store
    <3> QED
      BY <1>2, <3>1 DEF CacheNames
  <2>2. CASE Download(c) \/ CopyStaged(c)
    BY <1>2, <2>2 DEF Download, CopyStaged, StageFails, Step, FindsOwn
  <2>3. CASE NameCache(c)
    BY <1>2, <2>3 DEF NameCache, StageFails, Step, FindsOwn
  <2>4. CASE RemoveStaged(c)
    BY <2>4 DEF RemoveStaged
  <2>5. CASE RemoveCache(c)
    BY <1>2, <2>5 DEF RemoveCache
  <2> QED
    BY <2>1, <2>2, <2>3, <2>4, <2>5 DEF Touched, Touches, Stage, Remove
<1> QED
  BY <1>1, <1>2 DEF CacheNames

LEMMA TouchKeeps ==
    ASSUME OwnNames, NEW c \in Callers, Touched(c), pc'[Startup] \notin Removing
    PROVE  FilesInv'
<1>1. ASSUME NEW e \in Callers PROVE FindsOwn(e)'
  <2>1. CASE e = c
    BY <2>1, OwnFinds
  <2>2. CASE e # c /\ drv[e] = drv[c]
    BY <2>2, SameFinds
  <2>3. CASE drv[e] # drv[c]
    BY <2>3, OthersFind DEF Touched, FilesInv
  <2> QED
    BY <2>1, <2>2, <2>3
<1> QED
  BY <1>1, BinaryWhole, CacheWhole DEF FilesInv

\* Where a handler that does not touch the disk goes.
LEMMA CallGoes ==
    ASSUME Typed, OnCourse, NEW w \in Workers, drv[w] # NoDriver, Calls(w)
    PROVE  /\ pc'[w] \notin {"nameCheck", "rmStaged", "rmCache"} \cup Downloading
           /\ pc'[w] = "open" => pc[w] = "nameCheck" /\ drv'[w] = drv[w]
<1>0. w \in Callers /\ pc \in [Callers -> Free \cup Locked]
      /\ job[w] \in {"activate", "deactivate", "remove", "error"}
  BY AtJob DEF Typed, LockInv
<1> USE <1>0 DEF Downloading, Step, Goto, Finish
<1>1. CASE GetDriver(w)
  BY <1>1 DEF GetDriver, First
<1>2. CASE NameCheck(w) \/ GetToRemove(w)
  BY <1>2 DEF NameCheck, GetToRemove, others
<1>3. CASE PublishReply(w) \/ ErrorReply(w)
  BY <1>3 DEF PublishReply, ErrorReply
<1>4. CASE GenerateAndUploadSchema(w) \/ GetVersion(w) \/ RemoveSchemas(w)
  BY <1>4 DEF GenerateAndUploadSchema, GenLock, GetCreateFlags, RemoveConfig, CreateConfig,
     SchemaFails, GetVersion, RemoveSchemas
<1>5. CASE UploadMachineSchemas(w)
  <2>1. CASE UploadLock(w) \/ ListDrivers(w) \/ RemoveHost(w)
    BY <2>1, UploadsAre DEF UploadLock, ListDrivers, RemoveHost, SchemaFails
  <2>2. ASSUME NEW i \in 1..Len(Uploads), UploadHost(w, i)
        PROVE  pc'[w] \in Writing \cup {"publish", "errorReply"}
    BY <2>2, UploadsAre DEF AfterUpload, UploadHost, SchemaFails, Writing
  <2> QED
    BY <1>5, <2>1, <2>2 DEF UploadMachineSchemas, Writing
<1> QED
  BY <1>1, <1>2, <1>3, <1>4, <1>5 DEF Calls

\* Who does not touch the disk finds what the step before has found.
LEMMA FindsAsBefore ==
    ASSUME FilesInv, UNCHANGED <<cache, staged, tmp, bin, src>>, pc'[Startup] \notin Removing,
           \A c \in Callers :
               \/ pc'[c] = pc[c] /\ drv'[c] = drv[c]
               \/ pc'[c] = "open" /\ pc[c] = "nameCheck" /\ drv'[c] = drv[c]
               \/ pc'[c] \notin {"nameCheck", "open", "rmStaged", "rmCache"} \cup Downloading
    PROVE  FilesInv'
<1>1. ASSUME NEW c \in Callers PROVE FindsOwn(c)'
  <2>1. FindsOwn(c)
    BY DEF FilesInv
  <2> QED
    BY <2>1 DEF FindsOwn, Name, Downloading
<1> QED
  BY <1>1 DEF FilesInv, CacheNames, InstalledIsWhole

LEMMA FilesStep ==
    ASSUME Typed, StartupInv, OwnNames, StagesAlone, FilesInv, [Next]_vars
    PROVE  FilesInv'
<1>0. Startup \in Callers /\ Workers \subseteq Callers /\ Startup \notin Workers
  BY DriverAssumption DEF Callers
<1>1. CASE Around \/ UNCHANGED vars
  <2>1. UNCHANGED <<pc, drv, cache, staged, tmp, bin, src>>
    BY <1>1 DEF Around, CattleSends, User, UserAsks, Connect, vars, local, disk, store, binary
  <2> QED
    BY <1>0, <2>1, FindsAsBefore DEF FilesInv
<1>2. ASSUME NEW w \in Workers, NEW d \in Drivers, HandleWork(w, d)
      PROVE  FilesInv'
  <2>1. pc'[w] = "getDriver" /\ \A c \in Callers : c # w => pc'[c] = pc[c] /\ drv'[c] = drv[c]
    BY <1>0, <1>2 DEF HandleWork, Step, Goto, Typed, LockInv, WorkInv
  <2>2. UNCHANGED <<cache, staged, tmp, bin, src>>
    BY <1>2 DEF HandleWork, disk, store, binary
  <2>3. pc'[Startup] \notin Removing
    BY <1>0, <2>1 DEF FilesInv
  <2> QED
    BY <2>1, <2>2, <2>3, FindsAsBefore DEF Downloading
<1>3. ASSUME NEW w \in Workers, Handle(w)
      PROVE  FilesInv'
  <2>1. /\ drv[w] # NoDriver /\ w \in Callers /\ w # Startup
        /\ \A c \in Callers : c # w => pc'[c] = pc[c] /\ drv'[c] = drv[c]
    BY <1>0, <1>3, HandlerConfined DEF Handle, Confined, StartupInv
  <2>2. pc'[Startup] \notin Removing
    BY <1>0, <2>1 DEF FilesInv
  <2>3. CASE Touches(w)
    <3>1. Touched(w)
      BY <2>1, <2>3, WorksAlone DEF Touched, StartupInv, FilesInv
    <3> QED
      BY <2>1, <2>2, <3>1, TouchKeeps
  <2>4. CASE Calls(w) /\ UNCHANGED <<disk, src>>
    <3>1. UNCHANGED <<cache, staged, tmp, bin, src>>
      BY <2>4 DEF disk, store, binary
    <3>2. /\ pc'[w] \notin {"nameCheck", "rmStaged", "rmCache"} \cup Downloading
          /\ pc'[w] = "open" => pc[w] = "nameCheck" /\ drv'[w] = drv[w]
      BY <2>1, <2>4, CallGoes DEF StartupInv
    <3> QED
      BY <2>1, <2>2, <3>1, <3>2, FindsAsBefore
  <2> QED
    BY <1>3, <2>3, <2>4, TouchOrCall
<1>4. CASE Lists
  <2>1. UNCHANGED <<cache, staged, tmp, bin, src>>
    BY <1>4 DEF Lists, Ready, ListOld, ReactivateOld, ListBuiltin, Sync, ListAll, NextDriver, Redo, unmoved,
       disk, store, binary
  <2>2. \A c \in Callers : c # Startup => pc'[c] = pc[c] /\ drv'[c] = drv[c]
    BY <1>0, <1>4 DEF Lists, Ready, ListOld, ReactivateOld, ListBuiltin, Sync, ListAll, NextDriver, Redo,
       unmoved, SGoto, Step, Goto, Typed, LockInv, WorkInv
  <2>3. pc'[Startup] \in Listing \cup {"nextDriver", "getError", "done"}
    BY <1>0, <1>4 DEF Lists, Ready, ListOld, ReactivateOld, ListBuiltin, Sync, ListAll, NextDriver, Redo,
       SGoto, Step, Goto, Typed, LockInv, Listing
  <2>4. pc'[Startup] \notin {"nameCheck", "open", "rmStaged", "rmCache"} \cup Downloading \cup Removing
    BY <2>3 DEF Listing, Downloading, Removing
  <2> QED
    BY <2>1, <2>2, <2>4, FindsAsBefore
<1>5. CASE Works
  <2>1. Touches(Startup) /\ drv[Startup] # NoDriver
    BY <1>5, WorksTurns
  <2>2. pc'[Startup] \notin Removing
    BY <1>0, <1>5 DEF Works, Stage, Install, GetError, IsInstalled, Download, CopyStaged, NameCache, StageFails,
       Open, Copy, Rename, Staged, Installed, Erred, Step, Goto, Removing, Typed, LockInv
  <2>3. Touched(Startup)
    BY <1>0, <2>1, WorksAlone DEF Touched, StartupInv, FilesInv
  <2> QED
    BY <1>0, <2>2, <2>3, TouchKeeps
<1>6. CASE Dies \/ Crash
  <2>1. (Restart \/ Replace) /\ ProcessStarts
    BY <1>6 DEF Dies, TooLate, Fatal, Crash, Restart, Replace
  <2>2. (\A c \in Callers : drv'[c] = NoDriver) /\ pc'[Startup] = "ready1"
    BY <1>0, <2>1 DEF ProcessStarts
  <2>3. \A c \in Callers : FindsOwn(c)'
    BY <2>2, DriverAssumption DEF FindsOwn
  <2>4. CacheNames' /\ InstalledIsWhole'
    <3>1. CASE Replace
      BY <3>1 DEF Replace, CacheNames, InstalledIsWhole
    <3>2. CASE Restart
      <4>1. "none" \notin Callers /\ "whole" \notin Callers
        BY DriverAssumption
      <4>2. \A d \in Drivers : staged'[d] = IF staged[d] \in Callers THEN "torn" ELSE staged[d]
        BY <3>2 DEF Restart, Torn, Typed, DataType, DiskType
      <4>3. \A n \in Names : bin'[n] = IF bin[n] \in Callers THEN "torn" ELSE bin[n]
        BY <3>2 DEF Restart, Torn, Typed, DataType, DiskType
      <4> QED
        BY <3>2, <4>1, <4>2, <4>3 DEF Restart, CacheNames, InstalledIsWhole, FilesInv
    <3> QED
      BY <2>1, <3>1, <3>2
  <2> QED
    BY <2>2, <2>3, <2>4 DEF FilesInv, Removing
<1> QED
  BY <1>1, <1>2, <1>3, <1>4, <1>5, <1>6 DEF Next, StartupStep, Around, Lists, Works, Dies

\* What Cattle sends and is told of drivers that are not built in is in order,
\* whatever the startup asks for.
LEMMA LinedStep ==
    ASSUME Typed, StartupInv, Lined, [Next]_vars
    PROVE  Lined'
<1>0. /\ Startup \in Callers /\ Workers \subseteq Callers /\ Startup \notin Workers
      /\ NoDriver \notin Drivers /\ OneEach /\ RecordType
  BY DriverAssumption DEF Callers, StartupInv, Held, OneEach, Typed, DataType
<1>1. SUFFICES ASSUME NEW d \in Drivers \ Builtin, InLine(d)
               PROVE  InLine(d)'
  BY DEF Lined
<1>2. CASE \/ Around \/ UNCHANGED vars
           \/ \E w \in Workers, e \in Drivers : HandleWork(w, e)
           \/ \E w \in Workers : Handle(w)
  BY <1>0, <1>1, <1>2, EventInLine DEF Typed, StartupInv
<1>3. CASE Lists
  <2>1. UNCHANGED <<pending, job>> /\ \A w \in Workers : drv'[w] = drv[w]
    BY <1>0, <1>3 DEF Lists, Ready, ListOld, ReactivateOld, ListBuiltin, Sync, ListAll, NextDriver, Redo,
       unmoved, Typed, WorkInv
  <2>2. \/ dstate'[d] = dstate[d]
        \/ dstate[d] \notin InTransition /\ dstate'[d] \in InTransition
    <3>1. CASE Ready \/ ListOld \/ ListBuiltin \/ ListAll \/ NextDriver
      BY <3>1 DEF Ready, ListOld, ListBuiltin, ListAll, NextDriver
    <3>2. CASE ReactivateOld \/ Redo
      BY <1>0, <3>2 DEF ReactivateOld, Redo, Reactivate, RecordType, InTransition, EventOf
    <3>3. CASE Sync
      <4>1. d \in Drivers /\ d \notin Core
        BY DriverAssumption
      <4>2. {"activating", "removing"} \subseteq InTransition
        BY DEF InTransition, EventOf
      <4> QED
        BY <1>0, <3>3, <4>1, <4>2, SyncAsks
    <3> QED
      BY <1>3, <3>1, <3>2, <3>3 DEF Lists
  <2>3. CASE dstate'[d] = dstate[d]
    BY <1>1, <2>1, <2>3 DEF InLine, OnlyDue
  <2> QED
    BY <1>1, <2>1, <2>2, <2>3, AskedInLine
<1>4. CASE Works
  <2>1. UNCHANGED <<dstate, pending, job, drv>>
    BY <1>4, WorksTurns DEF record, Works, Stage, GetError, IsInstalled, Download, CopyStaged, NameCache,
       Install, Open, Copy, Rename, others
  <2> QED
    BY <1>1, <2>1 DEF InLine, OnlyDue
<1>5. CASE Dies \/ Crash
  <2>1. ProcessStarts
    BY <1>5 DEF Dies, TooLate, Fatal, Crash, Restart, Replace
  <2>2. pending'[d] = <<>> /\ \A w \in Workers : drv'[w] # d
    BY <1>0, <2>1 DEF ProcessStarts
  <2> QED
    BY <2>2 DEF InLine, OnlyDue
<1> QED
  BY <1>2, <1>3, <1>4, <1>5 DEF Next, StartupStep, Around, Lists, Works, Dies

\* What the startup has installed, or found, is there while the driver is active.
LEMMA BinaryStays ==
    ASSUME Typed, StartupInv, OwnNames, FilesInv, Lined, StagesAlone, [Next]_vars, ~(Dies \/ Crash),
           NEW d \in Drivers \ Builtin, dstate[d] = "active", bin[NameOf[d]] = "whole"
    PROVE  bin'[NameOf[d]] = "whole"
<1>0. Startup \in Callers /\ Workers \subseteq Callers /\ NameOf[d] \in Names
  BY DriverAssumption DEF Callers, Names
<1>1. ASSUME NEW c \in Callers, Touches(c), c # Startup \/ ~Remove(c)
      PROVE  bin'[NameOf[d]] = "whole"
  <2>1. Touched(c)
    BY <1>1, WorksAlone DEF Touched, StartupInv, FilesInv, Touches
  <2>2. ~(RemoveBinary(c) /\ NameOf[d] = Name(c))
    <3>1. SUFFICES ASSUME RemoveBinary(c), NameOf[d] = Name(c)
                   PROVE  FALSE
      OBVIOUS
    <3>2. c \in Workers /\ drv[c] = d
      BY <1>0, <1>1, <2>1, <3>1, OwnStep DEF OwnNames, Name, Remove, Callers
    <3>3. job[c] \in {"deactivate", "remove"}
      BY <1>1, <3>1, <3>2, AtJob DEF Touches, StartupInv, RemoveBinary, Step, Course, Generating, Uploading,
         Writing
    <3>4. job[c] = "activate"
      BY <3>2 DEF Lined, InLine, InTransition, EventOf, Due
    <3> QED
      BY <3>3, <3>4
  <2> QED
    BY <1>0, <2>1, <2>2, BinaryWhole
<1>2. CASE UNCHANGED bin
  BY <1>2
<1>3. ASSUME NEW w \in Workers, Handle(w)
      PROVE  bin'[NameOf[d]] = "whole"
  <2>1. w \in Callers /\ w # Startup
    BY <1>0, DriverAssumption
  <2> QED
    BY <1>1, <1>2, <1>3, <2>1, TouchOrCall DEF disk, binary
<1>4. CASE Works
  <2>1. ~Remove(Startup)
    BY <1>4 DEF Works, Stage, Install, GetError, IsInstalled, Download, CopyStaged, NameCache, StageFails,
       Open, Copy, Rename, Remove, RemoveBinary, RemoveStaged, RemoveCache, Step
  <2> QED
    BY <1>0, <1>1, <1>4, <2>1, WorksTurns
<1>5. CASE Around \/ UNCHANGED vars \/ Lists \/ \E w \in Workers, e \in Drivers : HandleWork(w, e)
  <2>1. UNCHANGED bin
    BY <1>5 DEF Around, CattleSends, User, UserAsks, Connect, Lists, Ready, ListOld, ReactivateOld,
       ListBuiltin, Sync, ListAll, NextDriver, Redo, unmoved, HandleWork, vars, disk, binary
  <2> QED
    BY <1>2, <2>1
<1> QED
  BY <1>3, <1>4, <1>5 DEF Next, StartupStep, Around, Lists, Works, Dies

\* The startup and its list, which no step but its own changes.
LEMMA OthersStep ==
    ASSUME Typed, StartupInv,
           (\/ Around \/ UNCHANGED vars
            \/ \E w \in Workers, d \in Drivers : HandleWork(w, d)
            \/ \E w \in Workers : Handle(w))
    PROVE  pc'[Startup] = pc[Startup] /\ drv'[Startup] = drv[Startup] /\ todo' = todo
<1>0. Startup \in Callers /\ Startup \notin Workers
  BY DriverAssumption DEF Callers
<1>1. CASE Around \/ UNCHANGED vars
  BY <1>1 DEF Around, CattleSends, User, UserAsks, Connect, vars, local
<1>2. CASE \E w \in Workers, d \in Drivers : HandleWork(w, d)
  BY <1>0, <1>2 DEF HandleWork, Step, Goto, Typed, LockInv, WorkInv
<1>3. ASSUME NEW w \in Workers, Handle(w)
      PROVE  pc'[Startup] = pc[Startup] /\ drv'[Startup] = drv[Startup] /\ todo' = todo
  <2>1. GoesOn(w) \/ Finish(w)
    BY <1>3, CourseStep DEF Typed, StartupInv, OnCourse, Handle
  <2>2. pc'[Startup] = pc[Startup] /\ drv'[Startup] = drv[Startup]
    BY <1>0, <2>1 DEF GoesOn, SameWork, Finish, Goto, Typed, LockInv, WorkInv
  <2>3. todo' = todo
    <3>1. CASE Stage(w) \/ Install(w) \/ Remove(w) \/ ClearError(w) \/ NameCheck(w) \/ GetToRemove(w)
               \/ GetDriver(w)
      BY <3>1 DEF Stage, GetError, IsInstalled, Download, CopyStaged, NameCache, Install, Open, Copy,
         Rename, Remove, RemoveBinary, RemoveStaged, RemoveCache, ClearError, NameCheck, GetToRemove,
         GetDriver, others
    <3>2. CASE GenerateAndUploadSchema(w) \/ GetVersion(w) \/ RemoveSchemas(w) \/ UploadMachineSchemas(w)
      BY <3>2 DEF GenerateAndUploadSchema, GenLock, GetCreateFlags, RemoveConfig, CreateConfig,
         GetVersion, RemoveSchemas, UploadMachineSchemas, UploadLock, ListDrivers, RemoveHost,
         UploadHost, rest
    <3>3. CASE PublishReply(w) \/ ErrorReply(w)
      BY <3>3 DEF PublishReply, ErrorReply
    <3> QED
      BY <1>3, <3>1, <3>2, <3>3 DEF Handle
  <2> QED
    BY <2>2, <2>3
<1> QED
  BY <1>1, <1>2, <1>3

\* An active driver whose plugin is not there stays one that the startup has to
\* see to, until it has installed it.
LEMMA SeenTo ==
    ASSUME Typed, StartupInv, FilesInv, Restored, StagesAlone, [Next]_vars, ~(Dies \/ Crash),
           NEW d \in Drivers \ Builtin, dstate[d] = "active", dstate'[d] = "active",
           bin[NameOf[d]] # "whole", pc'[Startup] \notin Listing
    PROVE  d \in todo' \/ SeesTo(d)' \/ bin'[NameOf[d]] = "whole"
<1>0. Startup \in Callers /\ pc \in [Callers -> Free \cup Locked] /\ drv \in [Callers -> Drivers \cup {NoDriver}]
  BY DEF Callers, Typed, LockInv, WorkInv
<1>1. pc[Startup] \notin Listing => d \in todo \/ SeesTo(d)
  BY DEF Restored
<1>2. CASE \/ Around \/ UNCHANGED vars
           \/ \E w \in Workers, e \in Drivers : HandleWork(w, e)
           \/ \E w \in Workers : Handle(w)
  BY <1>1, <1>2, OthersStep DEF SeesTo
<1>3. CASE ListAll
  BY <1>3 DEF ListAll, Active
<1>4. CASE NextDriver
  <2>1. pc[Startup] = "nextDriver" /\ "nextDriver" \notin Listing
    BY <1>4 DEF NextDriver, SGoto, Step, Listing
  <2>2. d \in todo
    BY <1>1, <2>1 DEF SeesTo
  <2>3. PICK e \in todo : /\ pc' = [pc EXCEPT ![Startup] = "getError"]
                          /\ todo' = todo \ {e} /\ drv' = [drv EXCEPT ![Startup] = e]
    BY <1>4, <2>2 DEF NextDriver, SGoto, Step, Goto
  <2> QED
    BY <1>0, <2>2, <2>3 DEF SeesTo
<1>5. CASE Redo
  <2>1. pc[Startup] = "redo" /\ todo' = todo /\ dstate' = [dstate EXCEPT ![drv[Startup]] = "reactivating"]
    BY <1>5 DEF Redo, Reactivate, SGoto, Step
  <2>2. drv[Startup] # d
    BY <2>1 DEF Typed, DataType, RecordType
  <2> QED
    BY <1>1, <2>1, <2>2 DEF SeesTo, Listing
<1>6. CASE Ready \/ ListOld \/ ReactivateOld \/ ListBuiltin \/ Sync
  <2>1. pc'[Startup] \in Listing
    BY <1>0, <1>6 DEF Ready, ListOld, ReactivateOld, ListBuiltin, Sync, SGoto, Step, Goto, Listing
  <2> QED
    BY <2>1
<1>7. CASE Works
  <2>1. todo' = todo /\ drv' = drv /\ Touches(Startup) /\ drv[Startup] # NoDriver
    BY <1>7, WorksTurns DEF Works, Stage, GetError, IsInstalled, Download, CopyStaged, NameCache,
       Install, Open, Copy, Rename, others
  <2>2. SUFFICES ASSUME SeesTo(d)
                 PROVE  SeesTo(d)' \/ bin'[NameOf[d]] = "whole"
    <3>1. pc[Startup] \notin Listing
      BY <1>7 DEF Works, Stage, Install, GetError, IsInstalled, Download, CopyStaged, NameCache, StageFails,
         Open, Copy, Rename, Step, Listing
    <3> QED
      BY <1>1, <2>1, <3>1
  <2>3. drv[Startup] = d
    BY <2>2 DEF SeesTo
  <2>4. CASE ~Rename(Startup)
    <3>1. pc'[Startup] \notin {"nextDriver", "done"}
      BY <1>0, <1>7, <2>3, <2>4 DEF Works, Stage, Install, GetError, IsInstalled, Download, CopyStaged,
         NameCache, StageFails, Open, Copy, IsBuiltin, Staged, Erred, Step, Goto
    <3> QED
      BY <2>1, <2>3, <3>1 DEF SeesTo
  <2>5. CASE Rename(Startup)
    <3>1. Touched(Startup)
      BY <1>0, <2>1, WorksAlone DEF Touched, StartupInv, FilesInv
    <3>2. bin'[Name(Startup)] = "whole" \/ pc'[Startup] = Erred(Startup)
      BY <1>0, <2>5, <3>1, BinaryWhole
    <3> QED
      BY <2>1, <2>3, <3>2 DEF Name, Erred, SeesTo
  <2> QED
    BY <2>4, <2>5
<1> QED
  BY <1>2, <1>3, <1>4, <1>5, <1>6, <1>7 DEF Next, StartupStep, Around, Works, Dies

LEMMA RestoredStep ==
    ASSUME Typed, StartupInv, OwnNames, FilesInv, Lined, Restored, StagesAlone, [Next]_vars
    PROVE  Restored'
<1>0. Startup \in Callers /\ pc \in [Callers -> Free \cup Locked]
  BY DEF Callers, Typed, LockInv
<1>1. CASE Dies \/ Crash
  <2>1. pc'[Startup] = "ready1"
    BY <1>0, <1>1 DEF Dies, TooLate, Fatal, Crash, Restart, Replace, ProcessStarts
  <2> QED
    BY <2>1 DEF Restored, Listing
<1>2. SUFFICES ASSUME ~(Dies \/ Crash)
               PROVE  Restored'
  BY <1>1
<1>3. ASSUME NEW d \in Drivers \ Builtin, pc'[Startup] \notin Listing, dstate'[d] = "active"
      PROVE  d \in todo' \/ SeesTo(d)' \/ bin'[NameOf[d]] = "whole"
  <2>1. CASE dstate[d] # "active"
    BY <1>3, <2>1, BecomesUsable, DriverAssumption DEF Usable, Runs
  <2>2. CASE dstate[d] = "active" /\ bin[NameOf[d]] = "whole"
    BY <1>2, <2>2, BinaryStays
  <2>3. CASE dstate[d] = "active" /\ bin[NameOf[d]] # "whole"
    BY <1>2, <1>3, <2>3, SeenTo
  <2> QED
    BY <2>1, <2>2, <2>3
<1>4. ASSUME pc'[Startup] = "done"
      PROVE  todo' = {}
  <2>1. CASE \/ Around \/ UNCHANGED vars
             \/ \E w \in Workers, e \in Drivers : HandleWork(w, e)
             \/ \E w \in Workers : Handle(w)
    BY <1>4, <2>1, OthersStep DEF Restored
  <2>2. CASE NextDriver
    BY <1>0, <1>4, <2>2 DEF NextDriver, SGoto, Step, Goto
  <2>3. CASE Ready \/ ListOld \/ ReactivateOld \/ ListBuiltin \/ Sync \/ ListAll \/ Redo
    BY <1>0, <1>4, <2>3 DEF Ready, ListOld, ReactivateOld, ListBuiltin, Sync, ListAll, Redo, SGoto, Step, Goto
  <2>4. CASE Works
    BY <1>0, <1>4, <2>4 DEF Works, Stage, Install, GetError, IsInstalled, Download, CopyStaged, NameCache,
       StageFails, Open, Copy, Rename, Staged, Installed, Erred, Step, Goto
  <2> QED
    BY <1>2, <2>1, <2>2, <2>3, <2>4 DEF Next, StartupStep, Around, Works, Dies
<1> QED
  BY <1>3, <1>4 DEF Restored

\* The first states.
LEMMA RestoredAtStart ==
    ASSUME Init \/ InitReady, OwnNames
    PROVE  RestoredInv
<1>0. /\ Workers \subseteq Callers /\ Startup \in Callers /\ Startup \notin Workers
      /\ NoDriver \notin Drivers
  BY DriverAssumption DEF Callers
<1>1. PICK A, I \in SUBSET Drivers : Before(A, I) /\ A \cap I = {} /\ (InitReady => HasFiles(A \ Builtin))
  <2>1. CASE Init
    <3>1. ~InitReady
      BY <1>0, <2>1 DEF Init, InitReady
    <3> QED
      BY <2>1, <3>1 DEF Init
  <2>2. CASE InitReady
    BY <2>2 DEF InitReady
  <2> QED
    BY <2>1, <2>2
<1>2. PICK B \in SUBSET Drivers : HasFiles(B)
  <2>1. \A C \in SUBSET Drivers : C \ Builtin \in SUBSET Drivers
    OBVIOUS
  <2>2. {} \in SUBSET Drivers
    OBVIOUS
  <2> QED
    BY <2>1, <2>2 DEF Init, InitReady
<1>3. /\ \A c \in Callers : drv[c] = NoDriver
      /\ \A d \in Drivers : pending[d] = <<>>
      /\ todo = {}
  BY <1>1 DEF Before
<1>4. \/ pc[Startup] = "ready1"
      \/ pc[Startup] = "done" /\ HasFiles(A \ Builtin)
  BY <1>0, <1>1 DEF Init, InitReady
<1>5. FilesInv
  <2>1. \A c \in Callers : FindsOwn(c)
    BY <1>0, <1>3 DEF FindsOwn
  <2>2. CacheNames /\ InstalledIsWhole
    <3>1. \A d \in Drivers : staged[d] \in {"none", "whole"}
      BY <1>2 DEF HasFiles
    <3>2. \A n \in Names : bin[n] \in {"none", "whole"}
      BY <1>2 DEF HasFiles
    <3> QED
      BY <3>1, <3>2 DEF CacheNames, InstalledIsWhole
  <2> QED
    BY <1>4, <2>1, <2>2 DEF FilesInv, Removing
<1>6. Lined
  BY <1>0, <1>3 DEF Lined, InLine, OnlyDue
<1>7. Restored
  <2>1. CASE pc[Startup] = "ready1"
    BY <2>1 DEF Restored, Listing
  <2>2. CASE pc[Startup] = "done" /\ HasFiles(A \ Builtin)
    <3>1. ASSUME NEW d \in Drivers \ Builtin, dstate[d] = "active"
          PROVE  bin[NameOf[d]] = "whole"
      <4>1. d \in A \ Builtin
        BY <1>1, <3>1 DEF Before
      <4>2. NameOf[d] \in NamesIn(A \ Builtin) /\ NameOf[d] \in Names
        BY <4>1 DEF NamesIn, Names
      <4> QED
        BY <2>2, <4>2 DEF HasFiles
    <3> QED
      BY <1>3, <2>2, <3>1 DEF Restored
  <2> QED
    BY <1>4, <2>1, <2>2
<1> QED
  BY <1>5, <1>6, <1>7 DEF RestoredInv

\* RestoredIfAlone, and with it InstalledIsWhole, of the service as it starts
\* and once it is ready, for any drivers with names of their own, any workers
\* and requests, whatever fails, crashes or is replaced: as long as no handler
\* stages or installs a plugin while the startup does, every active driver has
\* its plugin once the startup is over, but for a retired one that Cattle did
\* not delete, and none is left incomplete where it is run from.
THEOREM RestoredTheorem ==
    ASSUME OwnNames
    PROVE  /\ Spec => RestoredIfAlone
           /\ ReadySpec => RestoredIfAlone
           /\ (Spec \/ ReadySpec) /\ []StagesAlone => []InstalledIsWhole
<1> DEFINE Inv == Typed /\ StartupInv /\ RestoredInv
<1>1. Init \/ InitReady => Inv
  BY LockAtStart, TypedAtStart, BesideAtStart, RestoredAtStart DEF Typed
<1>2. Inv /\ StagesAlone /\ [Next]_vars => Inv'
  BY LockStep, TypeStep, BesideStep, FilesStep, LinedStep, RestoredStep DEF Typed, RestoredInv
<1>3. Inv => DownloadedWhenReady /\ InstalledIsWhole
  <2>1. SUFFICES ASSUME Inv
                 PROVE  DownloadedWhenReady /\ InstalledIsWhole
    OBVIOUS
  <2>2. InstalledIsWhole
    BY <2>1 DEF RestoredInv, FilesInv
  <2>3. ASSUME StartupOver, NEW d \in Active
        PROVE  Runs(d) \/ Retired(d)
    <3>1. d \in Drivers /\ dstate[d] = "active" /\ pc[Startup] = "done"
      BY <2>3 DEF StartupOver, Active
    <3>2. d \in Builtin \/ bin[NameOf[d]] = "whole"
      BY <2>1, <3>1 DEF RestoredInv, Restored, Listing, SeesTo
    <3>3. d \in Core \/ d \in Builtin \ Core \/ bin[NameOf[d]] = "whole"
      BY <3>2
    <3> QED
      BY <3>1, <3>3 DEF Runs, Retired
  <2> QED
    BY <2>2, <2>3 DEF DownloadedWhenReady
<1> HIDE DEF Inv
<1>4. Spec => RestoredIfAlone
  BY <1>1, <1>2, <1>3, PTL DEF Spec, RestoredIfAlone
<1>5. ReadySpec => RestoredIfAlone
  BY <1>1, <1>2, <1>3, PTL DEF ReadySpec, RestoredIfAlone
<1>6. (Spec \/ ReadySpec) /\ []StagesAlone => []InstalledIsWhole
  BY <1>1, <1>2, <1>3, PTL DEF Spec, ReadySpec
<1> QED
  BY <1>4, <1>5, <1>6

=============================================================================
