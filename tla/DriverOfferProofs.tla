-------------------------- MODULE DriverOfferProofs --------------------------
(***************************************************************************)
(* What the hosts are offered when everything is quiet (OfferTheorem).     *)
(*                                                                         *)
(* UploadMachineSchemas takes a list of the drivers under schemaLock, and  *)
(* writes it to the roles one after the other, while other handlers        *)
(* activate and remove drivers.  What ends up right in the end is no list  *)
(* in particular: every handler lists after it has described its driver,   *)
(* or removed the description, and before it replies.  So a list is right  *)
(* for all drivers but those whose handlers have still to list (Right),    *)
(* and the last handler that uploads is right for all of them.             *)
(*                                                                         *)
(* That an event of another kind is not under way for a driver that is     *)
(* settled (LineInv) is what makes a list agree with the reply that comes  *)
(* after it.  Nothing of this survives a failed call, so the invariant     *)
(* (OfferInv) is about behaviours without one.                             *)
(***************************************************************************)
EXTENDS DriverFileProofs

-----------------------------------------------------------------------------
(***************************************************************************)
(* What the hosts are offered.  As long as no call fails, no activation is *)
(* refused, and whatever is shown, or about to be, is right but for the    *)
(* drivers whose handler has still to list them.                           *)
(***************************************************************************)
\* What this supposes: drivers with names of their own, that users do not
\* reactivate, and a process that lives on.
Orderly == /\ \A d, e \in Drivers : NameOf[d] = NameOf[e] => d = e
           /\ Faults \subseteq {"repeat"}

\* Parts of other courses: past the <name>Config schema being removed, and, in
\* all of them, the uploads with the reply after them.
Removed == {"getToRemove", "rmBin", "rmStaged", "rmCache", "uploadLock", "list", "publish"}
            \cup Uploading
Listed  == Uploading \cup {"publish"}

Gone   == {"inactive", "removed", "absent"}
Wanted == {"active", "activating", "deactivating", "removing"}

ActivationFits(w) ==
    /\ pc[w] \in Checked => dstate[drv[w]] # "active"
    /\ pc[w] = "errorReply" => dstate[drv[w]] # "activating"
    /\ pc[w] \in {"genLock", "flags"} => Runs(drv[w])
    /\ pc[w] \in Created => Name(w) \in config

RemovalFits(w) ==
    /\ job[w] # "error" /\ pc[w] # "errorReply"
    /\ pc[w] \in Removed => Name(w) \notin config

WorkerFits(w) == drv[w] # NoDriver => IF job[w] = "activate" THEN ActivationFits(w) ELSE RemovalFits(w)

DriverFits(d) ==
    /\ named[d] = TRUE /\ errFile[d] = FALSE /\ dstate[d] \in Gone \cup Wanted
    /\ d \in Builtin \ Core => dstate[d] = "absent"
    /\ dstate[d] = "active" => NameOf[d] \in config
    /\ dstate[d] \in Gone => NameOf[d] \notin config
    /\ \A i \in 1..Len(pending[d]) : pending[d][i] # "error"

\* S is what the hosts should be offered, once every handler has listed.
Right(S) ==
    \A d \in Drivers :
        /\ dstate[d] = "active" => NameOf[d] \in S
        /\ dstate[d] \in Gone => NameOf[d] \notin S
        /\ \A w \in Workers : drv[w] = d /\ pc[w] \in Listed /\ Awaited(d, job[w])
                                  => (NameOf[d] \in S <=> job[w] = "activate")

Shown == /\ \A w \in Workers : pc[w] \in Uploading => Right(listed[w])
         /\ (\A w \in Workers : pc[w] \notin Uploading) =>
                \A S \in SUBSET Names : host["service"] = {S} => Right(S)

Fits == (\A d \in Drivers : DriverFits(d)) /\ (\A w \in Workers : WorkerFits(w)) /\ Shown

OfferInv == failures = 0 => Fits

\* It supposes what the theorems before suppose.
LEMMA OrderlyIs == Orderly => Separate /\ Living
BY DEF Orderly, Separate, Living

\* All that is known of a state in which no call has failed.
Known == Settles /\ FileInv /\ RoleInv /\ Fits

\* A worker at work, and its driver.
LEMMA AtTask ==
    ASSUME Known, NEW w \in Workers, drv[w] # NoDriver
    PROVE  /\ w \in Callers /\ w # Startup /\ drv[w] \in Drivers
           /\ job[w] \in {"activate", "deactivate", "remove"}
           /\ DriverFits(drv[w]) /\ WorkerFits(w) /\ InLine(drv[w])
           /\ pc[w] \in Course[job[w]] /\ drv[w] # NoDriver
           /\ IF job[w] = "activate" THEN ActivationFits(w) ELSE RemovalFits(w)
<1>1. w \in Callers /\ w # Startup
  BY DriverAssumption DEF Callers
<1>2. drv[w] \in Drivers /\ job[w] \in Events
  BY <1>1 DEF Known, Settles, WorkInv
<1>3. DriverFits(drv[w]) /\ WorkerFits(w) /\ InLine(drv[w]) /\ pc[w] \in Course[job[w]]
  BY <1>2 DEF Known, Fits, Settles, LineInv, OnCourse
<1>4. job[w] # "error"
  BY <1>3 DEF WorkerFits, RemovalFits
<1> QED
  BY <1>1, <1>2, <1>3, <1>4 DEF WorkerFits, Events, Settled

\* Which drivers an activation may meet.
LEMMA Activated ==
    ASSUME Known, NEW w \in Workers, drv[w] # NoDriver, job[w] = "activate"
    PROVE  /\ dstate[drv[w]] \in {"active", "activating", "deactivating", "removing"}
           /\ drv[w] \in Builtin => drv[w] \in Core
           /\ Awaited(drv[w], "activate") => dstate[drv[w]] = "activating"
<1>1. DriverFits(drv[w]) /\ InLine(drv[w]) /\ drv[w] \in Drivers
  BY AtTask
<1>2. dstate[drv[w]] \in Gone =>
          dstate[drv[w]] \notin InTransition /\ Due[dstate[drv[w]]] # "activate"
  BY DEF Gone, InTransition, EventOf, Due
<1>3. dstate[drv[w]] \notin Gone
  BY <1>1, <1>2 DEF InLine
<1>4. dstate[drv[w]] \in Wanted
  BY <1>1, <1>3 DEF DriverFits
<1> QED
  BY <1>1, <1>3, <1>4 DEF DriverFits, Gone, Wanted, Awaited, EventOf, InTransition

\* Which drivers a deactivation or removal may meet.
LEMMA Deactivated ==
    ASSUME Known, NEW w \in Workers, drv[w] # NoDriver, job[w] # "activate"
    PROVE  dstate[drv[w]] # "active"
<1>1. InLine(drv[w])
  BY AtTask
<1>2. "active" \notin InTransition /\ Due["active"] = "activate"
  BY DEF InTransition, EventOf, Due
<1> QED
  BY <1>1, <1>2 DEF InLine

\* A driver whose record stays fits as long as its description does.
LEMMA StillFits ==
    ASSUME NEW d \in Drivers, DriverFits(d), UNCHANGED <<dstate, named, pending>>,
           errFile'[d] = errFile[d],
           dstate[d] = "active" => NameOf[d] \in config',
           dstate[d] \in Gone => NameOf[d] \notin config'
    PROVE  DriverFits(d)'
BY DEF DriverFits

\* A step of an activation.
Progress(w, b) == /\ pc[w] # "publish" /\ pc[w] # "errorReply"
                  /\ pc' = [pc EXCEPT ![w] = b] /\ pc'[w] = b
                  /\ UNCHANGED <<record, pending, errFile, job, drv>>

\* What a step of the worker w has to show.
TaskFits(w) == WorkerFits(w)' /\ \A d \in Drivers : drv[w] = d => DriverFits(d)'

\* It fits, if it keeps to what ActivationFits says of where it goes.
LEMMA GoOnFits ==
    ASSUME Known, NEW w \in Workers, drv[w] # NoDriver, job[w] = "activate", NEW b, Progress(w, b),
           dstate[drv[w]] = "active" => Name(w) \in config',
           b \in Checked => dstate[drv[w]] # "active",
           b = "errorReply" => dstate[drv[w]] # "activating",
           b \in {"genLock", "flags"} => Runs(drv[w])',
           b \in Created => Name(w) \in config'
    PROVE  TaskFits(w)
<1>1. dstate[drv[w]] \notin Gone
  BY Activated DEF Gone
<1>2. ASSUME NEW d \in Drivers, drv[w] = d
      PROVE  DriverFits(d)'
  BY <1>1, <1>2, AtTask, StillFits DEF Progress, record, Name
<1>3. ActivationFits(w)'
  BY DEF ActivationFits, Progress, record, Name, Runs
<1> QED
  BY <1>2, <1>3 DEF TaskFits, WorkerFits, Progress

\* Getting the plugin: nothing is refused, for no error is remembered and what
\* is read is whole.
LEMMA StageFits ==
    ASSUME Known, Orderly, failures = 0, failures' = 0,
           NEW w \in Workers, drv[w] # NoDriver, Stage(w)
    PROVE  TaskFits(w)
<1>1. w \in Callers /\ w # Startup /\ ActivationFits(w) /\ job[w] = "activate" /\ ~errFile[drv[w]]
  <2>1. pc[w] \in Course["activate"] /\ job[w] = "activate"
    <3>1. pc[w] \in {"getError", "isInstalled", "download", "copyStaged", "nameCache"}
      BY DEF Stage, GetError, IsInstalled, Download, CopyStaged, NameCache, StageFails, Step
    <3> QED
      BY <3>1, AtTask DEF Course, Uploading, Writing
  <2> QED
    BY <2>1, AtTask DEF DriverFits
<1>2. PICK b \in {"isInstalled", "nameCheck", "download", "copyStaged", "nameCache"} :
          Step(w, pc[w], b)
  BY <1>1 DEF Stage, GetError, IsInstalled, Download, CopyStaged, NameCache, StageFails, Fail,
     Staged, Step
<1>3. UNCHANGED <<record, pending, errFile, job, drv, config>> /\ pc[w] \in Course["activate"]
      /\ pc[w] # "publish" /\ pc[w] # "errorReply"
  BY <1>1, AtTask DEF Stage, GetError, IsInstalled, Download, CopyStaged, NameCache, StageFails, Fail,
     Step, others, schema
<1>4. Progress(w, b)
  BY <1>1, <1>2, <1>3 DEF Progress, Step, Goto, Known, Settles, LockInv
<1>5. dstate[drv[w]] = "active" => Name(w) \in config'
  BY <1>3, AtTask DEF DriverFits, Name
<1>6. b \notin Checked /\ b \notin Created /\ b # "errorReply" /\ b \notin {"genLock", "flags"}
  BY <1>2 DEF Checked, Flagged, Created, Generating, Uploading, Writing
<1> QED
  BY <1>1, <1>4, <1>5, <1>6, GoOnFits

\* The check of the name: only the driver itself can have taken it.
LEMMA NameCheckFits ==
    ASSUME Known, Orderly, failures = 0, failures' = 0,
           NEW w \in Workers, drv[w] # NoDriver, NameCheck(w)
    PROVE  TaskFits(w)
<1>1. /\ w \in Callers /\ pc[w] = "nameCheck" /\ drv[w] \in Drivers
      /\ job[w] = "activate" /\ DriverFits(drv[w])
  <2>1. pc[w] = "nameCheck"
    BY DEF NameCheck, Step
  <2> QED
    BY <2>1, AtTask DEF Course, Uploading, Writing
<1>2. UNCHANGED <<record, pending, errFile, job, drv, config>>
  BY DEF NameCheck, others, disk, schema
<1>3. ASSUME NEW d \in Active, NameOf[d] = Name(w)
      PROVE  d = drv[w]
  BY <1>1, <1>3 DEF Active, Name, Orderly
<1>4. PICK b \in {"open", "errorReply"} :
          /\ Step(w, "nameCheck", b)
          /\ b = "open" <=> dstate[drv[w]] # "active"
  <2>1. (\E d \in Active : named[d] /\ NameOf[d] = Name(w)) <=> dstate[drv[w]] = "active"
    BY <1>1, <1>3 DEF Active, Name, DriverFits
  <2> QED
    BY <2>1 DEF NameCheck, Fail
<1>5. Progress(w, b)
  BY <1>1, <1>2, <1>4 DEF Progress, Step, Goto, Known, Settles, LockInv
<1>6. dstate[drv[w]] = "active" => Name(w) \in config'
  BY <1>1, <1>2 DEF DriverFits, Name
<1>7. b \notin Created /\ b \notin {"genLock", "flags"} /\ (b \in Checked => b = "open")
  BY DEF Checked, Flagged, Created, Generating, Uploading, Writing
<1> QED
  BY <1>1, <1>4, <1>5, <1>6, <1>7, GoOnFits

\* Installing: what is copied is whole, a built-in driver is in the core.
LEMMA InstallFits ==
    ASSUME Known, Orderly, failures = 0, failures' = 0,
           NEW w \in Workers, drv[w] # NoDriver, Install(w)
    PROVE  TaskFits(w)
<1>1. /\ w \in Callers /\ w # Startup /\ job[w] = "activate" /\ ActivationFits(w)
      /\ DriverFits(drv[w]) /\ drv[w] \in Drivers /\ Name(w) \in Names
      /\ pc[w] \in {"open", "copy", "rename"}
  <2>1. pc[w] \in {"open", "copy", "rename"}
    BY DEF Install, Open, Copy, Rename, Step
  <2>2. job[w] = "activate"
    BY <2>1, AtTask DEF Course, Uploading, Writing
  <2> QED
    BY <2>1, <2>2, AtTask DEF Name, Names
<1>2. AtStep(w) /\ (drv[w] \in Builtin => drv[w] \in Core)
  BY <1>1, Activated DEF Known, FileInv
<1>3. UNCHANGED <<record, pending, errFile, job, drv, config>>
  BY DEF Install, Open, Copy, Rename, others, schema
<1>4. dstate[drv[w]] # "active"
  BY <1>1 DEF ActivationFits, Checked, Flagged
<1>5. PICK b \in {"copy", "rename", "genLock"} :
          /\ Step(w, pc[w], b)
          /\ b = "genLock" => drv[w] \in Core \/ bin'[Name(w)] = "whole"
  <2>1. CASE Open(w)
    BY <1>1, <1>2, <2>1 DEF Open, AtStep, IsBuiltin, Installed, Fail, Step
  <2>2. CASE Copy(w)
    BY <2>2 DEF Copy, Fail, Step
  <2>3. CASE Rename(w)
    <3>1. /\ Step(w, "rename", "genLock") /\ bin' = [bin EXCEPT ![Name(w)] = tmp[Name(w)]]
          /\ tmp[Name(w)] = "whole"
      BY <1>1, <1>2, <2>3 DEF Rename, AtStep, Installed, Step, Fail
    <3>2. bin'[Name(w)] = "whole"
      BY <1>1, <3>1 DEF Known, FileInv, FilesType
    <3> QED
      BY <3>1, <3>2 DEF Step
  <2> QED
    BY <2>1, <2>2, <2>3 DEF Install
<1>6. Progress(w, b)
  BY <1>1, <1>3, <1>5 DEF Progress, Step, Goto, Known, Settles, LockInv
<1>7. b = "genLock" => Runs(drv[w])'
  BY <1>3, <1>5 DEF Runs, Name
<1>8. b \notin Created /\ b # "flags" /\ b # "errorReply"
  BY DEF Created, Uploading, Writing
<1> QED
  BY <1>1, <1>4, <1>6, <1>7, <1>8, GoOnFits

\* Describing the driver: its plugin runs, and its <name>Config comes back.
LEMMA GenerateFits ==
    ASSUME Known, Orderly, failures = 0, failures' = 0,
           NEW w \in Workers, drv[w] # NoDriver, GenerateAndUploadSchema(w) \/ GetVersion(w)
    PROVE  TaskFits(w)
<1>1. /\ w \in Callers /\ job[w] = "activate" /\ ActivationFits(w)
      /\ DriverFits(drv[w]) /\ drv[w] \in Drivers /\ Name(w) \in Names
      /\ pc[w] \in {"genLock", "version"} \cup Generating
  <2>1. pc[w] \in {"genLock", "version"} \cup Generating
    BY DEF GenerateAndUploadSchema, GenLock, GetCreateFlags, RemoveConfig, CreateConfig, GetVersion,
       SchemaFails, Step, Generating
  <2>2. job[w] = "activate"
    BY <2>1, AtTask DEF Course, Uploading, Writing, Generating
  <2> QED
    BY <2>1, <2>2, AtTask DEF Name, Names
<1>2. UNCHANGED <<record, pending, errFile, job, drv, bin>>
  BY DEF GenerateAndUploadSchema, GenLock, GetCreateFlags, RemoveConfig, CreateConfig, GetVersion,
     rest, disk, binary
<1>3. dstate[drv[w]] # "active"
  BY <1>1 DEF ActivationFits, Checked, Flagged, Created, Generating
<1>4. PICK b \in {"flags", "removeConfig", "createConfig", "version", "uploadLock"} :
          /\ Step(w, pc[w], b)
          /\ b = "flags" => pc[w] = "genLock"
          /\ b \in {"version", "uploadLock"} => Name(w) \in config'
  <2>1. CASE GenLock(w)
    BY <2>1 DEF GenLock, Step
  <2>2. CASE GetCreateFlags(w)
    BY <1>1, <2>2 DEF GetCreateFlags, SchemaFails, Fail, Step, ActivationFits
  <2>3. CASE RemoveConfig(w)
    BY <2>3 DEF RemoveConfig, Step
  <2>4. CASE CreateConfig(w)
    BY <2>4 DEF CreateConfig, SchemaFails, Fail, Step
  <2>5. CASE GetVersion(w)
    BY <1>1, <2>5 DEF GetVersion, Fail, Step, ActivationFits, Created, schema
  <2> QED
    BY <2>1, <2>2, <2>3, <2>4, <2>5 DEF GenerateAndUploadSchema
<1>5. Progress(w, b)
  <2>1. pc[w] # "publish" /\ pc[w] # "errorReply"
    BY <1>1 DEF Generating
  <2> QED
    BY <1>1, <1>2, <1>4, <2>1 DEF Progress, Step, Goto, Known, Settles, LockInv
<1>6. b = "flags" => Runs(drv[w])'
  BY <1>1, <1>2, <1>4 DEF ActivationFits, Runs
<1>7. /\ b # "errorReply" /\ b # "genLock"
      /\ b \in Created => b \in {"version", "uploadLock"}
  BY DEF Created, Uploading, Writing
<1> QED
  BY <1>1, <1>3, <1>4, <1>5, <1>6, <1>7, GoOnFits

\* Deactivating, or removing, a driver: its description goes, and stays away.
LEMMA RemovalKeepsFits ==
    ASSUME Known, failures = 0, failures' = 0, NEW w \in Workers, drv[w] # NoDriver,
           RemoveSchemas(w) \/ GetToRemove(w) \/ Remove(w)
    PROVE  TaskFits(w)
<1>1. /\ w \in Callers /\ RemovalFits(w) /\ DriverFits(drv[w]) /\ drv[w] \in Drivers
      /\ pc[w] \in {"rmSchemas", "getToRemove", "rmBin", "rmStaged", "rmCache"}
      /\ job[w] # "activate"
  <2>1. pc[w] \in {"rmSchemas", "getToRemove", "rmBin", "rmStaged", "rmCache"}
    BY DEF RemoveSchemas, GetToRemove, Remove, RemoveBinary, RemoveStaged, RemoveCache, Step
  <2>2. job[w] # "activate"
    BY <2>1, AtTask DEF Course, Uploading, Writing, Generating
  <2> QED
    BY <2>1, <2>2, AtTask
<1>2. UNCHANGED <<record, pending, errFile, job, drv>>
  BY DEF RemoveSchemas, GetToRemove, Remove, RemoveBinary, RemoveStaged, RemoveCache, rest, others,
     disk
<1>3. PICK b \in Removed \ {"errorReply"} : Step(w, pc[w], b)
  BY DEF RemoveSchemas, GetToRemove, Remove, RemoveBinary, RemoveStaged, RemoveCache, Fail, Step,
     Removed
<1>4. Name(w) \notin config' /\ config' \subseteq config
  <2>1. CASE RemoveSchemas(w)
    <3>1. Described(w) = {Name(w)}
      BY <1>1 DEF Described, DriverFits
    <3> QED
      BY <2>1, <3>1 DEF RemoveSchemas, Fail
  <2>2. CASE GetToRemove(w) \/ Remove(w)
    <3>1. config' = config /\ pc[w] \in Removed
      BY <2>2 DEF GetToRemove, Remove, RemoveBinary, RemoveStaged, RemoveCache, others, schema,
         Step, Removed
    <3> QED
      BY <1>1, <3>1 DEF RemovalFits
  <2> QED
    BY <2>1, <2>2
<1>5. pc'[w] = b
  BY <1>1, <1>3 DEF Step, Goto, Known, Settles, LockInv
<1>6. ASSUME NEW d \in Drivers, drv[w] = d
      PROVE  DriverFits(d)'
  BY <1>1, <1>2, <1>4, <1>6, Deactivated, StillFits DEF record, Name
<1>7. RemovalFits(w)'
  BY <1>1, <1>2, <1>3, <1>4, <1>5 DEF RemovalFits, Name
<1> QED
  BY <1>1, <1>2, <1>6, <1>7 DEF TaskFits, WorkerFits

\* Uploading what the hosts are offered, which ends a handler of either kind.
LEMMA UploadKeepsFits ==
    ASSUME Known, failures = 0, failures' = 0, NEW w \in Workers, drv[w] # NoDriver,
           UploadMachineSchemas(w)
    PROVE  TaskFits(w)
<1>1. /\ w \in Callers /\ drv[w] \in Drivers /\ DriverFits(drv[w])
      /\ IF job[w] = "activate" THEN ActivationFits(w) ELSE RemovalFits(w)
  BY AtTask
<1>2. UNCHANGED <<record, pending, errFile, job, drv, config>>
  BY DEF UploadMachineSchemas, UploadLock, ListDrivers, RemoveHost, UploadHost, rest, disk, schema
<1>3. PICK b \in {"list", "publish"} \cup Uploading :
          Step(w, pc[w], b) /\ pc[w] \in {"uploadLock", "list"} \cup Uploading
  <2>1. CASE UploadLock(w) \/ ListDrivers(w) \/ RemoveHost(w)
    BY <2>1, UploadsAre DEF UploadLock, ListDrivers, RemoveHost, SchemaFails, Fail, Step, Uploading, Writing
  <2>2. ASSUME NEW i \in 1..Len(Uploads), UploadHost(w, i)
        PROVE  Step(w, Uploads[i], AfterUpload(i)) /\ Uploads[i] \in Uploading
               /\ AfterUpload(i) \in {"publish"} \cup Uploading
    BY <2>2, UploadsAre DEF UploadHost, SchemaFails, Fail, AfterUpload, Uploading, Writing
  <2>3. ASSUME NEW i \in 1..Len(Uploads), UploadHost(w, i)
        PROVE  Step(w, pc[w], AfterUpload(i)) /\ pc[w] \in Uploading
    BY <2>2, <2>3 DEF Step
  <2> QED
    BY <2>1, <2>2, <2>3 DEF UploadMachineSchemas
<1>4. pc'[w] = b
  BY <1>1, <1>3 DEF Step, Goto, Known, Settles, LockInv
<1>5. ASSUME NEW d \in Drivers, drv[w] = d
      PROVE  DriverFits(d)'
  BY <1>1, <1>2, <1>5 DEF DriverFits, record
<1>6. {"list", "publish", "uploadLock"} \cup Uploading \subseteq Checked \cap Created \cap Removed
  BY DEF Checked, Flagged, Created, Removed
<1>7. \A x \in {"list", "publish"} \cup Uploading : x \notin {"genLock", "flags", "errorReply"}
  BY DEF Uploading, Writing
<1>8. job[w] = "activate" => ActivationFits(w)'
  BY <1>1, <1>2, <1>3, <1>4, <1>6, <1>7 DEF ActivationFits, record, Name
<1>9. job[w] # "activate" => RemovalFits(w)'
  BY <1>1, <1>2, <1>3, <1>4, <1>6, <1>7 DEF RemovalFits, Name
<1> QED
  BY <1>2, <1>5, <1>8, <1>9 DEF TaskFits, WorkerFits

\* The first step, and the last: a reply settles the driver as its description
\* is, and a refusal is not waited for.
LEMMA ReplyFits ==
    ASSUME Known, failures = 0, failures' = 0, NEW w \in Workers, drv[w] # NoDriver,
           GetDriver(w) \/ PublishReply(w) \/ ErrorReply(w)
    PROVE  TaskFits(w)
<1>1. /\ w \in Callers /\ drv[w] \in Drivers /\ DriverFits(drv[w]) /\ drv[w] \notin {NoDriver}
      /\ job[w] \in {"activate", "deactivate", "remove"} /\ InLine(drv[w])
      /\ IF job[w] = "activate" THEN ActivationFits(w) ELSE RemovalFits(w)
  BY AtTask
<1>2. CASE GetDriver(w)
  <2>1. PICK b \in {"getError", "rmSchemas"} : Step(w, "getDriver", b)
    BY <1>1, <1>2 DEF GetDriver, Fail, First
  <2>2. UNCHANGED <<record, pending, errFile, job, drv, config>>
    BY <1>2 DEF GetDriver, Fail, disk, schema
  <2>3. pc'[w] = b
    BY <1>1, <2>1 DEF Step, Goto, Known, Settles, LockInv
  <2>4. b \notin Checked \cup Created \cup Removed \cup {"errorReply", "genLock", "flags"}
    BY DEF Checked, Flagged, Created, Removed, Generating, Uploading, Writing
  <2>5. ASSUME NEW d \in Drivers, drv[w] = d
        PROVE  DriverFits(d)'
    BY <1>1, <2>2, <2>5 DEF DriverFits, record
  <2>6. job[w] = "activate" => ActivationFits(w)'
    BY <2>3, <2>4 DEF ActivationFits
  <2>7. job[w] # "activate" => RemovalFits(w)'
    BY <1>1, <2>2, <2>3, <2>4 DEF RemovalFits
  <2> QED
    BY <2>2, <2>5, <2>6, <2>7 DEF TaskFits, WorkerFits
<1>3. ASSUME NEW d \in Drivers, drv[w] = d, PublishReply(w) \/ ErrorReply(w)
      PROVE  DriverFits(d)'
  <2>1. UNCHANGED <<pending, errFile, config>>
    BY <1>3 DEF PublishReply, ErrorReply, disk, schema
  <2>2. CASE UNCHANGED record
    BY <1>1, <1>3, <2>1, <2>2 DEF DriverFits, record
  <2>3. CASE ErrorReply(w) /\ ~UNCHANGED record
    <3>1. Awaited(d, "activate") /\ job[w] = "activate" /\ pc[w] = "errorReply"
      BY <1>3, <2>3 DEF ErrorReply, Refused, Fail
    <3>2. dstate[d] = "activating"
      BY <1>3, <3>1, Activated
    <3> QED
      BY <1>1, <1>3, <3>1, <3>2 DEF ActivationFits
  <2>4. CASE PublishReply(w) /\ Awaited(d, job[w])
    <3>1. /\ pc[w] = "publish" /\ dstate' = [dstate EXCEPT ![d] = Settled[job[w]]]
          /\ named' = [named EXCEPT ![d] = @ \/ job[w] = "activate"]
      BY <1>3, <2>4 DEF PublishReply, Answered, Fail
    <3>2. dstate'[d] = Settled[job[w]] /\ named'[d] = TRUE /\ errFile'[d] = FALSE
      <4>1. named \in [Drivers -> BOOLEAN] /\ dstate \in [Drivers -> DriverStates] /\ named[d] = TRUE
        BY <1>1, <1>3 DEF Known, Settles, DataType, RecordType, DriverFits
      <4>2. dstate'[d] = Settled[job[w]]
        BY <3>1, <4>1
      <4>3. named'[d] = (named[d] \/ job[w] = "activate")
        BY <3>1, <4>1, Zenon
      <4> QED
        BY <1>1, <1>3, <2>1, <4>1, <4>2, <4>3 DEF DriverFits
    <3>3. dstate[d] # "absent"
      BY <2>4 DEF Awaited, InTransition, EventOf
    <3>4. d \notin Builtin \ Core
      BY <1>1, <1>3, <3>3 DEF DriverFits
    <3>5. \A i \in 1..Len(pending'[d]) : pending'[d][i] # "error"
      BY <1>1, <1>3, <2>1 DEF DriverFits
    <3>6. CASE job[w] = "activate"
      <4>1. dstate'[d] = "active" /\ NameOf[d] \in config
        BY <1>1, <1>3, <3>1, <3>2, <3>6 DEF Settled, ActivationFits, Created, Name
      <4> QED
        BY <2>1, <3>2, <3>4, <3>5, <4>1 DEF DriverFits, Gone, Wanted
    <3>7. CASE job[w] # "activate"
      <4>1. dstate'[d] \in {"inactive", "removed"} /\ NameOf[d] \notin config
        BY <1>1, <1>3, <3>1, <3>2, <3>7 DEF Settled, RemovalFits, Removed, Name
      <4> QED
        BY <2>1, <3>2, <3>4, <3>5, <4>1 DEF DriverFits, Gone, Wanted
    <3> QED
      BY <3>6, <3>7
  <2> QED
    BY <1>3, <2>2, <2>3, <2>4 DEF PublishReply, Answered
<1>4. CASE PublishReply(w) \/ ErrorReply(w)
  <2>1. drv'[w] = NoDriver
    <3>1. Finish(w)
      BY <1>4 DEF PublishReply, ErrorReply, Fail
    <3> QED
      BY <1>1, <3>1 DEF Finish, Known, Settles, WorkInv
  <2> QED
    BY <1>3, <1>4, <2>1 DEF TaskFits, WorkerFits
<1> QED
  BY <1>2, <1>4

\* The records, the descriptions and the workers fit after a handler's step.
LEMMA HandlerFits ==
    ASSUME Known, Orderly, failures = 0, failures' = 0, NEW w \in Workers, Handle(w)
    PROVE  (\A d \in Drivers : DriverFits(d)') /\ (\A v \in Workers : WorkerFits(v)')
<1>1. w \in Callers /\ drv[w] \in Drivers /\ drv[w] # NoDriver /\ Workers \subseteq Callers
  BY AtTask DEF Handle, Callers
<1>2. TaskFits(w)
  <2>1. ~ClearError(w)
    <3>1. pc[w] # "clearError"
      BY <1>1, AtTask DEF Course, Uploading, Writing, Generating
    <3> QED
      BY <3>1 DEF ClearError, Step
  <2> QED
    BY <1>1, <2>1, StageFits, NameCheckFits, InstallFits, GenerateFits, RemovalKeepsFits,
       UploadKeepsFits, ReplyFits DEF Handle
<1>3. Narrow(w)
  BY OrderlyIs, NarrowStep DEF Known
<1>4. ASSUME NEW d \in Drivers
      PROVE  DriverFits(d)'
  <2>1. CASE drv[w] = d
    BY <1>2, <2>1 DEF TaskFits
  <2>2. CASE drv[w] # d
    BY <1>3, <2>2 DEF Narrow, DriverFits, Known, Fits
  <2> QED
    BY <2>1, <2>2
<1>5. ASSUME NEW v \in Workers, v # w
      PROVE  WorkerFits(v)'
  <2>1. pc'[v] = pc[v] /\ job'[v] = job[v] /\ drv'[v] = drv[v]
    <3>1. GoesOn(w) \/ Finish(w)
      BY <1>1, AtTask, CourseStep DEF Known, Settles
    <3> QED
      BY <1>1, <1>5, <3>1 DEF GoesOn, SameWork, Finish, Goto, Known, Settles, LockInv, WorkInv
  <2>2. WorkerFits(v)
    BY DEF Known, Fits
  <2>3. CASE drv[v] = NoDriver
    BY <2>1, <2>3 DEF WorkerFits
  <2>4. ASSUME NEW d \in Drivers, drv[v] = d
        PROVE  WorkerFits(v)'
    <3>1. drv[w] # d
      BY <1>1, <1>5, <2>4 DEF Known, Settles, Alone
    <3>2. /\ dstate'[d] = dstate[d] /\ bin'[NameOf[d]] = bin[NameOf[d]]
          /\ NameOf[d] \in config' <=> NameOf[d] \in config
      BY <1>3, <3>1 DEF Narrow
    <3>3. ActivationFits(v) => ActivationFits(v)'
      BY <2>1, <2>4, <3>2 DEF ActivationFits, Runs, Name
    <3>4. RemovalFits(v) => RemovalFits(v)'
      BY <2>1, <2>4, <3>2 DEF RemovalFits, Name
    <3> QED
      BY <2>1, <2>2, <3>3, <3>4 DEF WorkerFits
  <2> QED
    BY <1>1, <2>3, <2>4 DEF Known, Settles, WorkInv
<1> QED
  BY <1>2, <1>4, <1>5 DEF TaskFits

-----------------------------------------------------------------------------
(***************************************************************************)
(* What is shown.                                                          *)
(***************************************************************************)
\* Only ListDrivers leads to the uploads.
LEMMA OnlyLists ==
    ASSUME Known, failures = 0, failures' = 0, NEW w \in Workers, Handle(w), ~ListDrivers(w),
           pc'[w] \in Listed, drv'[w] # NoDriver
    PROVE  pc[w] \in Uploading
<1>1. /\ w \in Callers /\ drv[w] # NoDriver /\ pc \in [Callers -> Free \cup Locked] /\ w # Startup
      /\ job[w] \in {"activate", "deactivate", "remove"} /\ pc[w] \in Course[job[w]]
  BY AtTask DEF Handle, Known, Settles, LockInv
<1> USE DEF Listed, Uploading, Writing
<1>2. ~(Stage(w) \/ Install(w))
  BY <1>1 DEF Stage, GetError, IsInstalled, Download, CopyStaged, NameCache, StageFails, Staged,
     Erred, Install, Open, Copy, Rename, Installed, Step, Goto
<1>3. ~(GetDriver(w) \/ NameCheck(w) \/ Remove(w) \/ GetToRemove(w) \/ RemoveSchemas(w))
  BY <1>1 DEF GetDriver, First, Fail, NameCheck, Remove, RemoveBinary, RemoveStaged, RemoveCache,
     GetToRemove, RemoveSchemas, Step, Goto
<1>4. ~(GenerateAndUploadSchema(w) \/ GetVersion(w))
  BY <1>1 DEF GenerateAndUploadSchema, GenLock, GetCreateFlags, RemoveConfig, CreateConfig,
     SchemaFails, GetVersion, Step, Goto
<1>5. ~ClearError(w)
  BY <1>1 DEF ClearError, Step, Course, Generating
<1>6. ~(PublishReply(w) \/ ErrorReply(w))
  BY <1>1 DEF PublishReply, ErrorReply, Fail, Finish, Known, Settles, WorkInv
<1>7. ~UploadLock(w)
  BY <1>1 DEF UploadLock, Step, Goto
<1>8. RemoveHost(w) \/ \E i \in 1..Len(Uploads) : UploadHost(w, i)
  BY <1>2, <1>3, <1>4, <1>5, <1>6, <1>7 DEF Handle, UploadMachineSchemas
<1> QED
  BY <1>8, UploadsAre DEF RemoveHost, UploadHost, SchemaFails, Step

\* What was right stays so, for every driver, whoever takes a step.
RightFor(S, d) ==
    /\ dstate[d] = "active" => NameOf[d] \in S
    /\ dstate[d] \in Gone => NameOf[d] \notin S
    /\ \A w \in Workers : drv[w] = d /\ pc[w] \in Listed /\ Awaited(d, job[w])
                              => (NameOf[d] \in S <=> job[w] = "activate")

\* What is right stays right when a step of a handler lists nothing: a reply that
\* comes agrees with what its worker has listed.
LEMMA RightAfterHandle ==
    ASSUME Known, Orderly, failures = 0, failures' = 0, NEW w \in Workers, Handle(w), ~ListDrivers(w),
           NEW S, Right(S)
    PROVE  Right(S)'
<1>1. w \in Callers /\ drv[w] \in Drivers /\ drv[w] # NoDriver /\ Workers \subseteq Callers
  BY AtTask DEF Handle, Callers
<1>2. ASSUME NEW v \in Workers, v # w
      PROVE  pc'[v] = pc[v] /\ job'[v] = job[v] /\ drv'[v] = drv[v]
  <2>1. GoesOn(w) \/ Finish(w)
    BY <1>1, AtTask, CourseStep DEF Known, Settles
  <2> QED
    BY <1>1, <1>2, <2>1 DEF GoesOn, SameWork, Finish, Goto, Known, Settles, LockInv, WorkInv
<1>3. drv'[w] = NoDriver \/ (drv'[w] = drv[w] /\ job'[w] = job[w])
  <2>1. GoesOn(w) \/ Finish(w)
    BY <1>1, AtTask, CourseStep DEF Known, Settles
  <2> QED
    BY <1>1, <2>1 DEF GoesOn, SameWork, Finish, Known, Settles, WorkInv
<1>4. ASSUME NEW d \in Drivers
      PROVE  RightFor(S, d)'
  <2>1. RightFor(S, d)
    BY DEF Right, RightFor
  <2>2. CASE dstate'[d] = dstate[d]
    <3>1. ASSUME NEW v \in Workers, drv'[v] = d, pc'[v] \in Listed, Awaited(d, job[v])'
          PROVE  NameOf[d] \in S <=> job'[v] = "activate"
      <4>1. drv[v] = d /\ job'[v] = job[v] /\ d # NoDriver
        BY <1>2, <1>3, <3>1, DriverAssumption
      <4>2. pc[v] \in Listed
        <5>1. CASE v = w
          <6>1. pc[w] \in Uploading
            BY <3>1, <4>1, <5>1, OnlyLists
          <6> QED
            BY <5>1, <6>1 DEF Listed
        <5>2. CASE v # w
          BY <1>2, <3>1, <5>2
        <5> QED
          BY <5>1, <5>2
      <4>3. Awaited(d, job[v])
        BY <2>2, <3>1, <4>1 DEF Awaited
      <4> QED
        BY <2>1, <4>1, <4>2, <4>3 DEF RightFor
    <3>2. /\ dstate'[d] = "active" => NameOf[d] \in S
          /\ dstate'[d] \in Gone => NameOf[d] \notin S
      BY <2>1, <2>2 DEF RightFor
    <3> QED
      BY <3>1, <3>2 DEF RightFor
  <2>3. CASE dstate'[d] # dstate[d]
    <3>1. drv[w] = d /\ Replies(w)
      BY <2>3, OrderlyIs, NarrowStep, RecordStep DEF Known, Narrow, record
    <3>2. pc[w] # "errorReply"
      <4>1. ASSUME pc[w] = "errorReply" PROVE FALSE
        <5>1. Awaited(d, "activate") /\ job[w] = "activate"
          BY <2>3, <3>1, <4>1 DEF Replies, Refused, record
        <5>2. dstate[d] = "activating"
          BY <1>1, <3>1, <5>1, Activated
        <5> QED
          BY <1>1, <3>1, <4>1, <5>1, <5>2, AtTask DEF ActivationFits
      <4> QED
        BY <4>1
    <3>3. pc[w] = "publish" /\ Awaited(d, job[w]) /\ dstate' = [dstate EXCEPT ![d] = Settled[job[w]]]
      BY <2>3, <3>1, <3>2 DEF Replies, Answered, record
    <3>4. dstate'[d] = Settled[job[w]]
      BY <3>3 DEF Known, Settles, DataType, RecordType
    <3>5. NameOf[d] \in S <=> job[w] = "activate"
      BY <2>1, <3>1, <3>3 DEF RightFor, Listed
    <3>6. job[w] \in {"activate", "deactivate", "remove"}
      BY <1>1, AtTask
    <3>7. dstate'[d] \notin InTransition
      BY <3>4, <3>6 DEF Settled, InTransition, EventOf
    <3>8. /\ dstate'[d] = "active" => job[w] = "activate"
          /\ dstate'[d] \in Gone => job[w] # "activate"
      BY <3>4, <3>6 DEF Settled, Gone
    <3> QED
      BY <3>5, <3>7, <3>8 DEF RightFor, Awaited
  <2> QED
    BY <2>2, <2>3
<1> QED
  BY <1>4 DEF Right, RightFor

\* What is listed is right.
LEMMA RightWhenListed ==
    ASSUME Known, Orderly, failures = 0, failures' = 0, NEW w \in Workers, drv[w] # NoDriver,
           ListDrivers(w)
    PROVE  Right(listed[w])'
<1>1. w \in Callers /\ drv[w] \in Drivers
  BY AtTask
<1>2. /\ Step(w, "list", "removeHost") /\ UNCHANGED <<dstate, named, drv, job>>
      /\ listed' = [listed EXCEPT ![w] = Own(w) \cup
             NamesIn({d \in Drivers : named[d] /\ dstate[d] \in {"active", "activating"}})]
  BY DEF ListDrivers, SchemaFails, Fail, rest, record
<1>3. DEFINE S == Own(w) \cup
             NamesIn({d \in Drivers : named[d] /\ dstate[d] \in {"active", "activating"}})
<1>4. listed'[w] = S
  BY <1>1, <1>2 DEF Known, RoleInv, SchemasType
<1>5. ASSUME NEW d \in Drivers
      PROVE  /\ NameOf[d] \in Own(w) <=> drv[w] = d /\ job[w] = "activate"
             /\ NameOf[d] \in S <=> \/ drv[w] = d /\ job[w] = "activate"
                                    \/ dstate[d] \in {"active", "activating"}
  <2>1. NameOf[d] \in Own(w) <=> drv[w] = d /\ job[w] = "activate"
    BY <1>1 DEF Own, Name, Orderly
  <2>2. NameOf[d] \in NamesIn({e \in Drivers : named[e] /\ dstate[e] \in {"active", "activating"}})
            <=> named[d] /\ dstate[d] \in {"active", "activating"}
    BY DEF NamesIn, Orderly
  <2>3. named[d]
    BY DEF Known, Fits, DriverFits
  <2> QED
    BY <2>1, <2>2, <2>3
<1>6. ASSUME NEW d \in Drivers
      PROVE  /\ dstate[d] = "active" => NameOf[d] \in S
             /\ dstate[d] \in Gone => NameOf[d] \notin S
             /\ \A v \in Workers : drv[v] = d /\ Awaited(d, job[v])
                                       => (NameOf[d] \in S <=> job[v] = "activate")
  <2>1. dstate[d] = "active" => NameOf[d] \in S
    BY <1>5
  <2>2. dstate[d] \in Gone => NameOf[d] \notin S
    <3>1. dstate[d] \in Gone => ~(drv[w] = d /\ job[w] = "activate")
      BY Activated DEF Gone
    <3> QED
      BY <1>5, <3>1 DEF Gone
  <2>3. ASSUME NEW v \in Workers, drv[v] = d, Awaited(d, job[v])
        PROVE  NameOf[d] \in S <=> job[v] = "activate"
    <3>1. drv[v] # NoDriver /\ (drv[w] = d => v = w)
      BY <2>3, DriverAssumption DEF Known, Settles, Alone
    <3>2. CASE job[v] = "activate"
      BY <1>5, <2>3, <3>1, <3>2, Activated
    <3>3. CASE job[v] # "activate"
      <4>1. dstate[d] \notin {"active", "activating"}
        BY <2>3, <3>3 DEF Awaited, InTransition, EventOf
      <4> QED
        BY <1>5, <3>1, <3>3, <4>1
    <3> QED
      BY <3>2, <3>3
  <2> QED
    BY <2>1, <2>2, <2>3
<1>7. ASSUME NEW d \in Drivers
      PROVE  /\ dstate'[d] = "active" => NameOf[d] \in S
             /\ dstate'[d] \in Gone => NameOf[d] \notin S
             /\ \A v \in Workers : drv'[v] = d /\ pc'[v] \in Listed /\ Awaited(d, job[v])'
                                       => (NameOf[d] \in S <=> job'[v] = "activate")
  BY <1>2, <1>6 DEF Awaited
<1> QED
  BY <1>4, <1>7 DEF Right

\* Only one worker uploads, and while it does nobody lists.
LEMMA OneUploads ==
    ASSUME LockInv, NEW v \in Workers, pc[v] \in Uploading \cup {"list"},
           NEW w \in Workers, pc[w] \in Uploading \cup {"list"}
    PROVE  v = w
BY DEF LockInv, Locked, Uploading, Callers

\* Outside of the uploads the "host" schemas are left alone.
LEMMA HandleFrame ==
    ASSUME Known, NEW w \in Workers, Handle(w), ~UploadMachineSchemas(w)
    PROVE  UNCHANGED <<host, listed>>
<1>1. w \in Callers /\ job[w] \in Events
  BY AtTask DEF Handle, Events, Settled
<1>2. CASE Stage(w) \/ Install(w) \/ Remove(w) \/ ClearError(w) \/ Unlocked(w)
  BY <1>1, <1>2, StageOutside, InstallOutside, RemoveOutside, UnlockedOutside DEF Frame
<1>3. CASE GenerateAndUploadSchema(w)
  BY <1>3, TakesLock, GeneratesInside DEF Frame, GenerateAndUploadSchema
<1> QED
  BY <1>2, <1>3 DEF Handle, Unlocked

\* A worker in the uploads makes their steps.
LEMMA OnlyUploads ==
    ASSUME NEW w \in Workers, Handle(w), pc[w] \in Uploading
    PROVE  UploadMachineSchemas(w)
<1> USE DEF Uploading, Writing, Step
<1>1. ~(Stage(w) \/ Install(w) \/ Remove(w) \/ ClearError(w))
  BY DEF Stage, GetError, IsInstalled, Download, CopyStaged, NameCache, StageFails, Install, Open,
     Copy, Rename, Remove, RemoveBinary, RemoveStaged, RemoveCache, ClearError
<1>2. ~(GetDriver(w) \/ NameCheck(w) \/ GetToRemove(w) \/ PublishReply(w) \/ ErrorReply(w))
  BY DEF GetDriver, NameCheck, GetToRemove, PublishReply, ErrorReply
<1>3. ~(GenerateAndUploadSchema(w) \/ GetVersion(w) \/ RemoveSchemas(w))
  BY DEF GenerateAndUploadSchema, GenLock, GetCreateFlags, RemoveConfig, CreateConfig,
     SchemaFails, GetVersion, RemoveSchemas
<1> QED
  BY <1>1, <1>2, <1>3 DEF Handle

\* What is shown after a step of a handler: listed anew, uploaded, or as before.
LEMMA ShownAfterHandle ==
    ASSUME Known, Orderly, failures = 0, failures' = 0, NEW w \in Workers, Handle(w)
    PROVE  Shown'
<1>1. /\ w \in Callers /\ drv[w] \in Drivers /\ drv[w] # NoDriver /\ Workers \subseteq Callers
      /\ LockInv /\ LockInv' /\ pc[w] \in Course[job[w]]
  <2>1. LockInv /\ WorkInv /\ [Next]_vars
    BY DEF Known, Settles, Next
  <2> QED
    BY <2>1, LockStep, AtTask DEF Handle, Callers
<1>2. ASSUME NEW v \in Workers, v # w
      PROVE  pc'[v] = pc[v]
  <2>1. GoesOn(w) \/ Finish(w)
    BY <1>1, CourseStep DEF Known, Settles
  <2> QED
    BY <1>1, <1>2, <2>1 DEF GoesOn, Finish, Goto, LockInv
<1>3. "publish" \notin Uploading /\ "idle" \notin Uploading
  BY DEF Uploading, Writing
<1>4. CASE ListDrivers(w)
  <2>1. /\ pc'[w] = "removeHost" /\ pc[w] = "list" /\ listed' = [listed EXCEPT ![w] = listed'[w]]
    BY <1>1, <1>4 DEF ListDrivers, SchemaFails, Fail, Step, Goto, LockInv, Known, RoleInv, SchemasType
  <2>2. \A v \in Workers : pc'[v] \in Uploading => v = w
    BY <1>1, <1>2, <2>1, OneUploads
  <2>3. Right(listed[w])'
    BY <1>1, <1>4, RightWhenListed
  <2>4. "removeHost" \in Uploading
    BY DEF Uploading
  <2> QED
    BY <2>1, <2>2, <2>3, <2>4 DEF Shown
<1>5. CASE ~ListDrivers(w)
  <2>1. ASSUME NEW v \in Workers, pc'[v] \in Uploading
        PROVE  pc[v] \in Uploading
    <3>1. CASE v = w
      <4>1. drv'[w] # NoDriver
        BY <1>1, <1>3, <2>1, <3>1, CourseStep DEF GoesOn, SameWork, Finish, Goto, Known, Settles, LockInv
      <4> QED
        BY <1>5, <2>1, <3>1, <4>1, OnlyLists DEF Listed
    <3>2. CASE v # w
      BY <1>2, <2>1, <3>2
    <3> QED
      BY <3>1, <3>2
  <2>2. ASSUME NEW v \in Workers, pc'[v] \in Uploading
        PROVE  Right(listed[v])'
    <3>1. pc[v] \in Uploading /\ v \in Callers
      BY <1>1, <2>1, <2>2
    <3>2. PICK S : S = listed[v]
      OBVIOUS
    <3>3. Right(S)
      BY <3>1, <3>2 DEF Known, Fits, Shown
    <3>4. Right(S)'
      BY <1>5, <3>3, RightAfterHandle
    <3>5. listed'[v] = listed[v]
      <4>1. CASE UploadMachineSchemas(w)
        <5>1. v = w
          <6>1. pc[w] \in Uploading \cup {"list", "uploadLock"} /\ (pc[w] = "uploadLock" => UploadLock(w))
            BY <4>1, UploadsAre DEF UploadMachineSchemas, UploadLock, ListDrivers, RemoveHost,
               UploadHost, SchemaFails, Step, Uploading, Writing
          <6>2. ~UploadLock(w)
            <7>1. schemaLock = v
              BY <1>1, <3>1 DEF LockInv, Locked, Uploading
            <7> QED
              BY <3>1, <7>1, DriverAssumption DEF UploadLock, TakeLock
          <6> QED
            BY <1>1, <3>1, <6>1, <6>2, OneUploads
        <5>2. pc'[w] \notin {"publish", "errorReply"}
          BY <2>2, <5>1 DEF Uploading, Writing
        <5> QED
          BY <1>5, <4>1, <5>2 DEF UploadMachineSchemas, UploadLock, RemoveHost, UploadHost
      <4>2. CASE ~UploadMachineSchemas(w)
        BY <4>2, HandleFrame
      <4> QED
        BY <4>1, <4>2
    <3> QED
      BY <3>2, <3>4, <3>5
  <2>3. ASSUME \A v \in Workers : pc'[v] \notin Uploading, NEW S \in SUBSET Names, host'["service"] = {S}
        PROVE  Right(S)'
    <3>1. SUFFICES Right(S)
      BY <1>5, RightAfterHandle
    <3>2. CASE pc[w] \in Uploading
      <4>1. UploadHost(w, 4)
        <5>1. ~RemoveHost(w)
          BY <1>1, <2>3, UploadsAre DEF RemoveHost, Step, Goto, LockInv, Uploading, Writing
        <5>2. UploadMachineSchemas(w)
          BY <3>2, OnlyUploads
        <5>3. PICK i \in 1..4 : UploadHost(w, i)
          BY <1>5, <3>2, <5>1, <5>2, UploadsAre DEF UploadMachineSchemas, UploadLock, Step, Uploading, Writing
        <5>4. pc'[w] = AfterUpload(i)
          BY <1>1, <5>3 DEF UploadHost, SchemaFails, Fail, Step, Goto, LockInv
        <5>5. i # 4 => AfterUpload(i) \in Uploading
          BY UploadsAre DEF AfterUpload, Uploading, Writing
        <5> QED
          BY <2>3, <5>3, <5>4, <5>5
      <4>2. pc[w] = Uploads[4] /\ host' = [host EXCEPT !["readonly"] = @ \cup {{}}]
        BY <4>1, UploadsAre DEF UploadHost, SchemaFails, Fail, Offer, Step
      <4>3. host["service"] = {listed[w]}
        <5>1. Filled(w, 4)
          BY <1>1, <4>2 DEF Known, RoleInv
        <5>2. 1 \in 1..4 /\ 1 < 4 /\ Uploads[1] = "service"
          BY UploadsAre
        <5>3. host["service"] = {Offered(w, "service")}
          BY <5>1, <5>2 DEF Filled
        <5> QED
          BY <5>3 DEF Offered
      <4>4. host'["service"] = host["service"]
        BY <4>2, UploadsAre DEF Known, RoleInv, SchemasType, Writing
      <4>5. S = listed[w]
        BY <2>3, <4>3, <4>4
      <4> QED
        BY <3>2, <4>5 DEF Known, Fits, Shown
    <3>3. CASE pc[w] \notin Uploading
      <4>1. host' = host
        <5>1. CASE UploadMachineSchemas(w)
          BY <1>5, <3>3, <5>1, UploadsAre DEF UploadMachineSchemas, UploadLock, RemoveHost, UploadHost,
             SchemaFails, Step, Uploading, Writing, schema
        <5>2. CASE ~UploadMachineSchemas(w)
          BY <5>2, HandleFrame
        <5> QED
          BY <5>1, <5>2
      <4>2. \A v \in Workers : pc[v] \notin Uploading
        BY <1>2, <2>3, <3>3
      <4> QED
        BY <2>3, <4>1, <4>2 DEF Known, Fits, Shown
    <3> QED
      BY <3>2, <3>3
  <2> QED
    BY <2>2, <2>3 DEF Shown
<1> QED
  BY <1>4, <1>5

\* What is not a step of a handler: an event comes, or a request, and is right
\* to come; a worker begins.
LEMMA ShownBeside ==
    ASSUME Shown, UNCHANGED <<host, listed>>,
           \A w \in Workers : pc'[w] \in Uploading <=> pc[w] \in Uploading,
           \A S : Right(S) => Right(S)'
    PROVE  Shown'
<1>1. ASSUME NEW w \in Workers, pc'[w] \in Uploading
      PROVE  Right(listed[w])'
  <2>1. PICK S : S = listed[w]
    OBVIOUS
  <2>2. Right(S)'
    BY <1>1, <2>1 DEF Shown
  <2> QED
    BY <2>1, <2>2
<1>2. ASSUME \A w \in Workers : pc'[w] \notin Uploading, NEW S \in SUBSET Names, host'["service"] = {S}
      PROVE  Right(S)'
  BY <1>2 DEF Shown
<1> QED
  BY <1>1, <1>2 DEF Shown

\* A step that touches none of it.
LEMMA SameFits ==
    ASSUME Known,
           UNCHANGED <<dstate, named, pending, errFile, config, host, bin, pc, job, drv, listed>>
    PROVE  Fits'
<1>1. \A d \in Drivers : DriverFits(d)'
  BY DEF DriverFits, Known, Fits
<1>2. \A w \in Workers : WorkerFits(w)'
  BY DEF WorkerFits, ActivationFits, RemovalFits, Runs, Name, Known, Fits
<1>3. \A S : Right(S) => Right(S)'
  BY DEF Right, Awaited
<1> QED
  BY <1>1, <1>2, <1>3, ShownBeside DEF Known, Fits

\* Cattle sends what is due.
LEMMA SendFits ==
    ASSUME Known, NEW e \in Drivers, CattleSends(e)
    PROVE  Fits'
<1>1. /\ pending' = [pending EXCEPT ![e] = Append(@, EventOf[dstate[e]])]
      /\ dstate[e] \in InTransition
      /\ UNCHANGED <<dstate, named, errFile, config, host, bin, pc, job, drv, listed>>
  BY DEF CattleSends, record, schema, disk, binary, local
<1>2. ASSUME NEW d \in Drivers
      PROVE  DriverFits(d)'
  <2>1. \A i \in 1..Len(pending'[d]) : pending'[d][i] # "error"
    <3>1. DriverFits(d) /\ pending[d] \in Seq(Events)
      BY DEF Known, Fits, Settles, WorkInv
    <3>2. CASE d = e
      <4>1. EventOf[dstate[e]] # "error" /\ EventOf[dstate[e]] \in Events
        <5>1. dstate[e] \in {"activating", "deactivating", "removing"}
          BY <1>1, <3>1, <3>2 DEF DriverFits, Gone, Wanted, InTransition, EventOf
        <5> QED
          BY <5>1 DEF EventOf, Events, Settled
      <4>2. pending'[d] = Append(pending[d], EventOf[dstate[e]])
        BY <1>1, <3>2 DEF Known, Settles, WorkInv
      <4>3. /\ Len(pending'[d]) = Len(pending[d]) + 1 /\ Len(pending[d]) \in Nat
            /\ \A i \in 1..Len(pending[d]) : pending'[d][i] = pending[d][i]
            /\ pending'[d][Len(pending[d]) + 1] = EventOf[dstate[e]]
        BY <3>1, <4>1, <4>2
      <4> QED
        BY <3>1, <4>1, <4>3 DEF DriverFits
    <3>3. CASE d # e
      BY <1>1, <3>1, <3>3 DEF DriverFits, Known, Settles, WorkInv
    <3> QED
      BY <3>2, <3>3
  <2> QED
    BY <1>1, <2>1 DEF DriverFits, Known, Fits
<1>3. \A w \in Workers : WorkerFits(w)'
  BY <1>1 DEF WorkerFits, ActivationFits, RemovalFits, Runs, Name, Known, Fits
<1>4. Shown'
  <2>1. \A S : Right(S) => Right(S)'
    BY <1>1 DEF Right, Awaited
  <2> QED
    BY <1>1, <2>1, ShownBeside DEF Known, Fits
<1> QED
  BY <1>2, <1>3, <1>4 DEF Fits

\* A user asks: the driver is settled, so no event of another kind is under way.
LEMMA UserFits ==
    ASSUME Known, Orderly, NEW e \in Drivers, User(e)
    PROVE  Fits'
<1>1. UNCHANGED <<pending, named, errFile, config, host, bin, pc, job, drv, listed>>
  BY DEF User, UserAsks, schema, disk, binary, local
<1>2. PICK t \in {"activating", "deactivating", "removing"} :
          /\ dstate' = [dstate EXCEPT ![e] = t]
          /\ dstate[e] \in {"active", "inactive", "error"}
          /\ dstate[e] = "active" => t # "activating"
          /\ dstate[e] = "inactive" => t # "deactivating"
  BY DEF User, UserAsks, Orderly
<1>3. /\ DriverFits(e) /\ InLine(e) /\ dstate'[e] = t
      /\ \A d \in Drivers : d # e => dstate'[d] = dstate[d]
  BY <1>2 DEF Known, Fits, Settles, LineInv, DataType, RecordType
<1>4. dstate[e] \in {"active", "inactive"}
  BY <1>2, <1>3 DEF DriverFits, Gone, Wanted
<1>5. ASSUME NEW w \in Workers, drv[w] = e
      PROVE  job[w] = IF dstate[e] = "active" THEN "activate" ELSE "deactivate"
  BY <1>3, <1>4, <1>5 DEF InLine, InTransition, EventOf, Due
<1>6. ASSUME NEW d \in Drivers
      PROVE  DriverFits(d)'
  <2>1. DriverFits(d)
    BY DEF Known, Fits
  <2>2. CASE d = e
    <3>1. e \notin Builtin \ Core
      BY <1>3, <1>4 DEF DriverFits
    <3>2. t \in Wanted /\ t \notin Gone /\ t # "active"
      BY DEF Wanted, Gone
    <3> QED
      BY <1>1, <1>3, <2>1, <2>2, <3>1, <3>2 DEF DriverFits
  <2>3. CASE d # e
    BY <1>1, <1>3, <2>1, <2>3 DEF DriverFits
  <2> QED
    BY <2>2, <2>3
<1>7. ASSUME NEW w \in Workers
      PROVE  WorkerFits(w)'
  <2>1. WorkerFits(w)
    BY DEF Known, Fits
  <2>2. CASE drv[w] = e
    <3>1. job[w] = "activate" => t # "activating"
      BY <1>2, <1>4, <1>5, <2>2
    <3> QED
      BY <1>1, <1>3, <2>1, <2>2, <3>1 DEF WorkerFits, ActivationFits, RemovalFits, Runs, Name
  <2>3. CASE drv[w] = NoDriver
    BY <1>1, <2>3 DEF WorkerFits
  <2>4. ASSUME NEW d \in Drivers, d # e, drv[w] = d
        PROVE  WorkerFits(w)'
    BY <1>1, <1>3, <2>1, <2>4 DEF WorkerFits, ActivationFits, RemovalFits, Runs, Name
  <2> QED
    BY <2>2, <2>3, <2>4 DEF Known, Settles, WorkInv, Callers
<1>8. ASSUME NEW S, Right(S)
      PROVE  Right(S)'
  <2>1. ASSUME NEW w \in Workers, drv[w] = e
        PROVE  ~Awaited(e, job[w])'
    <3>1. EventOf[t] # job[w]
      <4>1. CASE dstate[e] = "inactive"
        <5>1. job[w] = "deactivate" /\ t # "deactivating"
          BY <1>2, <1>5, <2>1, <4>1
        <5> QED
          BY <5>1 DEF EventOf
      <4>2. CASE dstate[e] = "active"
        <5>1. job[w] = "activate" /\ t # "activating"
          BY <1>2, <1>5, <2>1, <4>2
        <5> QED
          BY <5>1 DEF EventOf
      <4> QED
        BY <1>4, <4>1, <4>2
    <3> QED
      BY <1>1, <1>3, <3>1 DEF Awaited
  <2>2. t \notin Gone /\ t # "active"
    BY DEF Gone
  <2>3. ASSUME NEW d \in Drivers
        PROVE  RightFor(S, d)'
    <3>1. CASE d = e
      BY <1>1, <1>3, <2>1, <2>2, <3>1 DEF RightFor
    <3>2. CASE d # e
      BY <1>1, <1>3, <1>8, <3>2 DEF Right, RightFor, Awaited
    <3> QED
      BY <3>1, <3>2
  <2> QED
    BY <2>3 DEF Right, RightFor
<1>9. Shown'
  BY <1>1, <1>8, ShownBeside DEF Known, Fits
<1> QED
  BY <1>6, <1>7, <1>9 DEF Fits

\* A worker begins with the first event that is pending.
LEMMA BeginFits ==
    ASSUME Known, NEW w \in Workers, NEW e \in Drivers, HandleWork(w, e)
    PROVE  Fits'
<1>0. w \in Callers /\ Workers \subseteq Callers
  BY DEF Callers
<1>1. /\ UNCHANGED <<dstate, named, errFile, config, host, bin, listed>>
      /\ pc[w] = "idle" /\ pc'[w] = "getDriver" /\ \A c \in Callers : c # w => pc'[c] = pc[c]
      /\ drv'[w] = e /\ \A c \in Callers : c # w => drv'[c] = drv[c]
      /\ job'[w] = Head(pending[e]) /\ \A c \in Callers : c # w => job'[c] = job[c]
      /\ pending' = [pending EXCEPT ![e] = Tail(@)] /\ pending[e] # <<>>
      /\ pending[e] \in Seq(Events)
  BY <1>0 DEF HandleWork, Step, Goto, record, schema, disk, binary, Known, Settles, LockInv, WorkInv
<1>2. "getDriver" \notin Checked \cup Created \cup Removed \cup Listed
                         \cup {"errorReply", "genLock", "flags"}
      /\ "idle" \notin Uploading
  BY DEF Checked, Flagged, Created, Removed, Listed, Generating, Uploading, Writing
<1>3. /\ Len(pending[e]) \in Nat \ {0} /\ job'[w] = pending[e][1]
      /\ Len(pending'[e]) = Len(pending[e]) - 1
      /\ \A i \in 1..Len(pending'[e]) : pending'[e][i] = pending[e][i + 1]
  <2>1. pending'[e] = Tail(pending[e])
    BY <1>1 DEF Known, Settles, WorkInv
  <2>2. pending[e] \in Seq(Events) /\ pending[e] # <<>> /\ job'[w] = Head(pending[e])
    BY <1>1
  <2> QED
    BY <2>1, <2>2, TailOf
<1>4. 1 \in 1..Len(pending[e]) /\ \A i \in 1..Len(pending'[e]) : i + 1 \in 1..Len(pending[e])
  BY <1>3
<1>5. ASSUME NEW d \in Drivers
      PROVE  DriverFits(d)'
  <2>1. DriverFits(d)
    BY DEF Known, Fits
  <2>2. \A i \in 1..Len(pending'[d]) : pending'[d][i] # "error"
    <3>1. CASE d = e
      BY <1>3, <1>4, <2>1, <3>1 DEF DriverFits
    <3>2. CASE d # e
      BY <1>1, <2>1, <3>2 DEF DriverFits, Known, Settles, WorkInv
    <3> QED
      BY <3>1, <3>2
  <2> QED
    BY <1>1, <2>1, <2>2 DEF DriverFits
<1>6. ASSUME NEW v \in Workers
      PROVE  WorkerFits(v)'
  <2>1. CASE v = w
    <3>1. job'[w] # "error"
      BY <1>3, <1>4 DEF Known, Fits, DriverFits
    <3> QED
      BY <1>1, <1>2, <2>1, <3>1 DEF WorkerFits, ActivationFits, RemovalFits
  <2>2. CASE v # w
    BY <1>0, <1>1, <2>2 DEF WorkerFits, ActivationFits, RemovalFits, Runs, Name, Known, Fits
  <2> QED
    BY <2>1, <2>2
<1>7. ASSUME NEW S, Right(S)
      PROVE  Right(S)'
  <2>1. ASSUME NEW d \in Drivers, NEW v \in Workers, drv'[v] = d, pc'[v] \in Listed,
               Awaited(d, job[v])'
        PROVE  NameOf[d] \in S <=> job'[v] = "activate"
    <3>1. v # w /\ drv[v] = d /\ pc[v] \in Listed /\ job'[v] = job[v]
      BY <1>0, <1>1, <1>2, <2>1
    <3>2. Awaited(d, job[v])
      BY <1>1, <2>1, <3>1 DEF Awaited
    <3> QED
      BY <1>7, <3>1, <3>2 DEF Right
  <2>2. \A d \in Drivers : /\ dstate'[d] = "active" => NameOf[d] \in S
                           /\ dstate'[d] \in Gone => NameOf[d] \notin S
    BY <1>1, <1>7 DEF Right
  <2> QED
    BY <2>1, <2>2 DEF Right
<1>8. \A v \in Workers : pc'[v] \in Uploading <=> pc[v] \in Uploading
  BY <1>0, <1>1, <1>2 DEF Listed
<1>9. Shown'
  BY <1>1, <1>7, <1>8, ShownBeside DEF Known, Fits
<1> QED
  BY <1>5, <1>6, <1>9 DEF Fits

\* Every step keeps what is shown right, until a call fails.
LEMMA OfferStep ==
    ASSUME Settles, FileInv, RoleInv, OfferInv, Orderly, [Next]_vars
    PROVE  OfferInv'
<1>1. ~StartupStep /\ ~Crash
  BY StartupIsOver, OrderlyIs DEF Crash, Living, Settles, Alone
<1>2. SUFFICES ASSUME failures' = 0 PROVE Fits'
  BY DEF OfferInv
<1>3. ASSUME Counts
      PROVE  failures = 0 /\ Known
  BY <1>2, <1>3 DEF Counts, Settles, DataType, CountType, OfferInv, Known
<1>4. CASE Around
  <2>1. Known
    BY <1>3, <1>4, AroundKeeps DEF Counts, Settles
  <2>2. CASE \E r \in Routers : Connect(r)
    <3>1. UNCHANGED <<dstate, named, pending, errFile, config, host, bin, pc, job, drv, listed>>
      BY <2>2 DEF Connect, record, schema, disk, binary, local
    <3> QED
      BY <2>1, <3>1, SameFits
  <2> QED
    BY <1>4, <2>1, <2>2, SendFits, UserFits DEF Around
<1>5. ASSUME NEW w \in Workers, NEW d \in Drivers, HandleWork(w, d)
      PROVE  Fits'
  <2>1. Known
    BY <1>3, <1>5, TakesWork DEF Counts, Settles
  <2> QED
    BY <1>5, <2>1, BeginFits
<1>6. ASSUME NEW w \in Workers, Handle(w)
      PROVE  Fits'
  <2>1. failures = 0 /\ Known
    BY <1>3, <1>6, HandleMoves DEF Settles
  <2> QED
    BY <1>2, <1>6, <2>1, HandlerFits, ShownAfterHandle DEF Fits
<1>7. CASE UNCHANGED vars
  <2>1. /\ UNCHANGED <<dstate, named, pending, errFile, config, host, bin, pc, job, drv, listed>>
        /\ Counts
    BY <1>7 DEF vars, record, schema, disk, binary, local, Counts
  <2> QED
    BY <1>3, <2>1, SameFits
<1> QED
  BY <1>1, <1>4, <1>5, <1>6, <1>7 DEF Next, Around

\* When the startup is over, what is shown is right.
LEMMA OffersAtStart ==
    ASSUME InitReady, Orderly
    PROVE  OfferInv
<1>1. PICK A \in SUBSET (Drivers \ (Builtin \ Core)) :
          Before(A, Drivers \ (A \cup (Builtin \ Core)))
  BY DEF InitReady
<1>2. /\ dstate = [d \in Drivers |-> IF d \in A THEN "active"
                      ELSE IF d \in Drivers \ (A \cup (Builtin \ Core)) THEN "inactive" ELSE "absent"]
      /\ named \in [Drivers -> BOOLEAN] /\ \A d \in Drivers : named[d]
      /\ config = NamesIn(A) /\ errFile = [d \in Drivers |-> FALSE]
      /\ pending = [d \in Drivers |-> <<>>] /\ drv = [c \in Callers |-> NoDriver]
      /\ host = [r \in Roles |-> {IF r = "readonly" THEN {} ELSE NamesIn(A)}]
      /\ pc = [c \in Callers |-> IF c = Startup THEN "done" ELSE "idle"]
  BY <1>1 DEF Before, InitReady, Orderly
<1>3. \A d \in Drivers : NameOf[d] \in NamesIn(A) <=> d \in A
  BY <1>1 DEF NamesIn, Orderly
<1>4. ASSUME NEW d \in Drivers
      PROVE  DriverFits(d)
  <2>1. named[d] = TRUE /\ errFile[d] = FALSE
    BY <1>2
  <2>2. \A i \in 1..Len(pending[d]) : FALSE
    BY <1>2
  <2>3. d \in Builtin \ Core => d \notin A
    BY <1>1
  <2>4. /\ dstate[d] = "active" <=> d \in A
        /\ dstate[d] \in {"active", "inactive", "absent"}
        /\ d \in Builtin \ Core => dstate[d] = "absent"
    BY <1>2, <2>3
  <2> QED
    BY <1>2, <1>3, <2>1, <2>2, <2>4 DEF DriverFits, Gone, Wanted
<1>5. \A w \in Workers : drv[w] = NoDriver /\ pc[w] = "idle"
  BY <1>2, DriverAssumption DEF Callers
<1>6. Right(NamesIn(A))
  <2>1. \A w \in Workers : pc[w] \notin Listed
    BY <1>5 DEF Listed, Uploading, Writing
  <2> QED
    BY <1>2, <1>3, <2>1 DEF Right, Gone
<1>7. Shown
  <2>1. host["service"] = {NamesIn(A)}
    BY <1>2, UploadsAre DEF Writing
  <2>2. \A w \in Workers : pc[w] \notin Uploading
    BY <1>5 DEF Uploading, Writing
  <2>3. ASSUME NEW S \in SUBSET Names, host["service"] = {S}
        PROVE  Right(S)
    <3>1. S = NamesIn(A)
      BY <2>1, <2>3
    <3> QED
      BY <1>6, <3>1
  <2> QED
    BY <2>2, <2>3 DEF Shown
<1> QED
  BY <1>4, <1>5, <1>7 DEF OfferInv, Fits, WorkerFits

\* When nothing is under way, what is right is what is wanted.
LEMMA OfferedAtRest ==
    ASSUME Settles, RoleInv, OfferInv, Orderly
    PROVE  OfferedWhenQuiet
<1>1. SUFFICES ASSUME Quiet, failures = 0
               PROVE  /\ \A r \in Roles : host[r] = {IF r = "readonly" THEN {} ELSE NamesIn(Active)}
                      /\ config = NamesIn(Active)
  BY DEF OfferedWhenQuiet
<1>2. Fits /\ \A w \in Workers : pc[w] = "idle"
  BY <1>1 DEF OfferInv, Quiet
<1>3. ASSUME NEW d \in Drivers
      PROVE  dstate[d] \in Gone \cup {"active"}
  BY <1>1, <1>2 DEF Fits, DriverFits, Quiet, Wanted, InTransition, EventOf
<1>4. \A c \in Callers : pc[c] \notin Uploading
  <2>1. pc[Startup] = "done"
    BY DEF Settles, Alone
  <2> QED
    BY <1>2, <2>1 DEF Uploading, Writing, Callers
<1>5. ASSUME NEW S \in SUBSET Names, \A d \in Drivers : NameOf[d] \in S <=> dstate[d] = "active"
      PROVE  S = NamesIn(Active)
  <2>1. \A n \in Names : \E d \in Drivers : n = NameOf[d]
    BY DEF Names
  <2>2. \A d \in Drivers : NameOf[d] \in NamesIn(Active) <=> dstate[d] = "active"
    BY DEF NamesIn, Active, Orderly
  <2>3. NamesIn(Active) \subseteq Names
    BY DEF NamesIn, Active, Names
  <2> QED
    BY <1>5, <2>1, <2>2, <2>3
<1>6. PICK S \in SUBSET Names : /\ \A r \in Roles \ {"readonly"} : host[r] = {S}
                                /\ host["readonly"] = {{}}
  BY <1>1, <1>4 DEF RoleInv, Agree, Uploading
<1>7. Right(S)
  <2>1. host["service"] = {S}
    BY <1>6, UploadsAre DEF Writing
  <2> QED
    BY <1>2, <1>4, <2>1 DEF Fits, Shown, Callers
<1>8. S = NamesIn(Active)
  BY <1>3, <1>5, <1>7 DEF Right
<1>9. config = NamesIn(Active)
  <2>1. config \in SUBSET Names
    BY DEF Settles, DataType, SchemaType
  <2>2. \A d \in Drivers : NameOf[d] \in config <=> dstate[d] = "active"
    BY <1>2, <1>3 DEF Fits, DriverFits
  <2> QED
    BY <1>5, <2>1, <2>2
<1> QED
  BY <1>6, <1>8, <1>9

\* OfferedWhenQuiet, for any drivers with names of their own, any workers and
\* requests, however often events are repeated: when the handlers are through,
\* the "host" schemas offer the active drivers, and these have their schemas.
THEOREM OfferTheorem ==
    ASSUME Orderly
    PROVE  ReadySpec => []OfferedWhenQuiet
<1> DEFINE Inv == Settles /\ FileInv /\ RoleInv /\ OfferInv
<1>1. InitReady => Inv
  BY LinesAtStart, LockAtStart, TypedAtStart, FilesAtStart, RolesAtStart, OffersAtStart DEF Settles
<1>2. Inv /\ [Next]_vars => Inv'
  <2>1. Settles /\ [Next]_vars => Settles'
    BY OrderlyIs, AloneStep, LineStep, ClearedStep, LockStep, TypeStep DEF Settles, LineInv, DataType
  <2>2. FileInv /\ LockInv /\ WorkInv /\ [Next]_vars => FileInv'
    BY OrderlyIs, FileStep
  <2>3. RoleInv /\ LockInv /\ WorkInv /\ [Next]_vars => RoleInv'
    BY RoleStep
  <2>4. Inv /\ [Next]_vars => OfferInv'
    BY OfferStep
  <2> QED
    BY <2>1, <2>2, <2>3, <2>4 DEF Settles
<1>3. Inv => OfferedWhenQuiet
  BY OfferedAtRest
<1> QED
  BY <1>1, <1>2, <1>3, PTL DEF ReadySpec

=============================================================================
