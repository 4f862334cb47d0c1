------------------------- MODULE DriverSchemaProofs --------------------------
(***************************************************************************)
(* What schemaLock protects, for any drivers, workers and failures: who    *)
(* reads or writes the "host" schemas holds the lock alone (LockInv, for   *)
(* every fault), and whoever takes it finds that all roles agree (RoleInv, *)
(* once the startup is over and until something fails), and an upload that *)
(* ends leaves its list with every role, whatever has failed before it     *)
(* (PresentInv).  Here are too, for every fault, the types of all that the *)
(* machine driver half keeps, and that the startup upgrades the drivers of *)
(* other versions.                                                         *)
(***************************************************************************)
EXTENDS DriverLifecycle, TLAPS

Generating == {"flags", "removeConfig", "createConfig"}
Writing    == {"service", "project", "user", "readonly"}
Locked     == Generating \cup {"list", "removeHost"} \cup Writing

Free == {"idle", "getDriver", "getError", "isInstalled", "download", "copyStaged",
         "nameCache", "nameCheck", "open", "copy", "rename", "genLock", "version",
         "rmSchemas", "getToRemove", "rmBin", "rmStaged", "rmCache", "clearError",
         "uploadLock", "publish", "errorReply", "ready1", "ready2", "listOld",
         "reactivateOld", "listBuiltin", "sync", "listAll", "nextDriver", "redo", "done"}

\* The steps at which a goroutine holds schemaLock.
LockInv ==
    /\ pc \in [Callers -> Free \cup Locked]
    /\ schemaLock \in Callers \cup {NoOne}
    /\ \A c \in Callers : pc[c] \in Locked <=> schemaLock = c

\* What the goroutines work on: needed to know where a handler goes on.
WorkInv ==
    /\ job \in [Callers -> Events \cup {"none"}]
    /\ drv \in [Callers -> Drivers \cup {NoDriver}]
    /\ pending \in [Drivers -> Seq(Events)]
    /\ todo \subseteq Drivers
    /\ \A w \in Workers : drv[w] # NoDriver => job[w] \in Events

\* The kinds of steps that a goroutine makes, as far as the lock is concerned.
Moves(c, from, to) == pc[c] \in from /\ \E b \in to : pc' = [pc EXCEPT ![c] = b]

Outside(c) == Moves(c, Free, Free) /\ schemaLock' = schemaLock
Enters(c)  == Moves(c, Free, {"flags", "list"}) /\ schemaLock = NoOne /\ schemaLock' = c
Inside(c)  == Moves(c, Locked, Locked) /\ schemaLock' = schemaLock
Leaves(c)  == Moves(c, Locked, Free) /\ schemaLock' = NoOne

\* What a step outside of the uploads leaves alone, and what it may do besides.
Counts      == failures' \in {failures, failures + 1}
Frame       == UNCHANGED <<host, listed, pending, todo>> /\ Counts
SameWork    == UNCHANGED <<job, drv>>
Finished(w) == /\ job' = [job EXCEPT ![w] = "none"]
               /\ drv' = [drv EXCEPT ![w] = NoDriver]

\* The uploads, one by one.
LEMMA UploadsAre ==
    /\ Len(Uploads) = 4 /\ 1..4 = {1, 2, 3, 4}
    /\ Uploads[1] = "service" /\ Uploads[2] = "project"
    /\ Uploads[3] = "user" /\ Uploads[4] = "readonly"
    /\ Roles = Writing
<1>1. /\ Len(Uploads) = 4
      /\ Uploads[1] = "service" /\ Uploads[2] = "project"
      /\ Uploads[3] = "user" /\ Uploads[4] = "readonly"
  BY DEF Uploads
<1>2. 1..4 = {1, 2, 3, 4}
  OBVIOUS
<1> QED
  BY <1>1, <1>2 DEF Roles, Writing

\* Nobody is inside the lock and outside of it.
LEMMA Apart == Free \cap Locked = {}
BY DEF Free, Locked, Generating, Writing

\* The disk is not locked.
LEMMA StageOutside ==
    ASSUME NEW c \in Callers, Stage(c)
    PROVE  Outside(c) /\ Frame /\ SameWork
<1>1. CASE GetError(c)
  BY <1>1 DEF GetError, Erred, Step, Goto, Outside, Moves, Free, Frame, Counts, SameWork, Fail, NoFail, others, schema
<1>2. CASE IsInstalled(c)
  BY <1>2 DEF IsInstalled, StageFails, Staged, Erred, Step, Goto, Outside, Moves, Free, Frame, Counts, SameWork, Fail, NoFail, others, schema
<1>3. CASE Download(c)
  BY <1>3 DEF Download, StageFails, Erred, Step, Goto, Outside, Moves, Free, Frame, Counts, SameWork, Fail, NoFail, others, schema
<1>4. CASE CopyStaged(c)
  BY <1>4 DEF CopyStaged, StageFails, Erred, Step, Goto, Outside, Moves, Free, Frame, Counts, SameWork, Fail, NoFail, others, schema
<1>5. CASE NameCache(c)
  BY <1>5 DEF NameCache, StageFails, Staged, Erred, Step, Goto, Outside, Moves, Free, Frame, Counts, SameWork, Fail, NoFail, others, schema
<1> QED
  BY <1>1, <1>2, <1>3, <1>4, <1>5 DEF Stage

\* Install takes no lock.
LEMMA InstallOutside ==
    ASSUME NEW c \in Callers, Install(c)
    PROVE  Outside(c) /\ Frame /\ SameWork
<1>1. CASE Open(c)
  BY <1>1 DEF Open, Installed, Erred, Step, Goto, Outside, Moves, Free, Frame, Counts, SameWork, Fail, NoFail, others, schema
<1>2. CASE Copy(c)
  BY <1>2 DEF Copy, Erred, Step, Goto, Outside, Moves, Free, Frame, Counts, SameWork, Fail, NoFail, others, schema
<1>3. CASE Rename(c)
  BY <1>3 DEF Rename, Installed, Erred, Step, Goto, Outside, Moves, Free, Frame, Counts, SameWork, Fail, NoFail, others, schema
<1> QED
  BY <1>1, <1>2, <1>3 DEF Install

\* Remove takes none either, and neither does ClearError.
LEMMA RemoveOutside ==
    ASSUME NEW c \in Callers, Remove(c) \/ ClearError(c)
    PROVE  Outside(c) /\ Frame /\ SameWork
<1>1. CASE RemoveBinary(c)
  BY <1>1 DEF RemoveBinary, Step, Goto, Outside, Moves, Free, Frame, Counts, SameWork, Fail, NoFail, others, schema
<1>2. CASE RemoveStaged(c)
  BY <1>2 DEF RemoveStaged, Step, Goto, Outside, Moves, Free, Frame, Counts, SameWork, Fail, NoFail, others, schema
<1>3. CASE RemoveCache(c)
  BY <1>3 DEF RemoveCache, Step, Goto, Outside, Moves, Free, Frame, Counts, SameWork, Fail, NoFail, others, schema
<1>4. CASE ClearError(c)
  BY <1>4 DEF ClearError, Step, Goto, Outside, Moves, Free, Frame, Counts, SameWork, Fail, NoFail, others, schema
<1> QED
  BY <1>1, <1>2, <1>3, <1>4 DEF Remove

\* Neither are the calls of a handler between its locked parts.
Unlocked(w) == \/ GetDriver(w) \/ NameCheck(w) \/ GetVersion(w) \/ RemoveSchemas(w)
               \/ GetToRemove(w) \/ PublishReply(w) \/ ErrorReply(w)

\* ... and so do the steps that take no lock.
LEMMA UnlockedOutside ==
    ASSUME NEW w \in Workers, Unlocked(w), job[w] \in Events
    PROVE  Outside(w) /\ Frame /\ (SameWork \/ Finished(w))
<1>1. CASE GetDriver(w)
  <2>1. First[job[w]] \in Free
    BY DEF First, Free, Events, Settled
  <2> QED
    BY <1>1, <2>1 DEF GetDriver, Finished, Finish, Step, Goto, Outside, Moves, Free, Frame, Counts, SameWork, Fail, NoFail, schema
<1>2. CASE NameCheck(w)
  BY <1>2 DEF NameCheck, Step, Goto, Outside, Moves, Free, Frame, Counts, SameWork, Fail, NoFail, others, schema
<1>3. CASE GetVersion(w)
  BY <1>3 DEF GetVersion, Step, Goto, Outside, Moves, Free, Frame, Counts, SameWork, Fail, NoFail, schema, rest
<1>4. CASE RemoveSchemas(w)
  BY <1>4 DEF RemoveSchemas, Step, Goto, Outside, Moves, Free, Frame, Counts, SameWork, Fail, NoFail, schema, rest
<1>5. CASE GetToRemove(w)
  BY <1>5 DEF GetToRemove, Step, Goto, Outside, Moves, Free, Frame, Counts, SameWork, Fail, NoFail, others, schema
<1>6. CASE PublishReply(w)
  BY <1>6 DEF PublishReply, Finished, Finish, Step, Goto, Outside, Moves, Free, Frame, Counts, SameWork, Fail, NoFail, schema
<1>7. CASE ErrorReply(w)
  BY <1>7 DEF ErrorReply, Finished, Finish, Step, Goto, Outside, Moves, Free, Frame, Counts, SameWork, Fail, NoFail, schema
<1> QED
  BY <1>1, <1>2, <1>3, <1>4, <1>5, <1>6, <1>7 DEF Unlocked

\* The parts of a handler that take the lock, hold it, or give it back.
LEMMA TakesLock ==
    ASSUME NEW w \in Workers, GenLock(w) \/ UploadLock(w)
    PROVE  Enters(w) /\ Frame /\ SameWork
<1>1. CASE GenLock(w)
  BY <1>1 DEF GenLock, TakeLock, Step, Goto, Enters, Moves, Free, Frame, Counts, SameWork, schema, rest
<1>2. CASE UploadLock(w)
  BY <1>2 DEF UploadLock, TakeLock, Step, Goto, Enters, Moves, Free, Frame, Counts, SameWork, schema, rest
<1> QED
  BY <1>1, <1>2

\* GenerateAndUploadSchema is inside until it returns, with or without an error.
LEMMA GeneratesInside ==
    ASSUME NEW w \in Workers, GetCreateFlags(w) \/ RemoveConfig(w) \/ CreateConfig(w)
    PROVE  /\ Moves(w, Generating, Generating \cup Free)
           /\ Inside(w) \/ Leaves(w)
           /\ Frame /\ SameWork
<1> USE DEF Step, Goto, Inside, Leaves, Moves, Free, Locked, Generating, Frame, Counts,
            SameWork, SchemaFails, Unlock, Fail, NoFail, schema, rest
<1>1. CASE GetCreateFlags(w)
  BY <1>1 DEF GetCreateFlags
<1>2. CASE RemoveConfig(w)
  BY <1>2 DEF RemoveConfig
<1>3. CASE CreateConfig(w)
  BY <1>3 DEF CreateConfig
<1> QED
  BY <1>1, <1>2, <1>3

\* UploadMachineSchemas likewise.
LEMMA UploadsInside ==
    ASSUME NEW w \in Workers,
           ListDrivers(w) \/ RemoveHost(w) \/ \E i \in 1..Len(Uploads) : UploadHost(w, i)
    PROVE  /\ Inside(w) \/ Leaves(w)
           /\ UNCHANGED <<pending, todo>> /\ SameWork /\ Counts
<1> USE DEF Step, Goto, Inside, Leaves, Moves, Free, Locked, Writing, Counts, SameWork,
            SchemaFails, Unlock, Fail, NoFail, rest
<1>1. CASE ListDrivers(w)
  BY <1>1 DEF ListDrivers, schema
<1>2. CASE RemoveHost(w)
  BY <1>2, UploadsAre DEF RemoveHost
<1>3. ASSUME NEW i \in 1..Len(Uploads), UploadHost(w, i)
      PROVE  /\ Inside(w) \/ Leaves(w)
             /\ UNCHANGED <<pending, todo>> /\ SameWork /\ Counts
  <2>1. Uploads[i] \in Locked
    BY UploadsAre
  <2>2. IF i = 4 THEN AfterUpload(i) = "publish" ELSE AfterUpload(i) \in Locked
    BY UploadsAre DEF AfterUpload
  <2>3. CASE SchemaFails(w, Uploads[i])
    BY <1>3, <2>1, <2>3 DEF UploadHost
  <2>4. CASE Step(w, Uploads[i], AfterUpload(i)) /\ NoFail
    BY <1>3, <2>1, <2>2, <2>4, UploadsAre DEF UploadHost
  <2> QED
    BY <1>3, <2>3, <2>4 DEF UploadHost
<1> QED
  BY <1>1, <1>2, <1>3

-----------------------------------------------------------------------------
(***************************************************************************)
(* The steps of Next, as far as the lock and the work are concerned.       *)
(***************************************************************************)

\* One lock, one holder: each kind of step keeps it so.
LEMMA LockKept ==
    ASSUME NEW c \in Callers, LockInv,
           Outside(c) \/ Enters(c) \/ Inside(c) \/ Leaves(c)
    PROVE  LockInv'
<1>1. NoOne \notin Callers
  BY DriverAssumption
<1>2. PICK b \in Free \cup Locked : pc' = [pc EXCEPT ![c] = b]
  BY DEF Outside, Enters, Inside, Leaves, Moves, Locked, Generating
<1>3. CASE Outside(c)
  <2>1. pc[c] \notin Locked /\ pc'[c] \notin Locked
    BY <1>3, <1>2, Apart DEF Outside, Moves, LockInv
  <2> QED
    BY <1>2, <1>3, <2>1 DEF Outside, LockInv
<1>4. CASE Enters(c)
  <2>1. pc'[c] \in Locked
    BY <1>4, <1>2 DEF Enters, Moves, LockInv, Locked, Generating
  <2> QED
    BY <1>1, <1>2, <1>4, <2>1 DEF Enters, LockInv
<1>5. CASE Inside(c)
  <2>1. pc[c] \in Locked /\ pc'[c] \in Locked
    BY <1>5, <1>2 DEF Inside, Moves, LockInv
  <2> QED
    BY <1>2, <1>5, <2>1 DEF Inside, LockInv
<1>6. CASE Leaves(c)
  <2>1. pc[c] \in Locked /\ pc'[c] \notin Locked
    BY <1>6, <1>2, Apart DEF Leaves, Moves, LockInv
  <2> QED
    BY <1>1, <1>2, <1>6, <2>1 DEF Leaves, LockInv
<1> QED
  BY <1>3, <1>4, <1>5, <1>6

\* A worker that has a driver has an event; a handler that ends has neither.
LEMMA WorkKept ==
    ASSUME NEW w \in Workers, WorkInv, UNCHANGED <<pending, todo>>, SameWork \/ Finished(w)
    PROVE  WorkInv'
<1>1. CASE SameWork
  BY <1>1 DEF SameWork, WorkInv
<1>2. CASE Finished(w)
  BY <1>2 DEF Finished, WorkInv, Callers
<1> QED
  BY <1>1, <1>2

\* The process starts again: nobody holds the lock, nobody works.
LEMMA StartsAgain ==
    ASSUME ProcessStarts
    PROVE  LockInv' /\ WorkInv'
<1>1. NoOne \notin Callers
  BY DriverAssumption
<1>2. LockInv'
  <2>1. {"ready1", "idle"} \subseteq Free /\ {"ready1", "idle"} \cap Locked = {}
    BY DEF Free, Locked, Generating, Writing
  <2> QED
    BY <1>1, <2>1 DEF ProcessStarts, LockInv
<1>3. <<>> \in Seq(Events)
  OBVIOUS
<1> QED
  BY <1>2, <1>3 DEF ProcessStarts, WorkInv, Callers

\* What the startup does by itself, besides staging and installing.
Lists == \/ Ready \/ ListOld \/ ReactivateOld \/ ListBuiltin \/ Sync \/ ListAll \/ NextDriver
         \/ Redo

\* The startup never takes the lock.
LEMMA ListsOutside ==
    ASSUME LockInv, WorkInv, Lists
    PROVE  /\ Outside(Startup) /\ pc[Startup] # "done"
           /\ UNCHANGED <<host, listed>> /\ Counts
           /\ WorkInv'
<1> USE DEF SGoto, Step, Goto, Outside, Moves, Free, Counts, WorkInv, Callers, unmoved, schema,
            NoFail, Fail
<1>0. Startup \notin Workers /\ Startup \in Callers
  BY DriverAssumption
<1>1. CASE Ready
  BY <1>1 DEF Ready
<1>2. CASE ListOld
  BY <1>2 DEF ListOld, Active
<1>3. ASSUME UNCHANGED <<unmoved, pc, drv>>, pc[Startup] \in Free, todo' \subseteq todo
      PROVE  Outside(Startup) /\ UNCHANGED <<host, listed>> /\ WorkInv'
  <2>1. pc' = [pc EXCEPT ![Startup] = pc[Startup]]
    BY <1>0, <1>3 DEF LockInv
  <2>2. Outside(Startup)
    BY <1>3, <2>1
  <2>3. WorkInv'
    BY <1>3
  <2> HIDE DEF Outside, WorkInv
  <2> QED
    BY <1>3, <2>2, <2>3
<1>4. CASE ReactivateOld
  <2>1. CASE \E d \in todo : /\ Reactivate(d) /\ todo' = todo \ {d} /\ pc[Startup] = "reactivateOld"
                             /\ UNCHANGED <<unmoved, pc, drv, failures>>
    <3>1. Outside(Startup) /\ UNCHANGED <<host, listed>> /\ WorkInv'
      BY <1>3, <2>1
    <3> HIDE DEF Outside, WorkInv
    <3> QED
      BY <2>1, <3>1
  <2>2. CASE todo = {} /\ SGoto("reactivateOld", "listBuiltin")
             /\ UNCHANGED <<unmoved, dstate, drv, todo, failures>>
    BY <2>2
  <2> QED
    BY <1>4, <2>1, <2>2 DEF ReactivateOld
<1>5. CASE Sync
  <2>1. CASE todo = {} /\ SGoto("sync", "listAll")
             /\ UNCHANGED <<unmoved, dstate, drv, todo, failures>>
    BY <2>1
  <2>2. CASE pc[Startup] = "sync" /\ todo' \subseteq todo /\ Counts /\ UNCHANGED <<unmoved, pc, drv>>
    <3>1. Outside(Startup) /\ UNCHANGED <<host, listed>> /\ WorkInv'
      BY <1>3, <2>2
    <3> HIDE DEF Outside, WorkInv, Counts
    <3> QED
      BY <2>2, <3>1
  <2> QED
    BY <1>5, <2>1, <2>2 DEF Sync
<1>6. CASE ListBuiltin
  BY <1>6 DEF ListBuiltin
<1>7. CASE ListAll
  BY <1>7 DEF ListAll, Active
<1>8. CASE NextDriver
  BY <1>0, <1>8 DEF NextDriver
<1>9. CASE Redo
  BY <1>9 DEF Redo
<1> QED
  BY <1>1, <1>2, <1>4, <1>5, <1>6, <1>7, <1>8, <1>9 DEF Lists

\* A step of a handler: in one of four ways, and what it leaves alone.
LEMMA HandleMoves ==
    ASSUME NEW w \in Workers, LockInv, WorkInv, Handle(w)
    PROVE  /\ Outside(w) \/ Enters(w) \/ Inside(w) \/ Leaves(w)
           /\ UNCHANGED <<pending, todo>> /\ Counts
           /\ SameWork \/ Finished(w)
<1>1. w \in Callers /\ job[w] \in Events
  BY DEF Handle, WorkInv, Callers
<1>2. CASE Stage(w) \/ Install(w) \/ Remove(w) \/ ClearError(w)
  BY <1>1, <1>2, StageOutside, InstallOutside, RemoveOutside DEF Frame
<1>3. CASE Unlocked(w)
  BY <1>1, <1>3, UnlockedOutside DEF Frame
<1>4. CASE GenLock(w) \/ UploadLock(w)
  BY <1>4, TakesLock DEF Frame
<1>5. CASE GetCreateFlags(w) \/ RemoveConfig(w) \/ CreateConfig(w)
  BY <1>5, GeneratesInside DEF Frame
<1>6. CASE ListDrivers(w) \/ RemoveHost(w) \/ \E i \in 1..Len(Uploads) : UploadHost(w, i)
  BY <1>6, UploadsInside
<1> QED
  BY <1>2, <1>3, <1>4, <1>5, <1>6
  DEF Handle, Unlocked, GenerateAndUploadSchema, UploadMachineSchemas

\* What is not a step of a handler and leaves the goroutines where they are.
Around == \/ \E d \in Drivers : CattleSends(d) \/ User(d)
          \/ \E r \in Routers : Connect(r)

\* What is no step of a goroutine leaves lock and work alone.
LEMMA AroundKeeps ==
    ASSUME WorkInv, Around
    PROVE  /\ UNCHANGED <<pc, schemaLock, host, listed, failures>>
           /\ WorkInv'
<1>1. CASE \E r \in Routers : Connect(r)
  BY <1>1 DEF Connect, WorkInv, local, schema
<1>2. ASSUME NEW d \in Drivers, CattleSends(d)
      PROVE  /\ UNCHANGED <<pc, schemaLock, host, listed, failures>>
             /\ WorkInv'
  <2>1. EventOf[dstate[d]] \in Events
    BY <1>2 DEF CattleSends, EventOf, InTransition, Events, Settled
  <2>2. Append(pending[d], EventOf[dstate[d]]) \in Seq(Events)
    BY <2>1 DEF WorkInv
  <2>3. UNCHANGED <<pc, schemaLock, host, listed, failures, job, drv, todo>>
    BY <1>2 DEF CattleSends, local, schema
  <2>4. pending' = [pending EXCEPT ![d] = Append(@, EventOf[dstate[d]])]
    BY <1>2 DEF CattleSends
  <2>5. pending' \in [Drivers -> Seq(Events)]
    BY <2>2, <2>4 DEF WorkInv
  <2> QED
    BY <2>3, <2>5 DEF WorkInv
<1>3. ASSUME NEW d \in Drivers, User(d)
      PROVE  /\ UNCHANGED <<pc, schemaLock, host, listed, failures>>
             /\ WorkInv'
  BY <1>3 DEF User, UserAsks, local, schema, WorkInv
<1> QED
  BY <1>1, <1>2, <1>3 DEF Around

\* A worker takes an event.
LEMMA TakesWork ==
    ASSUME NEW w \in Workers, NEW d \in Drivers, LockInv, WorkInv, HandleWork(w, d)
    PROVE  /\ Outside(w) /\ UNCHANGED <<host, listed, failures>>
           /\ WorkInv'
<1>1. Outside(w) /\ UNCHANGED <<host, listed, failures>>
  BY DEF HandleWork, Outside, Moves, Step, Goto, Free, schema
<1>2. Head(pending[d]) \in Events /\ Tail(pending[d]) \in Seq(Events)
  <2>1. pending[d] \in Seq(Events) /\ pending[d] # <<>>
    BY DEF HandleWork, WorkInv
  <2> QED
    BY <2>1
<1>3. pending' \in [Drivers -> Seq(Events)]
  <2>1. pending' = [pending EXCEPT ![d] = Tail(@)]
    BY DEF HandleWork
  <2> QED
    BY <1>2, <2>1 DEF WorkInv
<1>4. job' = [job EXCEPT ![w] = Head(pending[d])] /\ drv' = [drv EXCEPT ![w] = d] /\ todo' = todo
  BY DEF HandleWork
<1>5. WorkInv'
  BY <1>2, <1>3, <1>4 DEF WorkInv, Callers
<1> QED
  BY <1>1, <1>5

\* The goroutine that main starts is killed by what it cannot do.
Dies == \/ \E d \in todo : TooLate("reactivateOld", d)
        \/ TooLate("redo", drv[Startup])
        \/ \E a \in {"listOld", "reactivateOld", "listBuiltin", "listAll", "redo"} : Fatal(a)

Works == drv[Startup] # NoDriver /\ (Stage(Startup) \/ Install(Startup))

\* Every step keeps the two parts of the lock's invariant.
LEMMA LockStep ==
    ASSUME LockInv, WorkInv, [Next]_vars
    PROVE  LockInv' /\ WorkInv'
<1>1. CASE Around
  BY <1>1, AroundKeeps DEF LockInv
<1>2. CASE \E w \in Workers, d \in Drivers : HandleWork(w, d)
  BY <1>2, TakesWork, LockKept DEF Callers
<1>3. CASE \E w \in Workers : Handle(w)
  BY <1>3, HandleMoves, LockKept, WorkKept DEF Callers
<1>4. CASE Lists
  BY <1>4, ListsOutside, LockKept DEF Callers
<1>5. CASE Works
  <2>1. Outside(Startup) /\ Frame /\ SameWork
    BY <1>5, StageOutside, InstallOutside DEF Works, Callers
  <2>2. LockInv'
    BY <2>1, LockKept DEF Callers
  <2> QED
    BY <2>1, <2>2 DEF Frame, SameWork, WorkInv
<1>6. CASE Dies
  BY <1>6, StartsAgain DEF Dies, TooLate, Fatal, Restart
<1>7. CASE Crash
  BY <1>7, StartsAgain DEF Crash, Restart, Replace
<1>8. CASE UNCHANGED vars
  BY <1>8 DEF vars, local, LockInv, WorkInv
<1> QED
  BY <1>1, <1>2, <1>3, <1>4, <1>5, <1>6, <1>7, <1>8
  DEF Next, StartupStep, Around, Lists, Works, Dies

\* Init and InitReady: nothing runs.
LEMMA LockAtStart ==
    ASSUME Init \/ InitReady
    PROVE  LockInv /\ WorkInv
<1>1. PICK A, I \in SUBSET Drivers : Before(A, I)
  BY DEF Init, InitReady
<1>2. \E b \in {"ready1", "done"} : pc = [c \in Callers |-> IF c = Startup THEN b ELSE "idle"]
  BY DEF Init, InitReady
<1>3. NoOne \notin Callers
  BY DriverAssumption
<1>4. {"ready1", "done", "idle"} \subseteq Free /\ {"ready1", "done", "idle"} \cap Locked = {}
  BY DEF Free, Locked, Generating, Writing
<1>5. LockInv
  <2>1. schemaLock = NoOne
    BY <1>1 DEF Before
  <2> QED
    BY <1>2, <1>3, <1>4, <2>1 DEF LockInv
<1>6. <<>> \in Seq(Events)
  OBVIOUS
<1>7. WorkInv
  <2>1. /\ job = [c \in Callers |-> "none"] /\ drv = [c \in Callers |-> NoDriver]
        /\ pending = [d \in Drivers |-> <<>>] /\ todo = {}
    BY <1>1 DEF Before
  <2> QED
    BY <1>6, <2>1 DEF WorkInv, Callers
<1> QED
  BY <1>5, <1>7

\* Whoever is in a locked part of GenerateAndUploadSchema or
\* UploadMachineSchemas holds schemaLock, and nobody else does: from the start,
\* for any number of drivers and workers, whatever fails and crashes.
THEOREM LockTheorem == Spec => [](LockInv /\ WorkInv)
<1>1. Init => LockInv /\ WorkInv
  BY LockAtStart
<1>2. LockInv /\ WorkInv /\ [Next]_vars => (LockInv /\ WorkInv)'
  BY LockStep
<1> QED
  BY <1>1, <1>2, PTL DEF Spec

-----------------------------------------------------------------------------
(***************************************************************************)
(* What the lock is for.                                                   *)
(***************************************************************************)

\* What RolesAgree says of the schemas.
Agree == /\ \E S \in SUBSET Names : \A r \in Roles \ {"readonly"} : host[r] = {S}
         /\ host["readonly"] = {{}}

\* The k-th upload of c is the next: those before it are there, the others not.
Offered(c, r) == IF r = "readonly" THEN {} ELSE listed[c]
Filled(c, k)  == \A i \in 1..4 : host[Uploads[i]] = IF i < k THEN {Offered(c, Uploads[i])} ELSE {}

SchemasType == /\ failures \in Nat
               /\ listed \in [Callers -> SUBSET Names]
               /\ host \in [Roles -> SUBSET SUBSET Names]

RoleInv ==
    /\ SchemasType
    /\ failures = 0 =>
        /\ pc[Startup] = "done"
        /\ (\A c \in Callers : pc[c] \notin Writing) => Agree
        /\ \A c \in Callers, k \in 1..4 : pc[c] = Uploads[k] => Filled(c, k)

\* A step beside the uploads.
LEMMA AsideKeeps ==
    ASSUME RoleInv, LockInv, UNCHANGED <<host, listed>>, Counts,
           NEW c \in Callers, pc[c] \notin Writing,
           NEW b \in Free \cup Generating \cup {"list"}, pc' = [pc EXCEPT ![c] = b],
           c = Startup => pc[Startup] # "done"
    PROVE  RoleInv'
<1>0. b \notin Writing
  BY DEF Free, Generating, Writing
<1>1. SchemasType'
  BY DEF RoleInv, SchemasType, Counts
<1>2. ASSUME failures' = 0
      PROVE  /\ pc[Startup] = "done" /\ pc'[Startup] = "done"
             /\ \A d \in Callers : pc'[d] \in Writing => pc'[d] = pc[d]
             /\ \A d \in Callers : pc[d] \in Writing => pc'[d] = pc[d]
  <2>1. failures = 0
    BY <1>2 DEF RoleInv, SchemasType, Counts
  <2>2. pc[Startup] = "done" /\ c # Startup
    BY <2>1 DEF RoleInv
  <2> QED
    BY <1>0, <2>2 DEF LockInv, Callers
<1>3. ASSUME failures' = 0
      PROVE  failures = 0
  BY <1>3 DEF RoleInv, SchemasType, Counts
<1>4. \A k \in 1..4 : Uploads[k] \in Writing
  BY UploadsAre DEF Writing
<1> QED
  <2>1. SUFFICES ASSUME failures' = 0
                 PROVE  /\ pc'[Startup] = "done"
                        /\ (\A d \in Callers : pc'[d] \notin Writing) => Agree'
                        /\ \A d \in Callers, k \in 1..4 : pc'[d] = Uploads[k] => Filled(d, k)'
    BY <1>1 DEF RoleInv
  <2>2. (\A d \in Callers : pc'[d] \notin Writing) => Agree'
    <3>1. (\A d \in Callers : pc[d] \notin Writing) => Agree
      BY <2>1, <1>3 DEF RoleInv
    <3>2. Agree => Agree'
      BY DEF Agree
    <3> QED
      BY <2>1, <1>2, <3>1, <3>2
  <2>3. ASSUME NEW d \in Callers, NEW k \in 1..4, pc'[d] = Uploads[k]
        PROVE  Filled(d, k)'
    <3>1. pc[d] = Uploads[k]
      BY <2>1, <2>3, <1>2, <1>4
    <3>2. Filled(d, k)
      BY <2>1, <1>3, <3>1 DEF RoleInv
    <3> QED
      BY <3>2 DEF Filled, Offered
  <2> QED
    BY <2>1, <2>2, <2>3, <1>2

\* After a failure nothing more is promised.
LEMMA FailedKeeps ==
    ASSUME SchemasType', failures' # 0
    PROVE  RoleInv'
BY DEF RoleInv

\* A step of the holder of the lock concerns nobody else.
LEMMA HolderKeeps ==
    ASSUME RoleInv, LockInv, NEW w \in Workers, pc[w] \in Locked, NEW b, pc' = [pc EXCEPT ![w] = b],
           Counts, SchemasType',
           failures' = 0 =>
               /\ b \notin Writing => Agree'
               /\ \A k \in 1..4 : b = Uploads[k] => Filled(w, k)'
    PROVE  RoleInv'
<1>1. w \in Callers /\ Startup \in Callers /\ w # Startup
  BY DriverAssumption DEF Callers
<1>2. ASSUME NEW d \in Callers, d # w
      PROVE  pc'[d] \notin Writing /\ pc'[d] = pc[d]
  BY <1>1, <1>2 DEF LockInv, Locked
<1>3. pc'[w] = b
  BY <1>1 DEF LockInv
<1>4. \A k \in 1..4 : Uploads[k] \in Writing
  BY UploadsAre DEF Writing
<1>5. SUFFICES ASSUME failures' = 0
               PROVE  /\ pc'[Startup] = "done"
                      /\ (\A d \in Callers : pc'[d] \notin Writing) => Agree'
                      /\ \A d \in Callers, k \in 1..4 : pc'[d] = Uploads[k] => Filled(d, k)'
  BY DEF RoleInv
<1>6. pc[Startup] = "done"
  BY <1>5 DEF RoleInv, SchemasType, Counts
<1>7. pc'[Startup] = "done"
  BY <1>1, <1>2, <1>6
<1>8. (\A d \in Callers : pc'[d] \notin Writing) => Agree'
  BY <1>1, <1>3, <1>5
<1>9. ASSUME NEW d \in Callers, NEW k \in 1..4, pc'[d] = Uploads[k]
      PROVE  Filled(d, k)'
  <2>1. d = w
    BY <1>2, <1>4, <1>9
  <2> QED
    BY <1>3, <1>5, <1>9, <2>1
<1> QED
  BY <1>7, <1>8, <1>9

\* The drivers are listed: their names are names of drivers.
LEMMA ListKeeps ==
    ASSUME RoleInv, LockInv, WorkInv, NEW w \in Workers, drv[w] # NoDriver, ListDrivers(w)
    PROVE  RoleInv'
<1>1. w \in Callers /\ drv[w] \in Drivers
  BY DEF WorkInv, Callers
<1>2. Own(w) \subseteq Names
  BY <1>1 DEF Own, Name, Names
<1>3. PICK b \in {"removeHost", "errorReply"} : pc' = [pc EXCEPT ![w] = b]
  BY DEF ListDrivers, SchemaFails, Step, Goto
<1>4. b \notin Writing /\ \A k \in 1..4 : Uploads[k] \in Writing
  BY UploadsAre DEF Writing
<1>5. pc[w] \in Locked /\ pc[w] = "list"
  BY DEF ListDrivers, SchemaFails, Step, Locked
<1>6. Counts /\ UNCHANGED host
  BY DEF ListDrivers, SchemaFails, Counts, Fail, NoFail, schema
<1>7. listed' \in [Callers -> SUBSET Names]
  <2>1. PICK N : N \subseteq Names /\ (listed' = [listed EXCEPT ![w] = N] \/ listed' = listed)
    <3>1. \A D \in SUBSET Drivers : NamesIn(D) \subseteq Names
      BY DEF NamesIn, Names
    <3>2. Own(w) \cup NamesIn({d \in Drivers : named[d] /\ dstate[d] \in {"active", "activating"}})
              \subseteq Names
      BY <1>2, <3>1
    <3> QED
      BY <3>2 DEF ListDrivers
  <2> QED
    BY <1>1, <2>1 DEF RoleInv, SchemasType
<1>8. SchemasType'
  BY <1>6, <1>7 DEF RoleInv, SchemasType, Counts
<1>9. ASSUME failures' = 0
      PROVE  Agree'
  <2>1. failures = 0
    BY <1>6, <1>9 DEF RoleInv, SchemasType, Counts
  <2>2. \A c \in Callers : pc[c] \notin Writing
    <3>1. \A c \in Callers : c # w => pc[c] \notin Locked
      BY <1>1, <1>5 DEF LockInv
    <3>2. pc[w] \notin Writing
      BY <1>5 DEF Writing
    <3> QED
      BY <3>1, <3>2 DEF Locked
  <2>3. Agree
    BY <2>1, <2>2 DEF RoleInv
  <2> QED
    BY <1>6, <2>3 DEF Agree
<1> QED
  BY <1>3, <1>4, <1>5, <1>6, <1>8, <1>9, HolderKeeps

\* The schemas are removed: of all roles, or something has failed.
LEMMA RemoveKeeps ==
    ASSUME RoleInv, LockInv, NEW w \in Workers, RemoveHost(w)
    PROVE  RoleInv'
<1>1. pc' = [pc EXCEPT ![w] = "service"] /\ pc[w] \in Locked
  BY UploadsAre DEF RemoveHost, Step, Goto, Locked
<1>2. Counts /\ UNCHANGED listed
  BY DEF RemoveHost, Counts, Fail, NoFail
<1>3. host' \in [Roles -> SUBSET SUBSET Names]
  BY DEF RemoveHost, RoleInv, SchemasType
<1>4. SchemasType'
  BY <1>2, <1>3 DEF RoleInv, SchemasType, Counts
<1>5. "service" \in Writing /\ \A k \in 1..4 : Uploads[k] = "service" => k = 1
  BY UploadsAre DEF Writing
<1>6. ASSUME failures' = 0
      PROVE  Filled(w, 1)'
  <2>1. host' = [r \in Roles |-> {}]
    BY <1>6 DEF RemoveHost, Fail, RoleInv, SchemasType
  <2>2. \A i \in 1..4 : Uploads[i] \in Roles /\ ~(i < 1)
    BY UploadsAre DEF Writing
  <2> QED
    BY <2>1, <2>2 DEF Filled
<1> QED
  BY <1>1, <1>2, <1>4, <1>5, <1>6, HolderKeeps

\* One schema is created: that of the next role.
LEMMA UploadKeeps ==
    ASSUME RoleInv, LockInv, NEW w \in Workers, NEW i \in 1..4, UploadHost(w, i)
    PROVE  RoleInv'
<1>1. w \in Callers /\ Uploads[i] \in Roles /\ Uploads[i] \in Locked /\ pc[w] = Uploads[i]
  BY UploadsAre DEF UploadHost, SchemaFails, Step, Callers, Locked, Writing
<1>2. PICK b \in {AfterUpload(i), "errorReply"} : pc' = [pc EXCEPT ![w] = b]
  BY DEF UploadHost, SchemaFails, Step, Goto
<1>3. Counts
  BY DEF UploadHost, SchemaFails, Counts, Fail, NoFail
<1>4. SchemasType'
  <2>1. listed[w] \subseteq Names
    BY <1>1 DEF RoleInv, SchemasType
  <2>2. host' \in [Roles -> SUBSET SUBSET Names]
    BY <1>1, <2>1 DEF UploadHost, Offer, RoleInv, SchemasType
  <2>3. listed' \in [Callers -> SUBSET Names]
    BY <1>1 DEF UploadHost, RoleInv, SchemasType
  <2> QED
    BY <1>3, <2>2, <2>3 DEF RoleInv, SchemasType, Counts
<1>5. ASSUME failures' = 0
      PROVE  /\ b \notin Writing => Agree'
             /\ \A k \in 1..4 : b = Uploads[k] => Filled(w, k)'
  <2>1. failures = 0 /\ b = AfterUpload(i) /\ Offer(w, i)
    <3>1. ~Fail
      BY <1>5 DEF Fail, RoleInv, SchemasType
    <3>2. pc' = [pc EXCEPT ![w] = AfterUpload(i)] /\ Offer(w, i) /\ NoFail
      BY <3>1 DEF UploadHost, SchemaFails, Step, Goto
    <3>3. pc'[w] = b /\ pc'[w] = AfterUpload(i)
      BY <1>1, <1>2, <3>2 DEF LockInv
    <3> QED
      BY <1>5, <3>2, <3>3 DEF NoFail
  <2>2. Filled(w, i)
    BY <1>1, <2>1 DEF RoleInv
  <2>3. \A j \in 1..4 : host'[Uploads[j]] = IF j < i + 1 THEN {Offered(w, Uploads[j])} ELSE {}
    <3>1. \A j \in 1..4 : j # i => Uploads[j] # Uploads[i]
      BY UploadsAre
    <3>2. host' = [host EXCEPT ![Uploads[i]] = @ \cup {Offered(w, Uploads[i])}]
      BY <2>1 DEF Offer, Offered
    <3>3. host'[Uploads[i]] = {Offered(w, Uploads[i])}
      BY <1>1, <2>2, <3>2 DEF Filled, RoleInv, SchemasType
    <3>4. \A j \in 1..4 : j # i => host'[Uploads[j]] = host[Uploads[j]]
      BY <3>1, <3>2 DEF RoleInv, SchemasType
    <3>5. \A j \in 1..4 : j < i + 1 <=> (j < i \/ j = i)
      OBVIOUS
    <3>6. ASSUME NEW j \in 1..4
          PROVE  host'[Uploads[j]] = IF j < i + 1 THEN {Offered(w, Uploads[j])} ELSE {}
      BY <2>2, <3>3, <3>4, <3>5 DEF Filled
    <3> QED
      BY <3>6
  <2>4. CASE i = 4
    <3>1. b = "publish" /\ b \notin Writing /\ \A k \in 1..4 : Uploads[k] \in Writing
      BY <2>1, <2>4, UploadsAre DEF AfterUpload, Writing
    <3>2. /\ host'["service"] = {listed[w]} /\ host'["project"] = {listed[w]}
          /\ host'["user"] = {listed[w]} /\ host'["readonly"] = {{}}
      BY <2>3, <2>4, UploadsAre DEF Offered
    <3>3. Agree'
      <4>1. listed[w] \in SUBSET Names
        BY <1>1 DEF RoleInv, SchemasType
      <4>2. \A r \in Roles \ {"readonly"} : host'[r] = {listed[w]}
        BY <3>2, UploadsAre DEF Writing
      <4> QED
        BY <3>2, <4>1, <4>2 DEF Agree
    <3> QED
      BY <3>1, <3>3
  <2>5. CASE i # 4
    <3>1. i \in 1..3 /\ b = Uploads[i + 1] /\ i + 1 \in 1..4
      BY <2>1, <2>5, UploadsAre DEF AfterUpload
    <3>2. b \in Writing /\ b # "publish" /\ b # "errorReply"
      BY <3>1, UploadsAre DEF Writing
    <3>3. \A k \in 1..4 : b = Uploads[k] => k = i + 1
      <4>1. \A j, k \in 1..4 : Uploads[j] = Uploads[k] => j = k
        BY UploadsAre
      <4> QED
        BY <3>1, <4>1
    <3>4. listed' = listed
      <4>1. pc'[w] = b
        BY <1>1, <1>2 DEF LockInv
      <4> QED
        BY <3>2, <4>1 DEF UploadHost
    <3>5. Filled(w, i + 1)'
      BY <2>3, <3>4 DEF Filled, Offered
    <3> QED
      BY <3>2, <3>3, <3>5
  <2> QED
    BY <2>4, <2>5
<1> QED
  BY <1>1, <1>2, <1>3, <1>4, <1>5, HolderKeeps

\* A step of a handler.
LEMMA HandlerKeeps ==
    ASSUME RoleInv, LockInv, WorkInv, NEW w \in Workers, Handle(w)
    PROVE  RoleInv'
<1>1. w \in Callers /\ w # Startup /\ drv[w] # NoDriver /\ job[w] \in Events
  BY DriverAssumption DEF Handle, WorkInv, Callers
<1>2. \A i \in 1..Len(Uploads) : i \in 1..4
  BY UploadsAre
<1>3. Free \cap Writing = {} /\ Generating \cap Writing = {} /\ {"flags", "list"} \subseteq Generating \cup {"list"}
  BY DEF Free, Generating, Writing
<1>4. CASE ListDrivers(w)
  BY <1>1, <1>4, ListKeeps
<1>5. CASE RemoveHost(w)
  BY <1>5, RemoveKeeps
<1>6. CASE \E i \in 1..Len(Uploads) : UploadHost(w, i)
  BY <1>2, <1>6, UploadKeeps
<1>7. CASE \/ Stage(w) \/ Install(w) \/ Remove(w) \/ ClearError(w) \/ Unlocked(w)
           \/ GenLock(w) \/ UploadLock(w)
           \/ GetCreateFlags(w) \/ RemoveConfig(w) \/ CreateConfig(w)
  <2>1. Frame
    BY <1>1, <1>7, StageOutside, InstallOutside, RemoveOutside, UnlockedOutside, TakesLock,
       GeneratesInside
  <2>2. Outside(w) \/ Enters(w) \/ Moves(w, Generating, Generating \cup Free)
    BY <1>1, <1>7, StageOutside, InstallOutside, RemoveOutside, UnlockedOutside, TakesLock,
       GeneratesInside
  <2>3. PICK b \in Free \cup Generating \cup {"list"} : pc' = [pc EXCEPT ![w] = b]
    BY <1>3, <2>2 DEF Outside, Enters, Moves
  <2>4. pc[w] \notin Writing
    BY <1>3, <2>2 DEF Outside, Enters, Moves
  <2> QED
    BY <1>1, <2>1, <2>3, <2>4, AsideKeeps DEF Frame
<1> QED
  BY <1>4, <1>5, <1>6, <1>7 DEF Handle, Unlocked, GenerateAndUploadSchema, UploadMachineSchemas

\* Every step keeps the invariant of the schemas.
LEMMA RoleStep ==
    ASSUME RoleInv, LockInv, WorkInv, [Next]_vars
    PROVE  RoleInv'
<1>0. Startup \in Callers /\ Startup \notin Workers /\ Free \cap Writing = {}
  BY DriverAssumption DEF Callers, Free, Writing
<1>1. CASE Around \/ UNCHANGED vars
  <2>1. UNCHANGED <<pc, host, listed, failures>>
    BY <1>1, AroundKeeps DEF vars, local, schema
  <2> QED
    BY <2>1 DEF RoleInv, SchemasType, Agree, Filled, Offered
<1>2. ASSUME NEW w \in Workers, NEW d \in Drivers, HandleWork(w, d)
      PROVE  RoleInv'
  <2>1. Outside(w) /\ UNCHANGED <<host, listed, failures>>
    BY <1>2, TakesWork
  <2>2. PICK b \in Free : pc' = [pc EXCEPT ![w] = b]
    BY <2>1 DEF Outside, Moves
  <2>3. w \in Callers /\ w # Startup /\ pc[w] \notin Writing
    BY <1>0, <2>1 DEF Outside, Moves, Callers
  <2>4. Counts
    BY <2>1 DEF Counts
  <2> QED
    BY <2>1, <2>2, <2>3, <2>4, AsideKeeps
<1>3. CASE \E w \in Workers : Handle(w)
  BY <1>3, HandlerKeeps
<1>4. CASE Lists \/ Works
  <2>1. Outside(Startup) /\ UNCHANGED <<host, listed>> /\ Counts
    BY <1>0, <1>4, ListsOutside, StageOutside, InstallOutside DEF Works, Frame
  <2>2. PICK b \in Free : pc' = [pc EXCEPT ![Startup] = b]
    BY <2>1 DEF Outside, Moves
  <2>3. pc[Startup] \notin Writing /\ pc[Startup] # "done"
    <3>1. CASE Lists
      BY <1>0, <2>1, <3>1, ListsOutside DEF Outside, Moves
    <3>2. CASE Works
      <4>1. pc[Startup] # "done"
        BY <3>2 DEF Works, Stage, Install, GetError, IsInstalled, Download, CopyStaged, NameCache,
           StageFails, Open, Copy, Rename, Step
      <4> QED
        BY <1>0, <2>1, <4>1 DEF Outside, Moves
    <3> QED
      BY <1>4, <3>1, <3>2
  <2> QED
    BY <1>0, <2>1, <2>2, <2>3, AsideKeeps
<1>5. ASSUME ProcessStarts, UNCHANGED host, Counts, failures' # 0
      PROVE  RoleInv'
  <2>1. listed' = [c \in Callers |-> {}]
    BY <1>5 DEF ProcessStarts
  <2>2. SchemasType'
    BY <1>5, <2>1 DEF RoleInv, SchemasType, Counts
  <2> QED
    BY <1>5, <2>2, FailedKeeps
<1>6. CASE Dies
  <2>1. ProcessStarts /\ UNCHANGED host /\ Counts
    BY <1>6 DEF Dies, TooLate, Fatal, Restart, Counts, Fail, schema
  <2>2. pc[Startup] # "done"
    BY <1>6 DEF Dies, TooLate, Fatal
  <2>3. failures' # 0
    BY <2>1, <2>2 DEF RoleInv, SchemasType, Counts
  <2> QED
    BY <1>5, <2>1, <2>3
<1>7. CASE Crash
  <2>1. ProcessStarts /\ UNCHANGED host /\ Counts /\ failures' # 0
    BY <1>7 DEF Crash, Restart, Replace, Counts, Fail, schema, RoleInv, SchemasType
  <2> QED
    BY <1>5, <2>1
<1> QED
  BY <1>1, <1>2, <1>3, <1>4, <1>6, <1>7 DEF Next, StartupStep, Around, Lists, Works, Dies

\* When the startup is over the active drivers are offered to every role.
LEMMA RolesAtStart ==
    ASSUME InitReady
    PROVE  RoleInv
<1>1. PICK A \in SUBSET Drivers : \E I : Before(A, I)
  BY DEF InitReady
<1>2. /\ failures = 0 /\ listed = [c \in Callers |-> {}]
      /\ host = [r \in Roles |-> {IF r = "readonly" THEN {} ELSE NamesIn(A)}]
  BY <1>1 DEF Before
<1>3. NamesIn(A) \in SUBSET Names
  BY DEF NamesIn, Names
<1>4. pc = [c \in Callers |-> IF c = Startup THEN "done" ELSE "idle"]
  BY DEF InitReady
<1>5. SchemasType
  BY <1>2, <1>3 DEF SchemasType
<1>6. Agree
  <2>1. /\ \A r \in Roles \ {"readonly"} : host[r] = {NamesIn(A)}
        /\ host["readonly"] = {{}}
    BY <1>2, UploadsAre DEF Writing
  <2> QED
    BY <1>3, <2>1 DEF Agree
<1>7. pc[Startup] = "done" /\ \A c \in Callers : pc[c] \notin Writing
  BY <1>4 DEF Writing, Callers
<1>8. \A k \in 1..4 : Uploads[k] \in Writing
  BY UploadsAre DEF Writing
<1> QED
  BY <1>5, <1>6, <1>7, <1>8 DEF RoleInv

\* RolesAgree, for any drivers, workers and requests: whoever finds schemaLock
\* free finds the same "host" schema for every role, as long as no call has
\* failed since the startup.
THEOREM RolesTheorem == ReadySpec => []RolesAgree
<1>1. InitReady => RoleInv /\ LockInv /\ WorkInv
  BY RolesAtStart, LockAtStart
<1>2. RoleInv /\ LockInv /\ WorkInv /\ [Next]_vars => (RoleInv /\ LockInv /\ WorkInv)'
  BY RoleStep, LockStep
<1>3. RoleInv /\ LockInv => RolesAgree
  <2>1. SUFFICES ASSUME RoleInv, LockInv, schemaLock = NoOne, failures = 0
                 PROVE  Agree
    BY DEF RolesAgree, Agree
  <2>2. \A c \in Callers : pc[c] \notin Locked
    BY <2>1, DriverAssumption DEF LockInv
  <2>3. \A c \in Callers : pc[c] \notin Writing
    BY <2>2 DEF Locked
  <2> QED
    BY <2>1, <2>3 DEF RoleInv
<1> QED
  BY <1>1, <1>2, <1>3, PTL DEF ReadySpec

-----------------------------------------------------------------------------
(***************************************************************************)
(* Type correctness.  LockInv and WorkInv say where the goroutines are and *)
(* what they work on; the rest is in four parts, by what writes it.        *)
(***************************************************************************)
RecordType == /\ dstate \in [Drivers -> DriverStates] /\ named \in [Drivers -> BOOLEAN]
              /\ default \in [Drivers -> BOOLEAN] /\ current \in [Drivers -> BOOLEAN]

CountType == /\ requests \in 0..MaxRequests /\ failures \in 0..MaxFailures
             /\ connected \subseteq Routers

SchemaType == /\ config \subseteq Names /\ host \in [Roles -> SUBSET SUBSET Names]
              /\ listed \in [Callers -> SUBSET Names]

DiskType == /\ cache \in [Drivers -> BOOLEAN] /\ errFile \in [Drivers -> BOOLEAN]
            /\ staged \in [Drivers -> Files]
            /\ tmp \in [Names -> Files] /\ bin \in [Names -> Files]
            /\ src \in [Callers -> {"whole", "torn"}]

DataType == RecordType /\ CountType /\ SchemaType /\ DiskType

\* TypeOK is made of the parts that steps touch together.
LEMMA TypesAre ==
    ASSUME LockInv, WorkInv, DataType PROVE TypeOK
<1>1. Free \cup Locked \subseteq Steps
  BY UploadsAre DEF Free, Locked, Generating, Writing, Steps
<1> QED
  BY <1>1 DEF LockInv, WorkInv, DataType, RecordType, CountType, SchemaType, DiskType, TypeOK

\* A call that fails is counted, up to the bound.
LEMMA Counted ==
    ASSUME CountType, NoFail \/ Fail, UNCHANGED <<requests, connected>>
    PROVE  CountType'
BY DriverAssumption DEF CountType, NoFail, Fail

\* A file that is closed is whole or torn.
LEMMA ClosedFiles ==
    ASSUME NEW S, NEW files \in [S -> Files], NEW c, NEW f \in {"whole", "torn"}
    PROVE  Closed(files, c, f) \in [S -> Files]
<1>1. f \in Files
  BY DEF Files
<1> QED
  BY <1>1 DEF Closed

\* The caller that works on a driver.
LEMMA AtDriver ==
    ASSUME WorkInv, NEW c \in Callers, drv[c] # NoDriver
    PROVE  drv[c] \in Drivers /\ Name(c) \in Names /\ c \in Files
BY DEF WorkInv, Name, Names, Files

\* Stage, Install and Remove touch the disk only ...
Filing == /\ UNCHANGED <<record, requests, schema, connected, listed>>
          /\ NoFail \/ Fail

\* Stage writes files.
LEMMA StageFiles ==
    ASSUME DiskType, WorkInv, NEW c \in Callers, drv[c] # NoDriver, Stage(c)
    PROVE  Filing /\ DiskType'
<1>1. c \in Files /\ {"whole", "torn"} \subseteq Files
  BY DEF Files
<1> USE DEF Filing, others, store, binary, NoFail, StageFails, DiskType
<1>2. CASE GetError(c)
  BY <1>2 DEF GetError
<1>3. CASE IsInstalled(c)
  BY <1>3 DEF IsInstalled
<1>4. CASE Download(c)
  <2>1. Filing /\ UNCHANGED <<cache, tmp, bin>>
    BY <1>4 DEF Download
  <2>2. errFile' \in [Drivers -> BOOLEAN]
    BY <1>4 DEF Download
  <2>3. staged' \in [Drivers -> Files]
    BY <1>1, <1>4 DEF Download
  <2>4. src' \in [Callers -> {"whole", "torn"}]
    BY <1>4 DEF Download
  <2> QED
    BY <2>1, <2>2, <2>3, <2>4
<1>5. CASE CopyStaged(c)
  <2>1. Filing /\ UNCHANGED <<cache, tmp, bin, src>>
    BY <1>5 DEF CopyStaged
  <2>2. errFile' \in [Drivers -> BOOLEAN]
    BY <1>5 DEF CopyStaged
  <2>3. staged' \in [Drivers -> Files]
    BY <1>5, ClosedFiles DEF CopyStaged
  <2> QED
    BY <2>1, <2>2, <2>3
<1>6. CASE NameCache(c)
  BY <1>6 DEF NameCache
<1> QED
  BY <1>2, <1>3, <1>4, <1>5, <1>6 DEF Stage

\* Install writes files.
LEMMA InstallFiles ==
    ASSUME DiskType, WorkInv, NEW c \in Callers, drv[c] # NoDriver, Install(c)
    PROVE  Filing /\ DiskType'
<1>1. c \in Files /\ {"none", "whole", "torn"} \subseteq Files /\ Name(c) \in Names
  BY DEF Files, WorkInv, Name, Names
<1> USE DEF Filing, others, store, binary, NoFail, DiskType
<1>2. CASE Open(c)
  BY <1>1, <1>2 DEF Open
<1>3. CASE Copy(c)
  <2>1. Filing /\ UNCHANGED <<cache, staged, errFile>> /\ src' \in [Callers -> {"whole", "torn"}]
    BY <1>3 DEF Copy
  <2>2. tmp' \in [Names -> Files] /\ bin' \in [Names -> Files]
    BY <1>3, ClosedFiles DEF Copy
  <2> QED
    BY <2>1, <2>2
<1>4. CASE Rename(c)
  <2>1. tmp[Name(c)] \in Files
    BY <1>1
  <2> QED
    BY <1>1, <1>4, <2>1 DEF Rename
<1> QED
  BY <1>2, <1>3, <1>4 DEF Install

\* Remove and ClearError write files.
LEMMA RemoveFiles ==
    ASSUME DiskType, NEW c \in Callers, Remove(c) \/ ClearError(c)
    PROVE  Filing /\ DiskType'
<1>1. "none" \in Files
  BY DEF Files
<1> USE DEF Filing, others, store, binary, NoFail, DiskType
<1>2. CASE RemoveBinary(c)
  BY <1>1, <1>2 DEF RemoveBinary
<1>3. CASE RemoveStaged(c)
  BY <1>1, <1>3 DEF RemoveStaged
<1>4. CASE RemoveCache(c)
  BY <1>4 DEF RemoveCache
<1>5. CASE ClearError(c)
  BY <1>5 DEF ClearError
<1> QED
  BY <1>2, <1>3, <1>4, <1>5 DEF Remove

\* ... of their types.
LEMMA FilingKeeps ==
    ASSUME DataType, Filing, DiskType' PROVE DataType'
<1>1. RecordType' /\ SchemaType'
  BY DEF DataType, Filing, RecordType, SchemaType, record, schema
<1>2. CountType'
  BY Counted DEF DataType, Filing
<1> QED
  BY <1>1, <1>2 DEF DataType

\* ... and the uploads the schemas only.
Describing == /\ UNCHANGED <<record, requests, connected, disk, src>>
              /\ NoFail \/ Fail

\* A driver is described.
LEMMA GeneratesType ==
    ASSUME SchemaType, WorkInv, NEW w \in Workers, drv[w] # NoDriver,
           GenerateAndUploadSchema(w) \/ GetVersion(w) \/ RemoveSchemas(w)
    PROVE  Describing /\ SchemaType'
<1>1. Name(w) \in Names
  BY DEF WorkInv, Name, Names, Callers
<1> USE DEF Describing, rest, schema, NoFail, SchemaFails, SchemaType
<1>2. CASE GenLock(w)
  BY <1>2 DEF GenLock
<1>3. CASE GetCreateFlags(w)
  BY <1>3 DEF GetCreateFlags
<1>4. CASE RemoveConfig(w)
  BY <1>4 DEF RemoveConfig
<1>5. CASE CreateConfig(w)
  BY <1>1, <1>5 DEF CreateConfig
<1>6. CASE GetVersion(w)
  BY <1>6 DEF GetVersion
<1>7. CASE RemoveSchemas(w)
  BY <1>7 DEF RemoveSchemas
<1> QED
  BY <1>2, <1>3, <1>4, <1>5, <1>6, <1>7 DEF GenerateAndUploadSchema

\* The hosts are offered drivers.
LEMMA UploadsType ==
    ASSUME SchemaType, WorkInv, NEW w \in Workers, drv[w] # NoDriver, UploadMachineSchemas(w)
    PROVE  Describing /\ SchemaType'
<1> USE DEF Describing, rest, schema, NoFail, SchemaFails, SchemaType
<1>1. CASE UploadLock(w)
  BY <1>1 DEF UploadLock
<1>2. CASE ListDrivers(w)
  <2>1. Own(w) \subseteq Names
    BY DEF Own, WorkInv, Name, Names, Callers
  <2>2. \A D \in SUBSET Drivers : NamesIn(D) \subseteq Names
    BY DEF NamesIn, Names
  <2>3. PICK N \in SUBSET Names : listed' = [listed EXCEPT ![w] = N] \/ listed' = listed
    <3>1. NamesIn({d \in Drivers : named[d] /\ dstate[d] \in {"active", "activating"}}) \subseteq Names
      BY <2>2
    <3>2. CASE UNCHANGED listed
      BY <3>2
    <3> QED
      BY <1>2, <2>1, <3>1, <3>2 DEF ListDrivers
  <2>4. listed' \in [Callers -> SUBSET Names]
    BY <2>3
  <2> QED
    BY <1>2, <2>4 DEF ListDrivers
<1>3. CASE RemoveHost(w)
  BY <1>3 DEF RemoveHost
<1>4. ASSUME NEW i \in 1..Len(Uploads), UploadHost(w, i)
      PROVE  Describing /\ SchemaType'
  <2>1. Uploads[i] \in Roles /\ listed[w] \in SUBSET Names
    BY UploadsAre DEF Writing, Callers
  <2>2. host' \in [Roles -> SUBSET SUBSET Names]
    BY <1>4, <2>1 DEF UploadHost, Offer
  <2>3. listed' \in [Callers -> SUBSET Names]
    BY <1>4 DEF UploadHost
  <2> QED
    BY <1>4, <2>2, <2>3 DEF UploadHost
<1> QED
  BY <1>1, <1>2, <1>3, <1>4 DEF UploadMachineSchemas

\* ... of their types.
LEMMA DescribingKeeps ==
    ASSUME DataType, Describing, SchemaType' PROVE DataType'
<1>1. RecordType' /\ DiskType'
  BY DEF DataType, Describing, RecordType, DiskType, record, disk, store, binary
<1>2. CountType'
  BY Counted DEF DataType, Describing
<1> QED
  BY <1>1, <1>2 DEF DataType

\* The rest of the handlers writes Cattle's records, and those only.
Settling == /\ UNCHANGED <<requests, connected, schema, disk, src, listed>>
            /\ NoFail \/ Fail

\* The calls that answer, or read, a record.
LEMMA CallsType ==
    ASSUME RecordType, NEW w \in Workers, job[w] \in Events,
           GetDriver(w) \/ NameCheck(w) \/ GetToRemove(w) \/ PublishReply(w) \/ ErrorReply(w)
    PROVE  Settling /\ RecordType'
<1> USE DEF Settling, others, record, NoFail
<1>1. CASE GetDriver(w)
  BY <1>1 DEF GetDriver, RecordType
<1>2. CASE NameCheck(w)
  BY <1>2 DEF NameCheck, RecordType
<1>3. CASE GetToRemove(w)
  BY <1>3 DEF GetToRemove, RecordType
<1>4. CASE PublishReply(w)
  <2>1. Answered(drv[w], job[w]) \/ UNCHANGED record
    BY <1>4 DEF PublishReply
  <2>2. Settled[job[w]] \in DriverStates
    BY DEF DriverStates
  <2> QED
    BY <1>4, <2>1, <2>2 DEF PublishReply, Answered, RecordType
<1>5. CASE ErrorReply(w)
  <2>1. Refused(drv[w], job[w]) \/ UNCHANGED record
    BY <1>5 DEF ErrorReply
  <2>2. "erroring" \in DriverStates
    BY DEF DriverStates, InTransition, EventOf
  <2> QED
    BY <1>5, <2>1, <2>2 DEF ErrorReply, Refused, RecordType
<1> QED
  BY <1>1, <1>2, <1>3, <1>4, <1>5

\* ... leave the rest alone.
LEMMA SettlingKeeps ==
    ASSUME DataType, Settling, RecordType' PROVE DataType'
<1>1. SchemaType' /\ DiskType'
  BY DEF DataType, Settling, SchemaType, DiskType, schema, disk, store, binary
<1>2. CountType'
  BY Counted DEF DataType, Settling
<1> QED
  BY <1>1, <1>2 DEF DataType

\* All steps of a handler.
LEMMA HandlerTypes ==
    ASSUME DataType, WorkInv, NEW w \in Workers, Handle(w)
    PROVE  DataType'
<1>1. w \in Callers /\ drv[w] # NoDriver /\ job[w] \in Events
  BY DEF Handle, WorkInv, Callers
<1>2. CASE Stage(w) \/ Install(w) \/ Remove(w) \/ ClearError(w)
  BY <1>1, <1>2, StageFiles, InstallFiles, RemoveFiles, FilingKeeps DEF DataType
<1>3. CASE GenerateAndUploadSchema(w) \/ GetVersion(w) \/ RemoveSchemas(w) \/ UploadMachineSchemas(w)
  BY <1>1, <1>3, GeneratesType, UploadsType, DescribingKeeps DEF DataType
<1>4. CASE GetDriver(w) \/ NameCheck(w) \/ GetToRemove(w) \/ PublishReply(w) \/ ErrorReply(w)
  BY <1>1, <1>4, CallsType, SettlingKeeps DEF DataType
<1> QED
  BY <1>2, <1>3, <1>4 DEF Handle

\* What SyncBuiltin asks for, of drivers that are in no transition.
LEMMA SyncAsks ==
    ASSUME RecordType, Sync
    PROVE  /\ dstate' \in [Drivers -> DriverStates]
           /\ \A d \in Drivers :
                  \/ dstate'[d] = dstate[d]
                  \/ /\ dstate[d] \notin InTransition
                     /\ dstate'[d] \in {"activating", "removing"} \/ (d \in Core /\ dstate'[d] = "inactive")
<1>1. dstate \in [Drivers -> DriverStates]
  BY DEF RecordType
<1>2. {"inactive", "removing", "activating"} \subseteq DriverStates
  BY DEF DriverStates, InTransition, EventOf, Settled, Events
<1>3. {"absent", "removed", "inactive"} \cap InTransition = {}
  BY DEF InTransition, EventOf
<1>4. \A d \in Drivers :
          \/ Synced(d) = dstate[d]
          \/ /\ dstate[d] \notin InTransition
             /\ Synced(d) = "removing" \/ (d \in Core /\ Synced(d) = "inactive")
  BY <1>3 DEF Synced, Missing
<1>5. dstate' = dstate \/ \E d \in todo :
          \/ Default(d) /\ dstate' = [dstate EXCEPT ![d] = "activating"]
          \/ dstate' = [dstate EXCEPT ![d] = Synced(d)]
  BY DEF Sync
<1>6. CASE dstate' = dstate
  BY <1>1, <1>6
<1>7. ASSUME NEW d \in todo, Default(d), dstate' = [dstate EXCEPT ![d] = "activating"]
      PROVE  /\ dstate' \in [Drivers -> DriverStates]
             /\ \A e \in Drivers : dstate'[e] = dstate[e] \/ (dstate[e] = "inactive" /\ dstate'[e] = "activating")
  BY <1>1, <1>2, <1>7 DEF Default
<1>8. ASSUME NEW d \in todo, dstate' = [dstate EXCEPT ![d] = Synced(d)]
      PROVE  /\ dstate' \in [Drivers -> DriverStates]
             /\ \A e \in Drivers : dstate'[e] = dstate[e] \/ (e = d /\ dstate'[e] = Synced(e))
  <2>1. CASE d \in Drivers
    BY <1>1, <1>2, <1>4, <1>8, <2>1
  <2>2. CASE d \notin Drivers
    BY <1>1, <1>8, <2>2
  <2> QED
    BY <2>1, <2>2
<1> QED
  BY <1>3, <1>4, <1>5, <1>6, <1>7, <1>8

\* The startup.
LEMMA ListsType ==
    ASSUME DataType, Lists
    PROVE  DataType'
<1>1. /\ UNCHANGED <<named, default, current, requests, schema, disk, connected, src, listed>>
      /\ NoFail \/ Fail
  BY DEF Lists, Ready, ListOld, ReactivateOld, ListBuiltin, Sync, ListAll, NextDriver, Redo,
     unmoved, NoFail
<1>2. \A s \in {"reactivating", "inactive", "removing", "activating"} : s \in DriverStates
  BY DEF DriverStates, InTransition, EventOf, Settled, Events
<1>3. dstate' \in [Drivers -> DriverStates]
  <2>1. CASE dstate' = dstate
    BY <2>1 DEF DataType, RecordType
  <2>2. ASSUME NEW d \in Drivers, Reactivate(d)
        PROVE  dstate' \in [Drivers -> DriverStates]
    BY <1>2, <2>2 DEF Reactivate, DataType, RecordType
  <2>3. CASE Reactivate(drv[Startup])
    BY <1>2, <2>3 DEF Reactivate, DataType, RecordType
  <2>4. CASE Sync
    BY <2>4, SyncAsks DEF DataType
  <2>5. CASE ReactivateOld
    BY <2>1, <1>2, <2>5 DEF ReactivateOld, Reactivate, DataType, RecordType
  <2> QED
    BY <2>1, <2>3, <2>4, <2>5 DEF Lists, Ready, ListOld, ListBuiltin, ListAll, NextDriver, Redo
<1>4. RecordType'
  BY <1>1, <1>3 DEF DataType, RecordType
<1>5. SchemaType' /\ DiskType'
  BY <1>1 DEF DataType, SchemaType, DiskType, schema, disk, store, binary
<1>6. CountType'
  BY <1>1, Counted DEF DataType
<1> QED
  BY <1>4, <1>5, <1>6 DEF DataType

\* The process ends, and starts again.
LEMMA TornFiles ==
    ASSUME NEW S, NEW files \in [S -> Files] PROVE Torn(files) \in [S -> Files]
<1>1. "torn" \in Files
  BY DEF Files
<1> QED
  BY <1>1 DEF Torn

\* The process starts again.
LEMMA StartsTyped ==
    ASSUME DataType, ProcessStarts, UNCHANGED <<requests, schema>>, NoFail \/ Fail,
           \/ Restart /\ UNCHANGED record
           \/ Replace
    PROVE  DataType'
<1>1. CountType'
  BY DriverAssumption DEF DataType, CountType, ProcessStarts, NoFail, Fail
<1>2. SchemaType'
  BY DEF DataType, SchemaType, ProcessStarts, schema
<1>3. src' \in [Callers -> {"whole", "torn"}]
  BY DEF ProcessStarts
<1>4. CASE Restart /\ UNCHANGED record
  <2>1. RecordType'
    BY <1>4 DEF DataType, RecordType, record
  <2>2. DiskType'
    BY <1>3, <1>4, TornFiles DEF DataType, DiskType, Restart
  <2> QED
    BY <1>1, <1>2, <2>1, <2>2 DEF DataType
<1>5. CASE Replace
  <2>1. RecordType'
    BY <1>5 DEF DataType, RecordType, Replace
  <2>2. DiskType'
    BY <1>3, <1>5 DEF DataType, DiskType, Replace, Files
  <2> QED
    BY <1>1, <1>2, <2>1, <2>2 DEF DataType
<1> QED
  BY <1>4, <1>5

\* Every step.
LEMMA TypeStep ==
    ASSUME DataType, WorkInv, [Next]_vars
    PROVE  DataType'
<1>0. Startup \in Callers
  BY DEF Callers
<1>1. CASE \E d \in Drivers : CattleSends(d)
  BY <1>1 DEF CattleSends, DataType, RecordType, CountType, SchemaType, DiskType,
     record, schema, disk, store, binary, local
<1>2. ASSUME NEW d \in Drivers, User(d)
      PROVE  DataType'
  <2>1. \A s \in {"activating", "deactivating", "removing", "reactivating"} : s \in DriverStates
    BY DEF DriverStates, InTransition, EventOf
  <2>2. PICK s \in DriverStates : dstate' = [dstate EXCEPT ![d] = s]
    BY <1>2, <2>1 DEF User, UserAsks
  <2>3. /\ requests < MaxRequests /\ requests' = requests + 1
        /\ UNCHANGED <<named, default, current, schema, disk, connected, src, listed, failures>>
    BY <1>2 DEF User, UserAsks, local
  <2>4. RecordType'
    BY <2>2, <2>3 DEF DataType, RecordType
  <2>5. CountType'
    BY <2>3, DriverAssumption DEF DataType, CountType
  <2>6. SchemaType' /\ DiskType'
    BY <2>3 DEF DataType, SchemaType, DiskType, schema, disk, store, binary
  <2> QED
    BY <2>4, <2>5, <2>6 DEF DataType
<1>3. CASE \E w \in Workers, d \in Drivers : HandleWork(w, d)
  BY <1>3 DEF HandleWork, DataType, RecordType, CountType, SchemaType, DiskType,
     record, schema, disk, store, binary
<1>4. CASE \E w \in Workers : Handle(w)
  BY <1>4, HandlerTypes
<1>5. CASE \E r \in Routers : Connect(r)
  BY <1>5 DEF Connect, DataType, RecordType, CountType, SchemaType, DiskType,
     record, schema, disk, store, binary, local
<1>6. CASE Lists
  BY <1>6, ListsType
<1>7. CASE Works
  BY <1>0, <1>7, StageFiles, InstallFiles, FilingKeeps DEF Works, DataType
<1>8. CASE Dies
  <2>1. Restart /\ UNCHANGED <<record, requests, schema>> /\ (NoFail \/ Fail)
    BY <1>8 DEF Dies, TooLate, Fatal, NoFail
  <2> QED
    BY <2>1, StartsTyped DEF Restart
<1>9. CASE Crash
  <2>1. UNCHANGED <<requests, schema>> /\ Fail /\ ((Restart /\ UNCHANGED record) \/ Replace)
    BY <1>9 DEF Crash
  <2> QED
    BY <2>1, StartsTyped DEF Restart, Replace
<1>10. CASE UNCHANGED vars
  BY <1>10 DEF vars, DataType, RecordType, CountType, SchemaType, DiskType,
     record, schema, disk, store, binary, local
<1> QED
  BY <1>1, <1>2, <1>3, <1>4, <1>5, <1>6, <1>7, <1>8, <1>9, <1>10
  DEF Next, StartupStep, Lists, Works, Dies

\* The first states, of a service that starts and of one that is ready.
LEMMA TypedAtStart ==
    ASSUME Init \/ InitReady
    PROVE  DataType
<1>1. PICK A, I \in SUBSET Drivers : Before(A, I)
  BY DEF Init, InitReady
<1>2. NamesIn(A) \in SUBSET Names
  BY DEF NamesIn, Names
<1>3. /\ default \in [Drivers -> BOOLEAN] /\ current \in [Drivers -> BOOLEAN]
      /\ connected \subseteq Routers
      /\ \E B \in SUBSET Drivers : HasFiles(B)
  <2>1. \A B \in SUBSET Drivers : B \ Builtin \in SUBSET Drivers
    OBVIOUS
  <2>2. {} \in SUBSET Drivers
    OBVIOUS
  <2>3. CASE Init
    <3>1. \E B \in SUBSET Drivers : HasFiles(B)
      BY <2>1, <2>2, <2>3 DEF Init
    <3>2. \E D \in SUBSET Drivers : default = [d \in Drivers |-> d \in D]
      BY <2>3 DEF Init
    <3>3. current \in [Drivers -> BOOLEAN]
      <4>1. \A D \in SUBSET Drivers : [d \in Drivers |-> d \in D] \in [Drivers -> BOOLEAN]
        OBVIOUS
      <4>2. [d \in Drivers |-> FALSE] \in [Drivers -> BOOLEAN]
        OBVIOUS
      <4>3. \/ \E D \in SUBSET Drivers : current = [d \in Drivers |-> d \in D]
            \/ current = [d \in Drivers |-> FALSE]
        BY <2>3, Zenon DEF Init
      <4> QED
        BY <4>1, <4>2, <4>3
    <3>4. connected = {}
      BY <2>3 DEF Init
    <3> QED
      BY <3>1, <3>2, <3>3, <3>4
  <2>4. CASE InitReady
    <3>1. \E B \in SUBSET Drivers : HasFiles(B)
      BY <2>1, <2>4 DEF InitReady
    <3>2. default = [d \in Drivers |-> FALSE] /\ connected = Routers
      BY <2>4 DEF InitReady
    <3>3. \E D \in SUBSET Drivers : current = [d \in Drivers |-> d \in D]
      BY <2>4 DEF InitReady
    <3> QED
      BY <3>1, <3>2, <3>3
  <2> QED
    BY <2>3, <2>4
<1>4. {"active", "inactive", "absent"} \subseteq DriverStates
  BY DEF DriverStates, Settled, Events
<1>5. RecordType
  <2>1. dstate = [d \in Drivers |-> IF d \in A THEN "active"
                                    ELSE IF d \in I THEN "inactive" ELSE "absent"]
    BY <1>1 DEF Before
  <2>2. dstate \in [Drivers -> DriverStates]
    BY <1>4, <2>1
  <2> QED
    BY <1>1, <1>3, <2>2 DEF RecordType, Before
<1>6. CountType
  BY <1>1, <1>3, DriverAssumption DEF CountType, Before
<1>7. SchemaType
  <2>1. /\ config = NamesIn(A) /\ listed = [c \in Callers |-> {}]
        /\ host = [r \in Roles |-> {IF r = "readonly" THEN {} ELSE NamesIn(A)}]
    BY <1>1 DEF Before
  <2> QED
    BY <1>2, <2>1 DEF SchemaType
<1>8. DiskType
  <2>1. PICK B \in SUBSET Drivers : HasFiles(B)
    BY <1>3
  <2>2. {"none", "whole", "torn"} \subseteq Files
    BY DEF Files
  <2>3. cache \in [Drivers -> BOOLEAN]
    BY <2>1 DEF HasFiles
  <2>4. staged \in [Drivers -> Files] /\ bin \in [Names -> Files]
    BY <2>1, <2>2 DEF HasFiles
  <2>5. errFile \in [Drivers -> BOOLEAN] /\ tmp \in [Names -> Files]
        /\ src \in [Callers -> {"whole", "torn"}]
    BY <1>1, <2>2 DEF Before
  <2> QED
    BY <2>3, <2>4, <2>5 DEF DiskType
<1> QED
  BY <1>5, <1>6, <1>7, <1>8 DEF DataType

\* TypeOK, for any drivers, workers and bounds, whatever fails and crashes.
THEOREM TypeTheorem == Spec => []TypeOK
<1>1. Init => DataType /\ LockInv /\ WorkInv
  BY TypedAtStart, LockAtStart
<1>2. DataType /\ LockInv /\ WorkInv /\ [Next]_vars => (DataType /\ LockInv /\ WorkInv)'
  BY TypeStep, LockStep
<1>3. DataType /\ LockInv /\ WorkInv => TypeOK
  BY TypesAre
<1> QED
  BY <1>1, <1>2, <1>3, PTL DEF Spec

-----------------------------------------------------------------------------
(***************************************************************************)
(* The upgrade.  An active driver that another version of the service has  *)
(* activated is one that the startup has still to list, or to reactivate;  *)
(* who becomes active later has been activated by this version.            *)
(***************************************************************************)
Unlisted == {"ready1", "ready2", "listOld"}

OldListed ==
    pc[Startup] \notin Unlisted =>
        \A d \in Active : current[d] = TRUE \/ (pc[Startup] = "reactivateOld" /\ d \in todo)

\* The drivers that were active, and those that become it.
Upgrades ==
    \A d \in Drivers : dstate'[d] = "active" =>
        current'[d] = TRUE \/ (dstate[d] = "active" /\ current'[d] = current[d])

\* A step beside the startup.
LEMMA OldStayListed ==
    ASSUME OldListed, Upgrades, pc'[Startup] = pc[Startup], UNCHANGED todo
    PROVE  OldListed'
BY DEF OldListed, Upgrades, Active

\* Of the answers, only that to "activate" makes a driver active.
LEMMA AnswersUpgrade ==
    ASSUME RecordType, NEW d, NEW e, Answered(d, e)
    PROVE  Upgrades
<1>1. CASE UNCHANGED record
  BY <1>1 DEF Upgrades, record
<1>2. CASE Awaited(d, e) /\ ~UNCHANGED record
  <2>1. /\ dstate' = [dstate EXCEPT ![d] = Settled[e]]
        /\ current' = [current EXCEPT ![d] = @ \/ e = "activate"]
    BY <1>2 DEF Answered
  <2>2. Settled[e] = "active" => e = "activate"
    BY <1>2 DEF Awaited, InTransition, EventOf, Settled
  <2>3. ASSUME NEW g \in Drivers, dstate'[g] = "active"
        PROVE  current'[g] = TRUE \/ (dstate[g] = "active" /\ current'[g] = current[g])
    <3>1. CASE g = d
      <4>1. e = "activate"
        BY <2>1, <2>2, <2>3, <3>1 DEF RecordType
      <4> QED
        BY <2>1, <3>1, <4>1 DEF RecordType
    <3>2. CASE g # d
      BY <2>1, <2>3, <3>2 DEF RecordType
    <3> QED
      BY <3>1, <3>2
  <2> QED
    BY <2>3 DEF Upgrades
<1> QED
  BY <1>1, <1>2 DEF Answered

\* A handler.
LEMMA HandlerUpgrades ==
    ASSUME DataType, LockInv, WorkInv, OldListed, NEW w \in Workers, Handle(w)
    PROVE  OldListed'
<1>1. w \in Callers /\ drv[w] # NoDriver /\ w # Startup /\ Startup \in Callers
  BY DriverAssumption DEF Handle, Callers
<1>2. UNCHANGED todo /\ pc'[Startup] = pc[Startup]
  BY <1>1, HandleMoves DEF Outside, Enters, Inside, Leaves, Moves, LockInv
<1>3. UNCHANGED record \/ PublishReply(w) \/ ErrorReply(w)
  <2>1. CASE Stage(w) \/ Install(w) \/ Remove(w) \/ ClearError(w)
    BY <1>1, <2>1, StageFiles, InstallFiles, RemoveFiles DEF DataType, Filing
  <2>2. CASE GenerateAndUploadSchema(w) \/ GetVersion(w) \/ RemoveSchemas(w) \/ UploadMachineSchemas(w)
    BY <1>1, <2>2, GeneratesType, UploadsType DEF DataType, Describing
  <2>3. CASE GetDriver(w) \/ NameCheck(w) \/ GetToRemove(w)
    BY <2>3 DEF GetDriver, NameCheck, GetToRemove, others
  <2> QED
    BY <2>1, <2>2, <2>3 DEF Handle
<1>4. UNCHANGED record => Upgrades
  BY DEF record, Upgrades
<1>5. PublishReply(w) => Upgrades
  BY <1>4, AnswersUpgrade DEF PublishReply, DataType
<1>6. ErrorReply(w) => Upgrades
  BY <1>4 DEF ErrorReply, Refused, Upgrades, DataType, RecordType
<1> QED
  BY <1>2, <1>3, <1>4, <1>5, <1>6, OldStayListed

\* The startup lists the drivers of other versions, and goes on when it has
\* reactivated them.
LEMMA ListsUpgrade ==
    ASSUME DataType, LockInv, OldListed, Lists
    PROVE  OldListed'
<1> USE DEF SGoto, Step, Goto
<1>1. Startup \in Callers /\ UNCHANGED current
  BY DEF Callers, Lists, Ready, ListOld, ReactivateOld, ListBuiltin, Sync, ListAll, NextDriver, Redo,
     unmoved
<1>2. ASSUME NEW d \in Drivers, dstate'[d] = "active" PROVE dstate[d] = "active"
  <2>1. CASE Sync
    BY <1>2, <2>1, SyncAsks DEF DataType
  <2> QED
    BY <1>2, <2>1 DEF Lists, Ready, ListOld, ReactivateOld, ListBuiltin, ListAll, NextDriver, Redo,
       Reactivate, DataType, RecordType
<1>3. CASE Ready
  BY <1>1, <1>3 DEF Ready, LockInv, OldListed, Unlisted
<1>4. CASE ListOld
  BY <1>1, <1>4 DEF ListOld, LockInv, OldListed, Active, DataType, RecordType
<1>5. CASE ReactivateOld
  <2>1. ASSUME NEW d \in todo, Reactivate(d), todo' = todo \ {d}, UNCHANGED pc
        PROVE  OldListed'
    <3>1. dstate'[d] # "active" \/ d \notin Drivers
      BY <2>1 DEF Reactivate, DataType, RecordType
    <3> QED
      BY <1>1, <1>2, <2>1, <3>1 DEF OldListed, Active
  <2>2. CASE todo = {} /\ SGoto("reactivateOld", "listBuiltin")
    BY <1>1, <1>2, <2>2 DEF OldListed, Active, Unlisted
  <2> QED
    BY <1>5, <2>1, <2>2 DEF ReactivateOld
<1>6. CASE ListBuiltin \/ Sync \/ ListAll \/ NextDriver \/ Redo
  <2>1. pc[Startup] \notin Unlisted /\ pc[Startup] # "reactivateOld"
    BY <1>6 DEF ListBuiltin, Sync, ListAll, NextDriver, Redo, Unlisted
  <2> QED
    BY <1>1, <1>2, <2>1 DEF OldListed, Active
<1> QED
  BY <1>3, <1>4, <1>5, <1>6 DEF Lists

\* Every step.
LEMMA UpgradeStep ==
    ASSUME DataType, LockInv, WorkInv, OldListed, [Next]_vars
    PROVE  OldListed'
<1>0. Startup \in Callers /\ \A w \in Workers : w # Startup /\ w \in Callers
  BY DriverAssumption DEF Callers
<1>1. CASE \E d \in Drivers : CattleSends(d)
  BY <1>1 DEF CattleSends, record, OldListed, Active
<1>2. ASSUME NEW d \in Drivers, User(d)
      PROVE  OldListed'
  <2>1. /\ UNCHANGED <<pc, current, todo>>
        /\ \E s \in {"activating", "deactivating", "removing", "reactivating"} :
               dstate' = [dstate EXCEPT ![d] = s]
    BY <1>2 DEF User, UserAsks
  <2> QED
    BY <2>1 DEF OldListed, Active, DataType, RecordType
<1>3. CASE \E w \in Workers, d \in Drivers : HandleWork(w, d)
  <2>1. UNCHANGED <<record, todo>> /\ pc'[Startup] = pc[Startup]
    BY <1>0, <1>3 DEF HandleWork, Step, Goto
  <2> QED
    BY <2>1 DEF record, OldListed, Active
<1>4. CASE \E w \in Workers : Handle(w)
  BY <1>4, HandlerUpgrades
<1>5. CASE \E r \in Routers : Connect(r)
  BY <1>5 DEF Connect, record, OldListed, Active
<1>6. CASE Lists
  BY <1>6, ListsUpgrade
<1>7. CASE Works
  <2>1. UNCHANGED record
    BY <1>0, <1>7, StageFiles, InstallFiles DEF Works, DataType, Filing
  <2>2. pc[Startup] \notin Unlisted /\ pc[Startup] # "reactivateOld"
    BY <1>7 DEF Works, Stage, Install, GetError, IsInstalled, Download, CopyStaged, NameCache,
       StageFails, Open, Copy, Rename, Step, Unlisted
  <2> QED
    BY <2>1, <2>2 DEF record, OldListed, Active
<1>8. CASE Dies \/ Crash
  <2>1. ProcessStarts
    BY <1>8 DEF Dies, TooLate, Fatal, Crash, Restart, Replace
  <2>2. pc'[Startup] \in Unlisted
    BY <1>0, <2>1 DEF ProcessStarts, Unlisted
  <2> QED
    BY <2>2 DEF OldListed
<1>9. CASE UNCHANGED vars
  BY <1>9 DEF vars, record, OldListed, Active
<1> QED
  BY <1>1, <1>2, <1>3, <1>4, <1>5, <1>6, <1>7, <1>8, <1>9 DEF Next, StartupStep, Lists, Works, Dies

\* UpgradedWhenReady, for any drivers, workers and bounds, whatever fails and
\* crashes, and however often the service is replaced by one of another version.
THEOREM UpgradedTheorem == Spec => []UpgradedWhenReady
<1>1. Init => DataType /\ LockInv /\ WorkInv /\ OldListed
  <2>1. Init => OldListed
    BY DEF Init, OldListed, Unlisted, Callers
  <2> QED
    BY <2>1, TypedAtStart, LockAtStart
<1>2. DataType /\ LockInv /\ WorkInv /\ OldListed /\ [Next]_vars =>
          (DataType /\ LockInv /\ WorkInv /\ OldListed)'
  BY TypeStep, LockStep, UpgradeStep
<1>3. OldListed => UpgradedWhenReady
  BY DEF OldListed, UpgradedWhenReady, StartupOver, Unlisted
<1> QED
  BY <1>1, <1>2, <1>3, PTL DEF Spec

-----------------------------------------------------------------------------
(***************************************************************************)
(* Uploads that fail.  Whatever another upload has left undone, or this    *)
(* one could not remove, whoever comes to the k-th upload has its list     *)
(* offered in the roles before it: nobody else removes a schema meanwhile. *)
(***************************************************************************)
Presented(c, k) == \A i \in 1..4 : i < k => Offered(c, Uploads[i]) \in host[Uploads[i]]
PresentInv == \A c \in Callers, k \in 1..4 : pc[c] = Uploads[k] => Presented(c, k)

\* A step that leads to no upload, and touches no schema.
LEMMA AsidePresents ==
    ASSUME PresentInv, LockInv, UNCHANGED <<host, listed>>, NEW c \in Callers,
           NEW b \in Free \cup Generating \cup {"list"}, pc' = [pc EXCEPT ![c] = b]
    PROVE  PresentInv'
<1>1. b \notin Writing /\ \A k \in 1..4 : Uploads[k] \in Writing
  BY UploadsAre DEF Free, Generating, Writing
<1>2. SUFFICES ASSUME NEW d \in Callers, NEW k \in 1..4, pc'[d] = Uploads[k]
               PROVE  Presented(d, k)'
  BY DEF PresentInv
<1>3. pc[d] = Uploads[k]
  BY <1>1, <1>2 DEF LockInv
<1>4. Presented(d, k)
  BY <1>3 DEF PresentInv
<1> QED
  BY <1>4 DEF Presented, Offered

\* A step of the holder of the lock concerns nobody else's upload.
LEMMA HolderPresents ==
    ASSUME LockInv, NEW w \in Callers, pc[w] \in Locked, NEW b, pc' = [pc EXCEPT ![w] = b],
           \A k \in 1..4 : b = Uploads[k] => Presented(w, k)'
    PROVE  PresentInv'
<1>1. \A d \in Callers : d # w => pc'[d] = pc[d] /\ pc[d] \notin Writing
  BY DEF LockInv, Locked
<1>2. pc'[w] = b /\ \A k \in 1..4 : Uploads[k] \in Writing
  BY UploadsAre DEF LockInv, Writing
<1>3. ASSUME NEW d \in Callers, NEW k \in 1..4, pc'[d] = Uploads[k]
      PROVE  Presented(d, k)'
  <2>1. d = w
    BY <1>1, <1>2, <1>3
  <2> QED
    BY <1>2, <1>3, <2>1
<1> QED
  BY <1>3 DEF PresentInv

\* One schema is created beside those that are there.
LEMMA UploadPresents ==
    ASSUME PresentInv, LockInv, SchemaType, NEW w \in Callers, NEW i \in 1..4, UploadHost(w, i)
    PROVE  PresentInv' /\ (pc'[w] = "publish" => \A r \in Roles : Offered(w, r) \in host'[r])
<1>1. pc[w] = Uploads[i] /\ Uploads[i] \in Roles /\ Uploads[i] \in Locked /\ pc[w] \in Locked
  BY UploadsAre DEF UploadHost, SchemaFails, Step, Locked, Writing
<1>2. Presented(w, i)
  BY <1>1 DEF PresentInv
<1>3. ASSUME pc' = [pc EXCEPT ![w] = AfterUpload(i)], Offer(w, i)
      PROVE  \A j \in 1..4 : j < i + 1 => Offered(w, Uploads[j]) \in host'[Uploads[j]]
  <2>1. host' = [host EXCEPT ![Uploads[i]] = @ \cup {Offered(w, Uploads[i])}]
    BY <1>3 DEF Offer, Offered
  <2>2. \A r \in Roles : host[r] \subseteq host'[r]
    BY <1>1, <2>1 DEF SchemaType
  <2>3. Offered(w, Uploads[i]) \in host'[Uploads[i]]
    BY <1>1, <2>1 DEF SchemaType
  <2>4. \A j \in 1..4 : Uploads[j] \in Roles /\ (j < i + 1 => j < i \/ j = i)
    BY UploadsAre DEF Writing
  <2> QED
    BY <1>2, <2>2, <2>3, <2>4 DEF Presented
<1>4. \/ pc' = [pc EXCEPT ![w] = "errorReply"]
      \/ pc' = [pc EXCEPT ![w] = AfterUpload(i)] /\ Offer(w, i)
  BY DEF UploadHost, SchemaFails, Step, Goto
<1>5. CASE pc' = [pc EXCEPT ![w] = "errorReply"]
  <2>1. \A k \in 1..4 : Uploads[k] # "errorReply"
    BY UploadsAre
  <2>2. pc'[w] = "errorReply"
    BY <1>5 DEF LockInv
  <2> QED
    BY <1>1, <1>5, <2>1, <2>2, HolderPresents
<1>6. CASE pc' = [pc EXCEPT ![w] = AfterUpload(i)] /\ Offer(w, i) /\ i = 4
  <2>1. AfterUpload(i) = "publish" /\ \A k \in 1..4 : Uploads[k] # "publish"
    BY <1>6, UploadsAre DEF AfterUpload
  <2>2. PresentInv'
    BY <1>1, <1>6, <2>1, HolderPresents
  <2>3. \A r \in Roles : \E j \in 1..4 : j < i + 1 /\ r = Uploads[j]
    BY <1>6, UploadsAre DEF Writing
  <2> QED
    BY <1>3, <1>6, <2>2, <2>3
<1>7. CASE pc' = [pc EXCEPT ![w] = AfterUpload(i)] /\ Offer(w, i) /\ i # 4
  <2>1. i + 1 \in 1..4 /\ AfterUpload(i) = Uploads[i + 1]
    BY <1>7, UploadsAre DEF AfterUpload
  <2>2. AfterUpload(i) # "publish" /\ AfterUpload(i) # "errorReply" /\ pc'[w] = AfterUpload(i)
    BY <1>7, <2>1, UploadsAre DEF LockInv
  <2>3. listed' = listed
    BY <2>2 DEF UploadHost
  <2>4. \A k \in 1..4 : AfterUpload(i) = Uploads[k] => k = i + 1
    <3>1. \A j, k \in 1..4 : Uploads[j] = Uploads[k] => j = k
      BY UploadsAre
    <3> QED
      BY <2>1, <3>1
  <2>5. Presented(w, i + 1)'
    BY <1>3, <1>7, <2>3 DEF Presented, Offered
  <2> QED
    BY <1>1, <1>7, <2>2, <2>4, <2>5, HolderPresents
<1> QED
  BY <1>4, <1>5, <1>6, <1>7

\* A step of a handler.
LEMMA HandlerPresents ==
    ASSUME PresentInv, LockInv, WorkInv, SchemaType, NEW w \in Workers, Handle(w)
    PROVE  /\ PresentInv'
           /\ pc[w] = "readonly" /\ pc'[w] = "publish" => \A r \in Roles : Offered(w, r) \in host'[r]
<1>1. w \in Callers /\ w # Startup /\ drv[w] # NoDriver /\ job[w] \in Events
  BY DriverAssumption DEF Handle, WorkInv, Callers
<1>2. \A i \in 1..Len(Uploads) : i \in 1..4
  BY UploadsAre
<1>3. CASE ListDrivers(w)
  <2>1. PICK b \in {"removeHost", "errorReply"} : pc' = [pc EXCEPT ![w] = b]
    BY <1>3 DEF ListDrivers, SchemaFails, Step, Goto
  <2>2. pc[w] = "list" /\ pc[w] \in Locked /\ \A k \in 1..4 : Uploads[k] # b
    BY <1>3, UploadsAre DEF ListDrivers, SchemaFails, Step, Locked
  <2> QED
    BY <1>1, <2>1, <2>2, HolderPresents
<1>4. CASE RemoveHost(w)
  <2>1. pc[w] = "removeHost" /\ pc[w] \in Locked /\ pc' = [pc EXCEPT ![w] = "service"]
    BY <1>4, UploadsAre DEF RemoveHost, Step, Goto, Locked
  <2>2. \A k \in 1..4 : Uploads[k] = "service" => Presented(w, k)'
    BY UploadsAre DEF Presented
  <2> QED
    BY <1>1, <2>1, <2>2, HolderPresents
<1>5. CASE \E i \in 1..Len(Uploads) : UploadHost(w, i)
  BY <1>1, <1>2, <1>5, UploadPresents
<1>6. CASE \/ Stage(w) \/ Install(w) \/ Remove(w) \/ ClearError(w) \/ Unlocked(w)
           \/ GenLock(w) \/ UploadLock(w)
           \/ GetCreateFlags(w) \/ RemoveConfig(w) \/ CreateConfig(w)
  <2>1. Frame /\ (Outside(w) \/ Enters(w) \/ Moves(w, Generating, Generating \cup Free))
    BY <1>1, <1>6, StageOutside, InstallOutside, RemoveOutside, UnlockedOutside, TakesLock,
       GeneratesInside
  <2>2. PICK b \in Free \cup Generating \cup {"list"} : pc' = [pc EXCEPT ![w] = b]
    BY <2>1 DEF Outside, Enters, Moves, Generating
  <2>3. pc[w] # "readonly"
    BY <2>1 DEF Outside, Enters, Moves, Free, Generating
  <2> QED
    BY <1>1, <2>1, <2>2, <2>3, AsidePresents DEF Frame
<1> QED
  BY <1>3, <1>4, <1>5, <1>6 DEF Handle, Unlocked, GenerateAndUploadSchema, UploadMachineSchemas

\* Every step; the last upload of a worker is its own.
LEMMA PresentStep ==
    ASSUME PresentInv, LockInv, WorkInv, SchemaType, [Next]_vars
    PROVE  /\ PresentInv'
           /\ \A w \in Workers : pc[w] = "readonly" /\ pc'[w] = "publish" =>
                  \A r \in Roles : Offered(w, r) \in host'[r]
<1>0. Startup \in Callers /\ Workers \subseteq Callers /\ Startup \notin Workers
  BY DriverAssumption DEF Callers
<1>1. CASE Around \/ UNCHANGED vars
  <2>1. UNCHANGED <<pc, host, listed>>
    BY <1>1, AroundKeeps DEF vars, local, schema
  <2> QED
    BY <2>1 DEF PresentInv, Presented, Offered
<1>2. ASSUME NEW c \in Callers, Outside(c), UNCHANGED <<host, listed>>
      PROVE  PresentInv' /\ \A w \in Workers : ~(pc[w] = "readonly" /\ pc'[w] = "publish")
  <2>1. PICK b \in Free : pc' = [pc EXCEPT ![c] = b]
    BY <1>2 DEF Outside, Moves
  <2>2. pc[c] # "readonly"
    BY <1>2 DEF Outside, Moves, Free
  <2> QED
    BY <1>0, <1>2, <2>1, <2>2, AsidePresents DEF LockInv
<1>3. CASE \E w \in Workers, d \in Drivers : HandleWork(w, d)
  BY <1>0, <1>2, <1>3, TakesWork
<1>4. CASE \E w \in Workers : Handle(w)
  <2>1. PICK w \in Workers : Handle(w)
    BY <1>4
  <2>2. \E b : pc' = [pc EXCEPT ![w] = b]
    BY <2>1, HandleMoves DEF Outside, Enters, Inside, Leaves, Moves
  <2>3. \A v \in Workers : v # w => pc'[v] = pc[v]
    BY <1>0, <2>2 DEF LockInv
  <2> QED
    BY <2>1, <2>3, HandlerPresents
<1>5. CASE Lists \/ Works
  BY <1>0, <1>2, <1>5, ListsOutside, StageOutside, InstallOutside DEF Works, Frame
<1>6. CASE Dies \/ Crash
  <2>1. ProcessStarts
    BY <1>6 DEF Dies, TooLate, Fatal, Crash, Restart, Replace
  <2>2. \A c \in Callers : pc'[c] \in {"ready1", "idle"}
    BY <2>1 DEF ProcessStarts
  <2>3. \A k \in 1..4 : Uploads[k] \notin {"ready1", "idle"}
    BY UploadsAre
  <2> QED
    BY <1>0, <2>2, <2>3 DEF PresentInv
<1> QED
  BY <1>1, <1>3, <1>4, <1>5, <1>6 DEF Next, StartupStep, Around, Lists, Works, Dies

\* UploadOffers, of the service as it starts and once it is ready, for any
\* drivers, workers and requests, whatever fails, crashes or is replaced: a
\* handler whose upload ended without an error has what it listed offered in
\* every role, whatever uploads before it have left.
THEOREM UploadTheorem ==
    /\ Spec => UploadOffers
    /\ ReadySpec => UploadOffers
<1> DEFINE Inv == LockInv /\ WorkInv /\ DataType /\ PresentInv
           Shown == \A w \in Workers : pc[w] = "readonly" /\ pc'[w] = "publish" =>
                        \A r \in Roles : (IF r = "readonly" THEN {} ELSE listed[w]) \in host'[r]
<1>1. Init \/ InitReady => Inv
  <2>1. SUFFICES ASSUME Init \/ InitReady
                 PROVE  PresentInv
    BY LockAtStart, TypedAtStart
  <2>2. \A c \in Callers : pc[c] \in {"ready1", "done", "idle"}
    BY <2>1 DEF Init, InitReady
  <2>3. \A k \in 1..4 : Uploads[k] \notin {"ready1", "done", "idle"}
    BY UploadsAre
  <2> QED
    BY <2>2, <2>3 DEF PresentInv
<1>2. Inv /\ [Next]_vars => Inv'
  BY LockStep, TypeStep, PresentStep DEF DataType
<1>3. Inv /\ [Next]_vars => [Shown]_vars
  BY PresentStep DEF DataType, Offered
<1> HIDE DEF Inv, Shown
<1>4. Spec => [][Shown]_vars
  BY <1>1, <1>2, <1>3, PTL DEF Spec
<1>5. ReadySpec => [][Shown]_vars
  BY <1>1, <1>2, <1>3, PTL DEF ReadySpec
<1> QED
  BY <1>4, <1>5 DEF Shown, UploadOffers

=============================================================================
