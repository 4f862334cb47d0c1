----------------------------- MODULE DriverState -----------------------------
(***************************************************************************)
(* What the machine driver half of go-machine-service reads and writes.    *)
(*                                                                         *)
(*   Cattle     the driver records, the events it sends about them, the    *)
(*              dynamic schemas (external, from the calls made to it)      *)
(*   the disk   per driver, under its URL and checksum: the cache file,    *)
(*              the binary staged beside it, the error file; per name: the *)
(*              installed binary and the "-tmp" file it is renamed from    *)
(*   callers    the goroutines of the machineDriver router, and the one    *)
(*              that main starts to bring the drivers up to date           *)
(*                                                                         *)
(* A file is absent ("none"), complete ("whole") or incomplete ("torn"),   *)
(* or it has been opened by a caller that is still writing it, and is then *)
(* that caller: writers that share a file write the same bytes, each from  *)
(* the start, so the last to open it decides when it is whole.             *)
(***************************************************************************)
EXTENDS Naturals, FiniteSets, Sequences

CONSTANTS
    Drivers,       \* driver records, each with a URL of its own
    Builtin,       \* those whose record says that they are built in
    Core,          \* those that this version of docker-machine has built in
    Unhashed,      \* those without a checksum
    NameOf,        \* the name in a driver's URL
    Workers,       \* goroutines of the machineDriver router
    Startup,       \* the goroutine that main starts
    NoOne,         \* no caller
    NoDriver,      \* no driver
    Faults,        \* what may happen: see Kinds
    MaxFailures,   \* failures in a behaviour (bounds the model)
    MaxRequests    \* requests of users (bounds the model)

Kinds == {"crash",       \* the process dies, and is started again
          "replace",     \* ... in a new container, of the same version or of another:
                         \* the disk is empty
          "repeat",      \* Cattle sends an event again that is being handled
          "reactivate",  \* users reactivate, or update, active drivers
          "unnamed"}     \* a driver's record gets its name when it is activated

Callers == Workers \cup {Startup}
Names   == {NameOf[d] : d \in Drivers}

ASSUME DriverAssumption ==
    /\ Core \subseteq Builtin /\ Builtin \subseteq Drivers /\ Unhashed \subseteq Drivers
    /\ NoDriver \notin Drivers
    /\ Startup \notin Workers /\ NoOne \notin Callers
    /\ Callers \cap {"none", "whole", "torn"} = {}
    /\ Faults \subseteq Kinds
    /\ MaxFailures \in Nat /\ MaxRequests \in Nat

VARIABLES
    \* Cattle
    dstate,       \* the state of each driver
    named,        \* its record has a name
    default,      \* its record says that it is to be activated by default
    current,      \* it was activated by this version of the service
    pending,      \* events that Cattle has sent about it, in order
    requests,     \* requests that users have made
    config,       \* names for which there is a <name>Config schema
    host,         \* per role, the "host" schemas: the names each one offers
    \* the disk
    cache,        \* the cache file of a driver, which names its binary
    staged,       \* that binary, beside the cache file
    errFile,      \* the error of a former Stage
    tmp, bin,     \* per name: the "-tmp" file and the installed binary
    \* the process
    connected,    \* routers that have subscribed to their events
    schemaLock,   \* the caller that holds it
    pc,           \* what each caller does next
    job, drv,     \* the event it handles, the driver it works on
    src,          \* whether what Install reads is whole
    listed,       \* the names UploadMachineSchemas found
    todo,         \* drivers that the startup has listed and not dealt with
    failures

record == <<dstate, named, default, current>>
schema == <<config, host>>
store  == <<cache, staged>>
binary == <<tmp, bin>>
disk   == <<store, errFile, binary>>
local  == <<job, drv, src, listed>>
vars   == <<record, pending, requests, schema, disk, connected, schemaLock, pc, local,
            todo, failures>>

Routers == {"machineDriver", "host", "agent"}

\* The four uploads of UploadMachineSchemas, in order.
Uploads == <<"service", "project", "user", "readonly">>
Roles   == {Uploads[i] : i \in 1..Len(Uploads)}

\* The states in which Cattle waits for an event to be answered, that event,
\* and the state that the answer leads to.
EventOf == [activating   |-> "activate", reactivating |-> "activate",
            deactivating |-> "deactivate", removing |-> "remove", erroring |-> "error"]
Settled == [activate |-> "active", deactivate |-> "inactive", remove |-> "removed",
            error |-> "error"]
InTransition == DOMAIN EventOf
Events       == DOMAIN Settled
DriverStates == InTransition \cup {Settled[e] : e \in Events} \cup {"absent"}

Steps == {"idle", "getDriver", "getError", "isInstalled", "download", "copyStaged",
          "nameCache", "nameCheck", "open", "copy", "rename", "genLock", "flags",
          "removeConfig", "createConfig", "version", "rmSchemas", "getToRemove", "rmBin", "rmStaged",
          "rmCache", "clearError", "uploadLock", "list", "removeHost", "publish",
          "errorReply", "ready1", "ready2", "listOld", "reactivateOld", "listBuiltin",
          "sync", "listAll", "nextDriver", "redo", "done"} \cup Roles

Files == {"none", "whole", "torn"} \cup Callers

TypeOK ==
    /\ dstate \in [Drivers -> DriverStates]
    /\ named \in [Drivers -> BOOLEAN] /\ default \in [Drivers -> BOOLEAN]
    /\ current \in [Drivers -> BOOLEAN]
    /\ pending \in [Drivers -> Seq(Events)]
    /\ requests \in 0..MaxRequests /\ failures \in 0..MaxFailures
    /\ config \subseteq Names
    /\ host \in [Roles -> SUBSET SUBSET Names]
    /\ cache \in [Drivers -> BOOLEAN] /\ errFile \in [Drivers -> BOOLEAN]
    /\ staged \in [Drivers -> Files]
    /\ tmp \in [Names -> Files] /\ bin \in [Names -> Files]
    /\ connected \subseteq Routers
    /\ schemaLock \in Callers \cup {NoOne}
    /\ pc \in [Callers -> Steps]
    /\ job \in [Callers -> Events \cup {"none"}]
    /\ drv \in [Callers -> Drivers \cup {NoDriver}]
    /\ src \in [Callers -> {"whole", "torn"}]
    /\ listed \in [Callers -> SUBSET Names]
    /\ todo \subseteq Drivers

-----------------------------------------------------------------------------
\* The next step of c is b, if it is at a.
Goto(c, b)    == pc' = [pc EXCEPT ![c] = b]
Step(c, a, b) == pc[c] = a /\ Goto(c, b)

NoFail == UNCHANGED failures
Fail   == failures < MaxFailures /\ failures' = failures + 1

\* An error in a handler becomes an error reply; one in the startup makes it
\* ask for a reactivation.
Erred(c) == IF c = Startup THEN "redo" ELSE "errorReply"

\* Where a driver's files are.
Name(c) == NameOf[drv[c]]

\* A file that c was writing and has finished, or given up, with result f.
Closed(files, c, f) == [x \in DOMAIN files |-> IF files[x] = c THEN f ELSE files[x]]

Active    == {d \in Drivers : dstate[d] = "active"}
NamesIn(S) == {NameOf[d] : d \in S}

\* A driver whose plugin can be run.
Runs(d) == d \in Core \/ bin[NameOf[d]] = "whole"

-----------------------------------------------------------------------------
\* The drivers of A are active, those of I inactive, and Cattle has no record
\* of others.  Active drivers have their schemas.
Before(A, I) ==
    /\ \A d, e \in A : NameOf[d] = NameOf[e] => d = e
    /\ dstate = [d \in Drivers |-> IF d \in A THEN "active"
                                   ELSE IF d \in I THEN "inactive" ELSE "absent"]
    /\ named \in [Drivers -> BOOLEAN]
    /\ \A d \in Drivers : ~named[d] => "unnamed" \in Faults /\ d \in I \ Builtin
    /\ pending = [d \in Drivers |-> <<>>] /\ requests = 0 /\ failures = 0
    /\ config = NamesIn(A)
    /\ host = [r \in Roles |-> {IF r = "readonly" THEN {} ELSE NamesIn(A)}]
    /\ errFile = [d \in Drivers |-> FALSE]
    /\ tmp = [n \in Names |-> "none"]
    /\ schemaLock = NoOne
    /\ job = [c \in Callers |-> "none"] /\ drv = [c \in Callers |-> NoDriver]
    /\ src = [c \in Callers |-> "torn"] /\ listed = [c \in Callers |-> {}]
    /\ todo = {}

\* On the disk are the files of the drivers of A.
HasFiles(A) ==
    /\ cache = [d \in Drivers |-> d \in A]
    /\ staged = [d \in Drivers |-> IF d \in A THEN "whole" ELSE "none"]
    /\ bin = [n \in Names |-> IF n \in NamesIn(A) THEN "whole" ELSE "none"]

\* The service starts, in its container or in a new one.  Built-in drivers
\* that are new have no record, and some that are inactive are to be activated.
Init ==
    /\ \E A, I \in SUBSET Drivers :
           /\ A \cap I = {} /\ Drivers \ Core \subseteq A \cup I
           /\ Before(A, I)
           /\ \E D \in SUBSET I : default = [d \in Drivers |-> d \in D]
           /\ \/ /\ A \cap Builtin \subseteq Core
                 /\ current = [d \in Drivers |-> d \in A]
              \/ "replace" \in Faults /\ current = [d \in Drivers |-> FALSE]
           /\ HasFiles(A \ Builtin) \/ ("replace" \in Faults /\ HasFiles({}))
    /\ connected = {}
    /\ pc = [c \in Callers |-> IF c = Startup THEN "ready1" ELSE "idle"]

\* The startup is over.
InitReady ==
    /\ \E A \in SUBSET (Drivers \ (Builtin \ Core)) :
           /\ Before(A, Drivers \ (A \cup (Builtin \ Core)))
           /\ HasFiles(A \ Builtin) /\ current = [d \in Drivers |-> d \in A]
    /\ default = [d \in Drivers |-> FALSE]
    /\ connected = Routers
    /\ pc = [c \in Callers |-> IF c = Startup THEN "done" ELSE "idle"]

=============================================================================
