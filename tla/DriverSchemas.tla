---------------------------- MODULE DriverSchemas ----------------------------
(***************************************************************************)
(* The dynamic schemas: GenerateAndUploadSchema, which describes one       *)
(* driver, UploadMachineSchemas, which says what drivers a host may use,   *)
(* and RemoveSchemas.  The first two hold schemaLock; Cattle's schemas are *)
(* removed and created one call at a time.                                 *)
(*                                                                         *)
(* A "host" schema is the set of names whose <name>Config it offers, the   *)
(* <name>Config schema of a driver is there or not.                        *)
(***************************************************************************)
EXTENDS DriverState

\* Everything but the schemas, their lock and what an upload has listed.
rest == <<record, pending, requests, disk, connected, job, drv, src, todo>>

TakeLock(c) == schemaLock = NoOne /\ schemaLock' = c
Unlock      == schemaLock' = NoOne

\* Mutant of SchemaFails: the lock is kept.
SchemaFailsLocked(c, a) == Step(c, a, "errorReply") /\ UNCHANGED schemaLock /\ Fail

\* An error returns, and the deferred Unlock is run.
SchemaFails(c, a) == Step(c, a, "errorReply") /\ Unlock /\ Fail

-----------------------------------------------------------------------------
\* GenerateAndUploadSchema.
GenLock(c) ==
    /\ Step(c, "genLock", "flags") /\ TakeLock(c)
    /\ UNCHANGED <<rest, schema, listed, failures>>

\* getCreateFlagsForDriver starts the plugin, which must be complete, and asks
\* it for its flags.
GetCreateFlags(c) ==
    /\ \/ Step(c, "flags", "removeConfig") /\ Runs(drv[c]) /\ UNCHANGED schemaLock /\ NoFail
       \/ Step(c, "flags", "errorReply") /\ ~Runs(drv[c]) /\ Unlock /\ NoFail
       \/ SchemaFails(c, "flags")
    /\ UNCHANGED <<rest, schema, listed>>

\* uploadDynamicSchema ignores the error of RemoveSchemas ...
RemoveConfig(c) ==
    /\ Step(c, "removeConfig", "createConfig")
    /\ \/ config' = config \ {Name(c)} /\ NoFail
       \/ UNCHANGED config /\ Fail
    /\ UNCHANGED <<rest, host, schemaLock, listed>>

\* Mutant of CreateConfig: nothing is created in place of what was removed.
CreateNoConfig(c) ==
    /\ Step(c, "createConfig", "version") /\ Unlock
    /\ UNCHANGED <<rest, schema, listed, failures>>

\* ... and not those of Create and of the wait that follows it.
CreateConfig(c) ==
    /\ \/ /\ Step(c, "createConfig", "version") /\ Unlock /\ NoFail
          /\ config' = config \cup {Name(c)}
       \/ SchemaFails(c, "createConfig") /\ config' \in {config, config \cup {Name(c)}}
    /\ UNCHANGED <<rest, host, listed>>

GenerateAndUploadSchema(c) ==
    GenLock(c) \/ GetCreateFlags(c) \/ RemoveConfig(c) \/ CreateConfig(c)

\* DriverSchemaVersion.
GetVersion(c) ==
    /\ \/ Step(c, "version", "uploadLock") /\ NoFail
       \/ Step(c, "version", "errorReply") /\ Fail
    /\ UNCHANGED <<rest, schema, schemaLock, listed>>

-----------------------------------------------------------------------------
\* removeDriver calls RemoveSchemas without the lock, with the name in the
\* record; it goes on to remove the files, or not.
Described(c) == IF named[drv[c]] THEN {Name(c)} ELSE {}

RemoveSchemas(c) ==
    /\ \/ /\ Step(c, "rmSchemas", IF drv[c] \in Unhashed \/ job[c] = "remove"
                                  THEN "getToRemove" ELSE "uploadLock")
          /\ config' = config \ Described(c) /\ NoFail
       \/ /\ Step(c, "rmSchemas", "errorReply")
          /\ config' \in {config, config \ Described(c)} /\ Fail
    /\ UNCHANGED <<rest, host, schemaLock, listed>>

-----------------------------------------------------------------------------
\* Mutant of UploadLock: nobody is kept out.
UploadUnlocked(c) ==
    /\ Step(c, "uploadLock", "list")
    /\ UNCHANGED <<rest, schema, schemaLock, listed, failures>>

\* UploadMachineSchemas.
UploadLock(c) ==
    /\ Step(c, "uploadLock", "list") /\ TakeLock(c)
    /\ UNCHANGED <<rest, schema, listed, failures>>

\* What the handler passes: the driver that it activates, whose record may
\* have no name yet.
Own(c) == IF job[c] = "activate" THEN {Name(c)} ELSE {}

\* Mutant of ListDrivers: only drivers whose activation is over.
ListActive(c) ==
    /\ Step(c, "list", "removeHost")
    /\ listed' = [listed EXCEPT ![c] =
           Own(c) \cup NamesIn({d \in Drivers : named[d] /\ dstate[d] = "active"})]
    /\ UNCHANGED <<rest, schema, schemaLock, failures>>

\* Mutant of ListDrivers: drivers without a name as well.
ListUnnamed(c) ==
    /\ Step(c, "list", "removeHost")
    /\ listed' = [listed EXCEPT ![c] = Own(c) \cup
           {IF named[d] THEN NameOf[d] ELSE "" :
                d \in {e \in Drivers : dstate[e] \in {"active", "activating"}}}]
    /\ UNCHANGED <<rest, schema, schemaLock, failures>>

ListDrivers(c) ==
    /\ \/ /\ Step(c, "list", "removeHost") /\ UNCHANGED schemaLock /\ NoFail
          /\ listed' = [listed EXCEPT ![c] = Own(c) \cup
                 NamesIn({d \in Drivers : named[d] /\ dstate[d] \in {"active", "activating"}})]
       \/ SchemaFails(c, "list") /\ UNCHANGED listed
    /\ UNCHANGED <<rest, schema>>

\* The first upload removes every "host" schema; when that fails some are left,
\* and stay beside those that are created now.
RemoveHost(c) ==
    /\ Step(c, "removeHost", Uploads[1])
    /\ \/ host' = [r \in Roles |-> {}] /\ NoFail
       \/ /\ \E left \in SUBSET Roles :
                 host' = [r \in Roles |-> IF r \in left THEN host[r] ELSE {}]
          /\ Fail
    /\ UNCHANGED <<rest, config, schemaLock, listed>>

\* The next upload after the i-th; the last is followed by the reply.
AfterUpload(i) == IF i = Len(Uploads) THEN "publish" ELSE Uploads[i + 1]

Offer(c, i) ==
    LET r == Uploads[i] IN
    host' = [host EXCEPT ![r] = @ \cup {IF r = "readonly" THEN {} ELSE listed[c]}]

\* An upload that fails ends the others; its schema may be there all the same.
UploadHost(c, i) ==
    /\ \/ /\ Step(c, Uploads[i], AfterUpload(i)) /\ Offer(c, i) /\ NoFail
          /\ IF i = Len(Uploads) THEN Unlock ELSE UNCHANGED schemaLock
       \/ SchemaFails(c, Uploads[i]) /\ (Offer(c, i) \/ UNCHANGED host)
    /\ listed' = IF pc'[c] \in {"publish", "errorReply"} THEN [listed EXCEPT ![c] = {}] ELSE listed
    /\ UNCHANGED <<rest, config>>

UploadMachineSchemas(c) ==
    \/ UploadLock(c) \/ ListDrivers(c) \/ RemoveHost(c)
    \/ \E i \in 1..Len(Uploads) : UploadHost(c, i)

=============================================================================
