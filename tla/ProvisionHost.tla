---------------------------- MODULE ProvisionHost ----------------------------
(***************************************************************************)
(* The host.provision handler, CreateMachineAndActivateMachine, one action *)
(* per call with an effect outside the goroutine: read the host, restore   *)
(* its directory or run "docker-machine create" and save the directory,    *)
(* then bootstrap the agent, reply, and remove the directory.              *)
(***************************************************************************)
EXTENDS EventRouter

\* getHostAndHostDir at the head of both handlers.
LoadHost(w, here, next) ==
    /\ pc[w] = here
    /\ \/ RecordMissing(w) /\ Goto(w, "panic") /\ NoFail /\ UNCHANGED cfg
       \/ /\ ~RecordMissing(w)
          /\ cfg' = [cfg EXCEPT ![w] = saved[at[w]]]
          /\ Goto(w, next)
          /\ NoFail
       \/ Goto(w, "errorReply") /\ Fail /\ UNCHANGED cfg
    /\ UNCHANGED <<cattle, cloud, disk, service, event, at, made>>

\* restoreMachineDir: the saved directory is extracted over what is there.
\* Nothing reads the stamp of a restored directory.
Extract(w) ==
    /\ store' = [store EXCEPT ![at[w]] = cfg[w]]
    /\ stamp' = [stamp EXCEPT ![at[w]] = TRUE]

\* An extraction that fails may or may not have got to the machine.
ExtractInPart(w) == Fail /\ ((cfg[w] # NoVM /\ Extract(w)) \/ UNCHANGED disk)

\* Mutant of RestoreHost: ExtractedConfig is not looked at.
RestoreNothing(w) ==
    /\ pc[w] = "restore"
    /\ Goto(w, "create")
    /\ UNCHANGED <<cattle, cloud, disk, service, event, at, cfg, made, failures>>

\* isHostAlreadyCreated: an empty ExtractedConfig means the host is new.
RestoreHost(w) ==
    /\ pc[w] = "restore"
    /\ \/ cfg[w] = NoVM /\ Goto(w, "create") /\ NoFail /\ UNCHANGED disk
       \/ cfg[w] # NoVM /\ Extract(w) /\ Goto(w, "register") /\ NoFail
       \/ cfg[w] # NoVM /\ ExtractInPart(w) /\ Goto(w, "returnErr")
    /\ UNCHANGED <<cattle, cloud, service, event, at, cfg, made>>

-----------------------------------------------------------------------------
\* createMachine, before its deferred cleanup: read the host again, apply the
\* template, and take a stamp left on disk for "already created".
CreateMachine(w) ==
    /\ pc[w] = "create"
    /\ \/ RecordMissing(w) /\ Goto(w, "panic") /\ NoFail /\ UNCHANGED state
       \/ Goto(w, "returnErr") /\ Fail /\ UNCHANGED state
       \/ /\ ~RecordMissing(w) /\ ~stamp[at[w]]
          /\ Goto(w, "launch") /\ NoFail /\ UNCHANGED state
       \/ /\ ~RecordMissing(w) /\ stamp[at[w]]
          /\ PublishReply(w, "register", "returnErr")
    /\ UNCHANGED <<saved, agentId, stream, cloud, disk, service,
                   event, at, cfg, made>>

\* Look up the template, run the provider's HandleCreate, build and start the
\* command.
LaunchCreate(w) ==
    /\ pc[w] = "launch"
    /\ \/ Goto(w, "dmCreate") /\ NoFail
       \/ Goto(w, "cleanup") /\ Fail
    /\ UNCHANGED <<cattle, cloud, disk, service, event, at, cfg, made>>

\* Mutant of DockerMachineRegisters: one store is shared by all hosts.
RegisterInSharedStore(w) ==
    /\ pc[w] = "dmCreate" /\ made[w] = NoVM /\ Machine(w) = NoVM
    /\ \E v \in VMs :
          /\ owner[v] = NoHost
          /\ owner' = [owner EXCEPT ![v] = at[w]]
          /\ store' = [h \in Hosts |-> v]
          /\ made' = [made EXCEPT ![w] = v]
    /\ UNCHANGED <<cattle, live, boot, agentUp, stamp, service,
                   pc, event, at, cfg, failures>>

\* "docker-machine create" first writes the machine to the store, and refuses
\* a name that is already there ...
DockerMachineRegisters(w) ==
    /\ pc[w] = "dmCreate" /\ made[w] = NoVM /\ Machine(w) = NoVM
    /\ \E v \in VMs :
          /\ owner[v] = NoHost
          /\ owner' = [owner EXCEPT ![v] = at[w]]
          /\ store' = [store EXCEPT ![at[w]] = v]
          /\ made' = [made EXCEPT ![w] = v]
    /\ UNCHANGED <<cattle, live, boot, agentUp, stamp, service,
                   pc, event, at, cfg, failures>>

\* ... and then has the cloud build it.
DockerMachineBuilds(w) ==
    /\ pc[w] = "dmCreate" /\ made[w] # NoVM /\ made[w] \notin live
    /\ live' = live \cup {made[w]}
    /\ UNCHANGED <<cattle, owner, boot, agentUp, disk, service, worker, failures>>

\* Mutant of CommandWait: a failed wait skips the deferred cleanup.
CommandWaitNoCleanup(w) ==
    /\ pc[w] = "dmCreate"
    /\ \/ made[w] \in live /\ Goto(w, "archive")
       \/ Goto(w, "returnErr")
    /\ UNCHANGED <<cattle, cloud, disk, service, event, at, cfg, made, failures>>

\* command.Wait: success touches the stamp and ignores a failure to; an error
\* leaves through the deferred cleanup.
CommandWait(w) ==
    /\ pc[w] = "dmCreate"
    /\ \/ /\ made[w] \in live
          /\ Goto(w, "archive")
          /\ \/ stamp' = [stamp EXCEPT ![at[w]] = TRUE] /\ NoFail
             \/ UNCHANGED stamp /\ Fail
       \/ Goto(w, "cleanup") /\ NoFail /\ UNCHANGED stamp
    /\ UNCHANGED <<cattle, cloud, store, service, event, at, cfg, made>>

\* "docker-machine rm -f": the machine, its containers and what is listed of
\* it are gone.
RemoveMachine(h) ==
    /\ live' = live \ {store[h]}
    /\ boot' = [v \in VMs |-> IF v = store[h] THEN "none" ELSE boot[v]]
    /\ agentUp' = agentUp \ {store[h]}
    /\ store' = [store EXCEPT ![h] = NoVM]
    /\ stamp' = [stamp EXCEPT ![h] = FALSE]

\* cleanupResources: remove the machine if the store lists it.  Its error is
\* dropped by the deferred call.
CleanupResources(w) ==
    /\ pc[w] = "cleanup"
    /\ Goto(w, "returnErr")
    /\ \/ Machine(w) = NoVM /\ NoFail /\ UNCHANGED <<live, boot, agentUp, disk>>
       \/ Machine(w) # NoVM /\ RemoveMachine(at[w]) /\ NoFail
       \/ "cleanup" \in Faults /\ Fail /\ UNCHANGED <<live, boot, agentUp, disk>>
    /\ UNCHANGED <<cattle, owner, service, event, at, cfg, made>>

\* createExtractedConfig and encodeFile.  machineCreated is already true, so
\* an error skips the cleanup.
ArchiveConfig(w) ==
    /\ pc[w] = "archive"
    /\ \/ Goto(w, "save") /\ NoFail
       \/ "archive" \in Faults /\ Fail /\ Goto(w, "returnErr")
    /\ UNCHANGED <<cattle, cloud, disk, service, event, at, cfg, made>>

\* Host.Update of ExtractedConfig, up to 100 attempts (404 to all of them once
\* the record is gone); the handler goes on whether or not one succeeded.
SaveConfig(w) ==
    /\ pc[w] = "save"
    /\ Goto(w, "register")
    /\ \/ ~RecordMissing(w) /\ saved' = [saved EXCEPT ![at[w]] = Machine(w)] /\ NoFail
       \/ RecordMissing(w) /\ UNCHANGED saved /\ NoFail
       \/ "save" \in Faults /\ UNCHANGED saved /\ Fail
    /\ UNCHANGED <<state, agentId, stream, cloud, disk, service,
                   event, at, cfg, made>>

-----------------------------------------------------------------------------
\* registerRancherAgent up to the image pull: read the host again and the
\* token, then reach docker on the machine through its store.
ReachDocker(w) ==
    /\ pc[w] = "register"
    /\ \/ RecordMissing(w) /\ Goto(w, "panic") /\ NoFail
       \/ ~RecordMissing(w) /\ Machine(w) \in live /\ Goto(w, "container") /\ NoFail
       \/ Machine(w) \notin live /\ Goto(w, "returnErr") /\ NoFail
       \/ Goto(w, "returnErr") /\ Fail
    /\ UNCHANGED <<cattle, cloud, disk, service, event, at, cfg, made>>

\* createContainer: the name is fixed, so a container that has it is a conflict.
CreateContainer(w) ==
    /\ pc[w] = "container"
    /\ \/ /\ boot[Machine(w)] = "none"
          /\ boot' = [boot EXCEPT ![Machine(w)] = "created"]
          /\ Goto(w, "start")
          /\ NoFail
       \/ boot[Machine(w)] # "none" /\ Goto(w, "returnErr") /\ NoFail /\ UNCHANGED boot
       \/ Goto(w, "returnErr") /\ Fail /\ UNCHANGED boot
    /\ UNCHANGED <<cattle, live, owner, agentUp, disk, service,
                   event, at, cfg, made>>

StartContainer(w) ==
    /\ pc[w] = "start"
    /\ \/ /\ boot' = [boot EXCEPT ![Machine(w)] = "running"]
          /\ Goto(w, "findAgent")
          /\ NoFail
       \/ Goto(w, "returnErr") /\ Fail /\ UNCHANGED boot
    /\ UNCHANGED <<cattle, live, owner, agentUp, disk, service,
                   event, at, cfg, made>>

\* 30 looks at the container list, 2 seconds apart.
FindAgent(w) ==
    /\ pc[w] = "findAgent"
    /\ \/ Machine(w) \in agentUp /\ Goto(w, "awaitAgent") /\ NoFail
       \/ Machine(w) \notin agentUp /\ Goto(w, "returnErr") /\ NoFail
       \/ Goto(w, "returnErr") /\ Fail
    /\ UNCHANGED <<cattle, cloud, disk, service, event, at, cfg, made>>

\* Mutant of AwaitAgent: foundAgentID is not checked after the loop.
AwaitAgentInVain(w) ==
    /\ pc[w] = "awaitAgent"
    /\ Goto(w, "touch")
    /\ boot' = [boot EXCEPT ![Machine(w)] = "none"]
    /\ UNCHANGED <<cattle, live, owner, agentUp, disk, service,
                   event, at, cfg, made, failures>>

\* Up to 150 looks at the host record; then the bootstrap container is
\* removed, and a failure to do so is ignored.
AwaitAgent(w) ==
    /\ pc[w] = "awaitAgent"
    /\ \/ RecordMissing(w) /\ Goto(w, "panic") /\ NoFail /\ UNCHANGED boot
       \/ /\ ~RecordMissing(w) /\ at[w] \in agentId
          /\ Goto(w, "touch")
          /\ \/ boot' = [boot EXCEPT ![Machine(w)] = "none"] /\ NoFail
             \/ UNCHANGED boot /\ Fail
       \/ at[w] \notin agentId /\ Goto(w, "returnErr") /\ NoFail /\ UNCHANGED boot
       \/ Goto(w, "returnErr") /\ Fail /\ UNCHANGED boot
    /\ UNCHANGED <<cattle, live, owner, agentUp, disk, service,
                   event, at, cfg, made>>

\* touchBootstrappedStamp.
TouchStamp(w) ==
    /\ pc[w] = "touch"
    /\ \/ /\ stamp' = [stamp EXCEPT ![at[w]] = TRUE]
          /\ Goto(w, "reply")
          /\ NoFail
       \/ Goto(w, "returnErr") /\ Fail /\ UNCHANGED stamp
    /\ UNCHANGED <<cattle, cloud, store, service, event, at, cfg, made>>

\* The final reply, of both handlers; it precedes the removal of the directory.
FinalReply(w) ==
    /\ pc[w] = "reply"
    /\ PublishReply(w, "returnOk", "returnErr")
    /\ UNCHANGED <<saved, agentId, stream, cloud, disk, service,
                   event, at, cfg, made>>

\* The deferred os.RemoveAll(hostDir), of both handlers.
RemoveHostDir(h) ==
    /\ store' = [store EXCEPT ![h] = NoVM]
    /\ stamp' = [stamp EXCEPT ![h] = FALSE]

\* The handler returns nil and doWork is done, or an error it has to publish.
HandlerReturns(w) ==
    /\ \/ pc[w] = "returnOk" /\ Finish(w)
       \/ /\ pc[w] = "returnErr" /\ Goto(w, "errorReply")
          /\ UNCHANGED <<locked, event, at, cfg, made>>
    /\ RemoveHostDir(at[w])
    /\ UNCHANGED <<cattle, cloud, removeCache, failures>>

-----------------------------------------------------------------------------
\* The bootstrap container starts the agent, and goes away when it exits
\* (AutoRemove); the agent registers the host it runs on.
AgentStarts(v) ==
    /\ boot[v] = "running" /\ v \in live /\ v \notin agentUp
    /\ agentUp' = agentUp \cup {v}
    /\ UNCHANGED <<cattle, live, owner, boot, disk, service, worker, failures>>

BootstrapExits(v) ==
    /\ boot[v] = "running"
    /\ boot' = [boot EXCEPT ![v] = "none"]
    /\ UNCHANGED <<cattle, live, owner, agentUp, disk, service, worker, failures>>

AgentRegisters(v) ==
    /\ v \in agentUp \cap live /\ owner[v] \notin agentId
    /\ state[owner[v]] # "gone"
    /\ agentId' = agentId \cup {owner[v]}
    /\ UNCHANGED <<state, saved, stream, cloud, disk, service, worker, failures>>

Provision(w) ==
    \/ LoadHost(w, "getHost", "restore")
    \/ RestoreHost(w)
    \/ CreateMachine(w)
    \/ LaunchCreate(w)
    \/ CommandWait(w)
    \/ CleanupResources(w)
    \/ ArchiveConfig(w)
    \/ SaveConfig(w)
    \/ ReachDocker(w)
    \/ CreateContainer(w)
    \/ StartContainer(w)
    \/ FindAgent(w)
    \/ AwaitAgent(w)
    \/ TouchStamp(w)
    \/ FinalReply(w)
    \/ HandlerReturns(w)

=============================================================================
