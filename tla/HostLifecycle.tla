---------------------------- MODULE HostLifecycle ----------------------------
(***************************************************************************)
(* The host half of go-machine-service composed: Cattle, the router, the   *)
(* two handlers on every worker, docker-machine and docker, crashes.       *)
(***************************************************************************)
EXTENDS PurgeHost

Cattle  == \E h \in Hosts : CattleSends(h) \/ UserRemoves(h) \/ RecordDeleted(h)
Router  == (\E h \in Hosts : HandleWork(h)) \/ (\E w \in Workers : Lock(w))
Handler == \E w \in Workers : Provision(w) \/ Purge(w) \/ ErrorReply(w)
DockerMachine == \E w \in Workers : DockerMachineRegisters(w) \/ DockerMachineBuilds(w)
Docker  == \E v \in VMs : AgentStarts(v) \/ BootstrapExits(v) \/ AgentRegisters(v)
Process == Crash \/ PanicKillsProcess \/ \E h \in Hosts : CacheExpires(h)

Next == Cattle \/ Router \/ Handler \/ DockerMachine \/ Docker \/ Process

Spec == Init /\ [][Next]_vars

(***************************************************************************)
(* Fairness.  Cattle repeats an event until it is answered, and the Go     *)
(* scheduler runs every goroutine: the router's reader, and the one of     *)
(* each worker, whose waits are all bounded by a count of attempts or end  *)
(* with docker-machine, which exits.  Nothing is asked of the user, the    *)
(* cloud, the agent or the failures.                                       *)
(***************************************************************************)
WorkerStep(w) == Lock(w) \/ Provision(w) \/ Purge(w) \/ ErrorReply(w)

Fairness ==
    /\ \A h \in Hosts : WF_vars(CattleSends(h)) /\ WF_vars(HandleWork(h))
    /\ \A w \in Workers : WF_vars(WorkerStep(w))
    /\ WF_vars(PanicKillsProcess)

FairSpec == Spec /\ Fairness

-----------------------------------------------------------------------------
(***************************************************************************)
(* Safety, whatever fails.                                                 *)
(***************************************************************************)

\* At most one goroutine is inside a handler for a host, and it is the one
\* that holds the lock of that host (doWork, locks.locker).
OneHandlerPerHost ==
    /\ locked = {at[w] : w \in {u \in Workers : Holds(u)}}
    /\ \A u, w \in Workers : Holds(u) /\ Holds(w) /\ at[u] = at[w] => u = w

\* The directory that a host's ExtractedConfig holds is never replaced:
\* no later provisioning creates a second machine for the host.
SavedIsFinal ==
    [][\A h \in Hosts : saved[h] # NoVM => saved'[h] = saved[h]]_vars

\* A machine is created for a host only while none is recorded for it, and
\* only on behalf of the handler that holds its lock.
CreatedOnlyWhenNew ==
    [][\A v \in live' \ live : /\ saved[owner[v]] = NoVM
                               /\ owner[v] \in locked]_vars

\* Once a host is answered as removed, the machine recorded for it is gone and
\* stays gone (the reply of PurgeMachine comes after deleteMachine).
RemovedConfigIsDead ==
    \A h \in Hosts : state[h] \in {"removed", "gone"} => saved[h] \notin live

\* Handlers of a host touch no machine but the host's own.
OwnMachinesOnly ==
    \A h \in Hosts : /\ store[h] # NoVM => owner[store[h]] = h
                     /\ saved[h] # NoVM => owner[saved[h]] = h

-----------------------------------------------------------------------------
(***************************************************************************)
(* Safety, when the failures the code does not recover from stay away.     *)
(***************************************************************************)

\* Every machine that exists can be found again: it is recorded in Cattle, or
\* listed in the directory of a handler still working on it.
NoOrphanVM ==
    \A v \in live : \/ saved[owner[v]] = v
                    \/ /\ store[owner[v]] = v
                       /\ owner[v] \in locked

\* A host that Cattle calls active has a machine recorded for it, that
\* exists, and an agent that registered.
ActiveIsManaged ==
    \A h \in Hosts : state[h] = "active" => saved[h] \in live /\ h \in agentId

\* Removing a host leaves no machine of it behind, recorded or not.
RemovedHasNoVM ==
    \A h \in Hosts : state[h] \in {"removed", "gone"} =>
        \A v \in live : owner[v] # h

\* No handler works on a host whose record is gone.
NoPanic == \A w \in Workers : pc[w] # "panic"

-----------------------------------------------------------------------------
(***************************************************************************)
(* The handlers implement MachineContract.  A machine listed by the handler*)
(* at work is on trial, one recorded in ExtractedConfig is kept.           *)
(***************************************************************************)
Wish(h) == IF state[h] = "removing" THEN "leaving"
           ELSE IF state[h] \in {"removed", "gone"} THEN "removed"
           ELSE "wanted"

Fate(v) ==
    IF owner[v] = NoHost THEN "unborn"
    ELSE IF saved[owner[v]] = v THEN (IF v \in live THEN "kept" ELSE "destroyed")
    ELSE IF v \in live \/ store[owner[v]] = v THEN "trial" ELSE "discarded"

Contract == INSTANCE MachineContract WITH
    wish <- [h \in Hosts |-> Wish(h)],
    of   <- owner,
    fate <- [v \in VMs |-> Fate(v)]

\* Every step of the handlers, of Cattle and of docker-machine is a step that
\* the contract allows, or changes nothing the contract speaks of.
KeepsContract == Contract!Spec

-----------------------------------------------------------------------------
(***************************************************************************)
(* What the code says of itself, and does not do.                          *)
(***************************************************************************)

\* "Host is not registered correctly" is the error of a provisioning whose
\* agent has not registered, so a host that becomes active has one.
RegisteredWhenActive ==
    [][\A h \in Hosts : state[h] = "provisioning" /\ state'[h] = "active"
                             => h \in agentId]_vars

\* getHostAndHostDir turns a host that is not found into the error "can't find
\* host with resourceId", so a host that is gone kills nobody.
MissingHostIsAnError ==
    \A w \in Workers : pc[w] = "panic" => state[at[w]] # "gone"

-----------------------------------------------------------------------------
(***************************************************************************)
(* Liveness.                                                               *)
(***************************************************************************)

\* A host does not stay in transition: its provisioning is answered, and its
\* removal, refused any number of times, succeeds.
ProvisioningEnds == \A h \in Hosts : state[h] = "provisioning" ~> state[h] # "provisioning"
RemovalEnds      == \A h \in Hosts : state[h] = "removing" ~> state[h] \in {"removed", "gone"}

\* A lock that is taken is given back, so a host is never out of reach of
\* later events.
LocksAreReleased == \A h \in Hosts : h \in locked ~> h \notin locked

=============================================================================
