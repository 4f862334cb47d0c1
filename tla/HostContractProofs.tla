------------------------- MODULE HostContractProofs -------------------------
(***************************************************************************)
(* What holds when no failure happens but those that the handlers recover  *)
(* from, for any number of hosts, workers and failures:                    *)
(*                                                                         *)
(*   - no virtual machine is lost: every machine that exists is recorded   *)
(*     in ExtractedConfig or listed in the directory of the handler at     *)
(*     work, so that removing a host leaves none behind;                   *)
(*   - an active host has its machine and its agent, and every step is one *)
(*     of MachineContract or changes nothing that it speaks of.            *)
(*                                                                         *)
(* Unlike the results before, these need every failure the code has no     *)
(* answer to to stay away.                                                 *)
(***************************************************************************)
EXTENDS HostRemovalProofs

Quiet == Faults = {}

\* From "docker-machine create" to the record of its machine, and before that.
Tries == {"dmCreate", "cleanup", "archive", "save"}
Fresh == {"lock", "getHost", "restore", "create", "launch"}

StoreKnown ==
    \A h \in Hosts : \/ store[h] \in {NoVM, saved[h]}
                     \/ \E w \in Workers : pc[w] \in Tries /\ at[w] = h

MadeListed ==
    \A w \in Workers : /\ pc[w] = "dmCreate" /\ made[w] # NoVM
                              => store[at[w]] = made[w]
                       /\ pc[w] \in Fresh \cup {"idle"} => made[w] = NoVM

LiveKnown ==
    \A v \in live : saved[owner[v]] = v \/ store[owner[v]] = v

RecoverInv == StoreKnown /\ MadeListed /\ LiveKnown

-----------------------------------------------------------------------------
\* How a handler gets in and out of its attempt to create a machine.
LEMMA TryStep ==
  ASSUME Quiet, PositionType, NEW w \in Workers, OwnStep(w)
  PROVE  /\ pc[w] \in Tries => \/ pc'[w] \in Tries
                               \/ CleanupResources(w) \/ SaveConfig(w)
         /\ pc'[w] \in Fresh => pc[w] \in Fresh
         /\ pc'[w] = "dmCreate" => pc[w] = "launch"
<1> USE DEF Goto, Tries, Fresh, PositionType
<1>1. CASE Provision(w)
  <2>1. CASE LoadHost(w, "getHost", "restore") \/ RestoreHost(w) \/ CreateMachine(w)
    BY <2>1 DEF LoadHost, RestoreHost, CreateMachine, PublishReply
  <2>2. CASE LaunchCreate(w) \/ CommandWait(w) \/ ArchiveConfig(w)
    BY <2>2 DEF LaunchCreate, CommandWait, ArchiveConfig, Quiet
  <2>3. CASE CleanupResources(w) \/ SaveConfig(w)
    BY <2>3 DEF CleanupResources, SaveConfig
  <2>4. CASE ReachDocker(w) \/ CreateContainer(w) \/ StartContainer(w)
    BY <2>4 DEF ReachDocker, CreateContainer, StartContainer
  <2>5. CASE FindAgent(w) \/ AwaitAgent(w) \/ TouchStamp(w)
    BY <2>5 DEF FindAgent, AwaitAgent, TouchStamp
  <2>6. CASE FinalReply(w) \/ HandlerReturns(w)
    BY <2>6 DEF FinalReply, PublishReply, HandlerReturns, Finish
  <2> QED
    BY <1>1, <2>1, <2>2, <2>3, <2>4, <2>5, <2>6 DEF Provision
<1>2. CASE Purge(w) \/ ErrorReply(w)
  BY <1>2 DEF Purge, CheckRemoveCache, LoadHost, RestoreToPurge, DeleteMachine, ErrorReply,
     Finish
<1> QED
  BY <1>1, <1>2 DEF OwnStep

\* A handler that has nothing recorded when it starts "docker-machine create"
\* has nothing in its directory either.
LEMMA NothingListed ==
  ASSUME CoreInv, StoreKnown, NEW w \in Workers, Holds(w), pc[w] \notin Tries
  PROVE  store[at[w]] \in {NoVM, saved[at[w]]} /\ at[w] \in Hosts
<1>1. at[w] \in Hosts
  BY DEF CoreInv, TypeOK, PositionType, Busy, Holds
<1>2. \A u \in Workers : pc[u] \in Tries /\ at[u] = at[w] => u = w
  BY DEF CoreInv, LockInv, Tries, Holds
<1> QED
  BY <1>1, <1>2 DEF StoreKnown

\* What RecoverInv needs of a step of w, whose host is h: that the machines of
\* h are known afterwards.
LEMMA OneHostStep ==
  ASSUME CoreInv, RecoverInv, NEW w \in Workers, Holds(w),
         at' = at, made' = made, owner' = owner,
         \A u \in Workers \ {w} : pc'[u] = pc[u],
         \A h \in Hosts \ {at[w]} : store'[h] = store[h] /\ saved'[h] = saved[h],
         live' \subseteq live,
         pc'[w] \in Tries \/ store'[at[w]] \in {NoVM, saved'[at[w]]},
         \A v \in live' : owner[v] = at[w]
            => saved'[at[w]] = v \/ store'[at[w]] = v,
         pc'[w] \notin Fresh \cup {"idle"} \/ pc[w] \in Fresh,
         pc'[w] = "dmCreate" => made[w] = NoVM
  PROVE  RecoverInv'
<1>h. at[w] \in Hosts
  BY DEF CoreInv, TypeOK, PositionType, Busy, Holds
<1>1. StoreKnown'
  <2> SUFFICES ASSUME NEW h \in Hosts
               PROVE  \/ store'[h] \in {NoVM, saved'[h]}
                      \/ \E u \in Workers : pc'[u] \in Tries /\ at[u] = h
    BY DEF StoreKnown
  <2>1. CASE h = at[w]
    BY <2>1
  <2>2. CASE h # at[w]
    BY <2>2 DEF RecoverInv, StoreKnown
  <2> QED
    BY <2>1, <2>2
<1>2. MadeListed'
  <2> SUFFICES ASSUME NEW u \in Workers
               PROVE  /\ pc'[u] = "dmCreate" /\ made[u] # NoVM
                            => store'[at[u]] = made[u]
                      /\ pc'[u] \in Fresh \cup {"idle"} => made[u] = NoVM
    BY DEF MadeListed
  <2>1. CASE u = w
    BY <2>1 DEF RecoverInv, MadeListed
  <2>2. CASE u # w
    <3>1. Holds(u) => at[u] # at[w] /\ at[u] \in Hosts
      BY <2>2 DEF CoreInv, LockInv, TypeOK, PositionType, Busy, Holds
    <3> QED
      BY <2>2, <3>1 DEF RecoverInv, MadeListed, Holds
  <2> QED
    BY <2>1, <2>2
<1>3. LiveKnown'
  BY DEF RecoverInv, LiveKnown, CoreInv, DataInv, LiveOwned
<1> QED
  BY <1>1, <1>2, <1>3 DEF RecoverInv

\* A step of a handler, of either kind, loses no machine.
LEMMA HandlerRecovers ==
  ASSUME Quiet, CoreInv, OrderInv, RecoverInv, NEW w \in Workers, OwnStep(w)
  PROVE  RecoverInv'
<1>t. PositionType /\ CattleType /\ DiskType /\ CloudType /\ LockInv
  BY DEF CoreInv, TypeOK
<1>m. Inside(w) \/ Leaves(w)
  BY HandlerStep DEF OwnStep
<1>w. Holds(w) /\ at[w] \in Hosts
  BY <1>m, <1>t DEF Inside, Leaves, PositionType, Busy, Holds
<1>l. NoVM \notin live
  BY <1>t, ConstantsAssumption DEF CloudType
<1>n. pc[w] \notin Tries => store[at[w]] \in {NoVM, saved[at[w]]}
  BY <1>w, NothingListed DEF RecoverInv
<1>k. \A v \in live : owner[v] = at[w] => saved[at[w]] = v \/ store[at[w]] = v
  BY DEF RecoverInv, LiveKnown
<1>e. ASSUME Leaves(w), UNCHANGED <<saved, live, owner>>, pc[w] \notin Tries,
             \A h \in Hosts : store'[h] = store[h] \/ (h = at[w] /\ store'[h] = NoVM)
      PROVE  RecoverInv'
  <2>1. /\ pc'[w] = "idle" /\ made'[w] = NoVM
        /\ \A u \in Workers \ {w} : pc'[u] = pc[u] /\ at'[u] = at[u] /\ made'[u] = made[u]
    BY <1>e, <1>t DEF Leaves, Finish, PositionType, CoreInv, TypeOK, CarriedType
  <2>2. \A u \in Workers \ {w} : Holds(u) => at[u] # at[w] /\ at[u] \in Hosts
    BY <1>w, <1>t DEF LockInv, PositionType, Busy, Holds
  <2>3. StoreKnown'
    <3> SUFFICES ASSUME NEW h \in Hosts
                 PROVE  \/ store'[h] \in {NoVM, saved[h]}
                        \/ \E u \in Workers : pc'[u] \in Tries /\ at'[u] = h
      BY <1>e DEF StoreKnown
    <3>1. CASE h = at[w]
      BY <3>1, <1>e, <1>n
    <3>2. CASE h # at[w]
      BY <3>2, <1>e, <2>1 DEF RecoverInv, StoreKnown
    <3> QED
      BY <3>1, <3>2
  <2>4. MadeListed'
    <3> SUFFICES ASSUME NEW u \in Workers
                 PROVE  /\ pc'[u] = "dmCreate" /\ made'[u] # NoVM
                              => store'[at'[u]] = made'[u]
                        /\ pc'[u] \in Fresh \cup {"idle"} => made'[u] = NoVM
      BY DEF MadeListed
    <3>1. CASE u # w
      BY <3>1, <1>e, <2>1, <2>2 DEF RecoverInv, MadeListed, Holds
    <3> QED
      BY <3>1, <2>1
  <2>5. LiveKnown'
    BY <1>e, <1>n, <1>l DEF RecoverInv, LiveKnown, CoreInv, DataInv, LiveOwned
  <2> QED
    BY <2>3, <2>4, <2>5 DEF RecoverInv
<1>1. ASSUME CarryOn(w), ~CleanupResources(w), ~SaveConfig(w) PROVE RecoverInv'
  <2>1. /\ at' = at /\ pc' = [pc EXCEPT ![w] = pc'[w]] /\ pc'[w] \notin {"idle", "lock"}
        /\ UNCHANGED <<saved, live, owner, store, cfg, made>>
    BY <1>1, <1>t DEF CarryOn, Inside, Goto, PositionType
  <2>2. pc'[w] \in Tries \/ pc[w] \notin Tries
    BY <1>1, <1>t, TryStep
  <2>3. pc'[w] = "dmCreate" => made[w] = NoVM
    BY <1>t, TryStep DEF RecoverInv, MadeListed, Fresh
  <2>4. pc'[w] \in Fresh => pc[w] \in Fresh
    BY <1>t, TryStep
  <2>5. \A u \in Workers \ {w} : pc'[u] = pc[u]
    BY <2>1, <1>t DEF PositionType
  <2> QED
    BY <2>1, <2>2, <2>3, <2>4, <2>5, <1>w, <1>n, <1>k, OneHostStep
<1>2. ASSUME LeaveOff(w) PROVE RecoverInv'
  <2>1. pc[w] \notin Tries
    <3>1. pc'[w] = "idle"
      BY <1>2, <1>t DEF LeaveOff, Leaves, Finish, PositionType
    <3>2. ~CleanupResources(w) /\ ~SaveConfig(w)
      BY <3>1, <1>t DEF CleanupResources, SaveConfig, Goto, PositionType
    <3> QED
      BY <3>1, <3>2, <1>t, TryStep DEF Tries
  <2> QED
    BY <1>2, <2>1, <1>e DEF LeaveOff
<1>3. ASSUME Reads(w) PROVE RecoverInv'
  <2>1. /\ UNCHANGED <<saved, live, owner, store, made, at>>
        /\ pc[w] \notin Tries /\ pc'[w] \notin {"idle", "dmCreate"}
        /\ \A u \in Workers \ {w} : pc'[u] = pc[u]
    BY <1>3, <1>t DEF Reads, LoadHost, Goto, Tries, PositionType, cattle, cloud, disk
  <2>2. pc'[w] \in Fresh => pc[w] \in Fresh
    BY <1>t, TryStep
  <2> QED
    BY <2>1, <2>2, <1>w, <1>n, <1>k, OneHostStep
<1>4. ASSUME RestoreHost(w) \/ RestoreToPurge(w) PROVE RecoverInv'
  <2>1. /\ UNCHANGED <<saved, live, owner, made, at>>
        /\ pc[w] \notin Tries /\ pc'[w] \notin {"idle", "dmCreate"}
        /\ \A u \in Workers \ {w} : pc'[u] = pc[u]
        /\ pc[w] \in Restoring
        /\ \A h \in Hosts : \/ store'[h] = store[h]
                            \/ h = at[w] /\ cfg[w] # NoVM /\ store'[h] = cfg[w]
    BY <1>4, <1>t DEF RestoreHost, RestoreToPurge, Extract, ExtractInPart, Goto, Tries,
       PositionType, Restoring, DiskType, cattle, cloud, disk
  <2>2. pc'[w] \in Fresh => pc[w] \in Fresh
    BY <1>t, TryStep
  <2>3. cfg[w] = saved[at[w]]
    BY <2>1 DEF CoreInv, DataInv, CfgSaved
  <2>4. store'[at[w]] \in {NoVM, saved[at[w]]}
    BY <2>1, <2>3, <1>n, <1>w
  <2>5. \A v \in live : owner[v] = at[w] => saved[at[w]] = v
    BY <2>1, <1>k, <1>n, <1>l
  <2>6. \A h \in Hosts \ {at[w]} : store'[h] = store[h] /\ saved'[h] = saved[h]
    BY <2>1
  <2> QED
    BY <2>1, <2>2, <2>4, <2>5, <2>6, <1>w, OneHostStep
<1>5. ASSUME CleanupResources(w) \/ DeleteMachine(w) PROVE RecoverInv'
  <2>1. /\ UNCHANGED <<saved, owner, made, at>>
        /\ pc'[w] \notin Fresh \cup {"idle", "dmCreate"}
        /\ \A u \in Workers \ {w} : pc'[u] = pc[u]
        /\ pc[w] \in {"cleanup", "delete"}
        /\ pc'[w] \in {"returnErr", "reply"}
    BY <1>5, <1>t DEF CleanupResources, DeleteMachine, Goto, Fresh, PositionType, cattle
  <2>2. \/ /\ Machine(w) # NoVM /\ live' = live \ {store[at[w]]}
           /\ store' = [store EXCEPT ![at[w]] = NoVM]
        \/ /\ Machine(w) = NoVM \/ pc[w] = "delete"
           /\ live' = live /\ store' = store
    BY <1>5, <1>t DEF CleanupResources, DeleteMachine, RemoveMachine, disk, Quiet,
       Goto, PositionType
  <2>3. store'[at[w]] \in {NoVM, saved[at[w]]}
    BY <2>2, <1>n, <1>w, <1>t DEF Machine, DiskType, Tries
  <2>4. \A v \in live' : owner[v] = at[w] => saved[at[w]] = v \/ store'[at[w]] = v
    BY <2>2, <1>k
  <2>5. live' \subseteq live
    BY <2>2
  <2>6. \A h \in Hosts \ {at[w]} : store'[h] = store[h] /\ saved'[h] = saved[h]
    BY <2>1, <2>2, <1>t DEF DiskType
  <2> QED
    BY <2>1, <2>3, <2>4, <2>5, <2>6, <1>w, OneHostStep
<1>6. ASSUME SaveConfig(w) PROVE RecoverInv'
  <2>1. state[at[w]] # "gone"
    <3>1. event[w] = "provision" /\ Busy(w)
      BY <1>6 DEF SaveConfig, OrderInv, LabelsMatch, ProvisionAt, Busy
    <3> QED
      BY <3>1, <1>w DEF OrderInv, RemovalAlone, RemoveOnly
  <2>2. /\ UNCHANGED <<live, owner, store, made, at>>
        /\ pc[w] = "save" /\ pc'[w] = "register"
        /\ \A u \in Workers \ {w} : pc'[u] = pc[u]
        /\ saved' = [saved EXCEPT ![at[w]] = store[at[w]]]
    BY <1>6, <2>1, <1>t DEF SaveConfig, RecordMissing, Machine, Goto, Quiet, PositionType,
       cloud, disk
  <2>3. saved[at[w]] = NoVM
    BY <2>2 DEF CoreInv, DataInv, NewHost, Creating
  <2>4. saved'[at[w]] = store[at[w]]
    BY <2>2, <1>w, <1>t DEF CattleType
  <2>5. \A v \in live : owner[v] = at[w] => saved'[at[w]] = v
    BY <2>3, <2>4, <1>k, <1>l
  <2>6. \A h \in Hosts \ {at[w]} : store'[h] = store[h] /\ saved'[h] = saved[h]
    BY <2>2, <1>t DEF CattleType
  <2> QED
    BY <2>2, <2>4, <2>5, <2>6, <1>w, OneHostStep DEF Fresh
<1>7. ASSUME HandlerReturns(w) PROVE RecoverInv'
  <2>1. /\ pc[w] \in {"returnOk", "returnErr"} /\ UNCHANGED <<saved, live, owner>>
        /\ store' = [store EXCEPT ![at[w]] = NoVM]
    BY <1>7 DEF HandlerReturns, RemoveHostDir, cattle, cloud
  <2>2. CASE Finish(w)
    BY <1>e, <1>w, <2>1, <2>2, <1>t DEF Leaves, Tries, DiskType
  <2>3. CASE Goto(w, "errorReply") /\ UNCHANGED <<locked, event, at, cfg, made>>
    <3>1. pc'[w] = "errorReply" /\ \A u \in Workers \ {w} : pc'[u] = pc[u]
      BY <2>3, <1>t DEF Goto, PositionType
    <3>2. /\ store'[at[w]] = NoVM
          /\ \A h \in Hosts \ {at[w]} : store'[h] = store[h] /\ saved'[h] = saved[h]
      BY <2>1, <1>w, <1>t DEF DiskType
    <3>3. \A v \in live : owner[v] = at[w] => saved[at[w]] = v
      BY <2>1, <1>k, <1>n, <1>l DEF Tries
    <3> QED
      BY <2>1, <2>3, <3>1, <3>2, <3>3, <1>w, OneHostStep DEF Fresh
  <2> QED
    BY <1>7, <2>2, <2>3 DEF HandlerReturns
<1> QED
  BY <1>1, <1>2, <1>3, <1>4, <1>5, <1>6, <1>7, <1>t, HandlerEffect DEF OwnStep

\* RecoverInv is inductive, when nothing happens that the handlers do not
\* recover from.
LEMMA RecoverStep ==
  ASSUME Quiet, CoreInv, OrderInv, NoPanic, RecoverInv, [Next]_vars
  PROVE  RecoverInv'
<1>t. PositionType /\ CattleType /\ DiskType /\ CloudType /\ CarriedType /\ LockInv
  BY DEF CoreInv, TypeOK
<1> USE DEF RecoverInv, StoreKnown, MadeListed, LiveKnown
<1>1. ASSUME NEW h \in Hosts, HandleWork(h) PROVE RecoverInv'
  <2>1. UNCHANGED <<saved, live, owner, store, made>>
    BY <1>1 DEF HandleWork, StartGoroutine, cloud, disk, worker
  <2>2. \A u \in Workers : \/ pc'[u] = pc[u] /\ at'[u] = at[u]
                           \/ pc[u] = "idle" /\ pc'[u] = "lock"
    BY <1>1, <1>t DEF HandleWork, StartGoroutine, Goto, Busy, worker, PositionType
  <2> QED
    BY <2>1, <2>2 DEF Tries, Fresh
<1>2. ASSUME NEW w \in Workers, Lock(w) PROVE RecoverInv'
  <2>1. UNCHANGED <<saved, live, owner, store, made>>
    BY <1>2 DEF Lock, cattle, cloud, disk
  <2>2. \A u \in Workers : \/ pc'[u] = pc[u] /\ at'[u] = at[u]
                           \/ pc[u] = "lock" /\ pc'[u] \in {"idle", "getHost", "purge"}
    BY <1>2, <1>t DEF Lock, Goto, PositionType
  <2> QED
    BY <2>1, <2>2 DEF Tries, Fresh
<1>3. ASSUME NEW w \in Workers, DockerMachineRegisters(w) PROVE RecoverInv'
  <2>1. PICK v \in VMs : /\ owner[v] = NoHost
                         /\ owner' = [owner EXCEPT ![v] = at[w]]
                         /\ store' = [store EXCEPT ![at[w]] = v]
                         /\ made' = [made EXCEPT ![w] = v]
    BY <1>3 DEF DockerMachineRegisters
  <2>2. /\ UNCHANGED <<saved, live, cfg, at, pc>> /\ pc[w] = "dmCreate"
        /\ store[at[w]] = NoVM /\ Holds(w) /\ at[w] \in Hosts
    BY <1>3, <1>t DEF DockerMachineRegisters, Machine, Holds, Busy, PositionType, cattle
  <2>3. v \notin live
    BY <2>1, ConstantsAssumption DEF CoreInv, DataInv, LiveOwned
  <2>4. StoreKnown'
    BY <2>1, <2>2, <1>t DEF DiskType, Tries
  <2>5. \A u \in Workers \ {w} : Holds(u) => at[u] # at[w] /\ at[u] \in Hosts
    BY <2>2, <1>t DEF LockInv, PositionType, Busy, Holds
  <2>6. MadeListed'
    BY <2>1, <2>2, <2>5, <1>t DEF DiskType, CarriedType, Fresh, Holds
  <2>7. LiveKnown'
    BY <2>1, <2>2, <2>3, <1>t, ConstantsAssumption
       DEF DiskType, CloudType, CoreInv, DataInv, LiveOwned
  <2> QED
    BY <2>4, <2>6, <2>7
<1>4. ASSUME NEW w \in Workers, DockerMachineBuilds(w) PROVE RecoverInv'
  <2>1. /\ UNCHANGED <<saved, owner, store, made, at, pc>>
        /\ live' = live \cup {made[w]} /\ made[w] # NoVM /\ pc[w] = "dmCreate"
    BY <1>4 DEF DockerMachineBuilds, cattle, disk, worker
  <2>2. owner[made[w]] = at[w] /\ store[at[w]] = made[w]
    BY <2>1 DEF CoreInv, DataInv, MadeOwned
  <2> QED
    BY <2>1, <2>2
<1>5. CASE Handler
  BY <1>5, HandlerRecovers DEF Handler, OwnStep
<1>6. ~Crash /\ ~PanicKillsProcess
  BY DEF Crash, PanicKillsProcess, Quiet, NoPanic
<1>7. CASE Cattle \/ Docker \/ (\E h \in Hosts : CacheExpires(h)) \/ UNCHANGED vars
  BY <1>7, OutsideStep, OutsideEffect DEF Outside
<1> QED
  BY <1>1, <1>2, <1>3, <1>4, <1>5, <1>6, <1>7 DEF Next, Router, DockerMachine, Process

-----------------------------------------------------------------------------
\* RecoverInv, the inductive invariant behind the two theorems that follow, holds
\* in every reachable state when no fault of Faults may happen.
THEOREM RecoverInvariant ==
  ASSUME Quiet PROVE Spec => []RecoverInv
<1>1. InOrder /\ NoExpiry
  BY DEF Quiet, InOrder, NoExpiry
<1>2. Init => RecoverInv
  BY DEF Init, RecoverInv, StoreKnown, MadeListed, LiveKnown
<1>3. CoreInv /\ OrderInv /\ NoPanic /\ RecoverInv /\ [Next]_vars => RecoverInv'
  BY RecoverStep
<1>4. Spec => []OrderInv
  BY <1>1, ProvisionBeforeRemoval
<1>5. Spec => []NoPanic
  BY <1>1, NoNilHost
<1> QED
  BY <1>2, <1>3, <1>4, <1>5, CoreInvariant, PTL DEF Spec

\* No machine is lost by a failure that a handler returns: the one listed for a
\* host is either recorded, or a handler that will clean it up is at work.
THEOREM NothingIsLost ==
  ASSUME Quiet PROVE Spec => []NoOrphanVM
<1>1. CoreInv /\ RecoverInv => NoOrphanVM
  <2> SUFFICES ASSUME CoreInv, RecoverInv, NEW v \in live, saved[owner[v]] # v
               PROVE  store[owner[v]] = v /\ owner[v] \in locked
    BY DEF NoOrphanVM
  <2>1. store[owner[v]] = v /\ v # NoVM /\ owner[v] \in Hosts
    BY ConstantsAssumption
       DEF RecoverInv, LiveKnown, CoreInv, TypeOK, CloudType, DataInv, LiveOwned
  <2>2. \E w \in Workers : pc[w] \in Tries /\ at[w] = owner[v]
    BY <2>1 DEF RecoverInv, StoreKnown
  <2> QED
    BY <2>1, <2>2 DEF Tries, Holds, CoreInv, LockInv
<1> QED
  BY <1>1, CoreInvariant, RecoverInvariant, PTL

\* The reply to host.remove means that no machine of the host is left, neither
\* the recorded one nor any that an earlier provisioning tried.
THEOREM RemovalLeavesNothing ==
  ASSUME Quiet PROVE Spec => []RemovedHasNoVM
<1>1. CoreInv /\ OrderInv /\ RemovedConfigIsDead /\ RecoverInv => RemovedHasNoVM
  <2> SUFFICES ASSUME CoreInv, OrderInv, RemovedConfigIsDead, RecoverInv,
                      NEW h \in Hosts, state[h] \in {"removed", "gone"},
                      NEW v \in live, owner[v] = h
               PROVE  FALSE
    BY DEF RemovedHasNoVM
  <2>1. saved[h] # v
    BY DEF RemovedConfigIsDead
  <2>2. store[h] = v /\ v # NoVM
    BY <2>1, ConstantsAssumption DEF RecoverInv, LiveKnown, CoreInv, TypeOK, CloudType
  <2>3. PICK w \in Workers : pc[w] \in Tries /\ at[w] = h
    BY <2>1, <2>2 DEF RecoverInv, StoreKnown
  <2>4. event[w] = "provision" /\ Busy(w)
    BY <2>3 DEF OrderInv, LabelsMatch, ProvisionAt, Tries, Busy
  <2> QED
    BY <2>3, <2>4 DEF OrderInv, RemovalAlone, RemoveOnly
<1>2. InOrder
  BY DEF Quiet, InOrder
<1>3. Spec => []OrderInv
  BY <1>2, ProvisionBeforeRemoval
<1>4. Spec => []RemovedConfigIsDead
  BY <1>2, RemovalKills
<1> QED
  BY <1>1, <1>3, <1>4, CoreInvariant, RecoverInvariant, PTL

-----------------------------------------------------------------------------
(***************************************************************************)
(* A host that Cattle calls active is managed.  The way to "active" leads  *)
(* past docker on the machine and past the agent; the short cut of a       *)
(* machine already stamped as created is never taken, because a stamp is   *)
(* on disk only while the handler that set it runs, or removal has begun.  *)
(***************************************************************************)
Stamped  == {"archive", "save", "register", "container", "start", "findAgent",
             "awaitAgent", "touch", "reply", "returnOk", "returnErr"}
Attached == {"container", "start", "findAgent", "awaitAgent", "touch"}
Provisioned(w) == pc[w] = "reply" /\ event[w] = "provision"

StampKnown ==
    \A h \in Hosts : stamp[h] => \/ RemoveOnly(h)
                                 \/ \E w \in Workers : pc[w] \in Stamped /\ at[w] = h

Reached ==
    \A w \in Workers : pc[w] \in Attached \/ Provisioned(w) => saved[at[w]] \in live

AgentKnown ==
    \A w \in Workers : pc[w] = "touch" \/ Provisioned(w) => at[w] \in agentId

\* What is about to be recorded exists.
Built == \A w \in Workers : pc[w] \in {"archive", "save"} => store[at[w]] \in live

ManageInv == StampKnown /\ Reached /\ AgentKnown /\ Built /\ ActiveIsManaged

\* What the theorems before have established of every reachable state.
Known == CoreInv /\ OrderInv /\ NoPanic /\ RecoverInv

-----------------------------------------------------------------------------
\* A machine is taken away by "docker-machine rm" only.
LEMMA LiveFalls ==
  ASSUME [Next]_vars
  PROVE  live \subseteq live' \/ \E w \in Workers : CleanupResources(w) \/ DeleteMachine(w)
<1> USE DEF cloud
<1>1. ASSUME NEW w \in Workers, Provision(w) \/ Purge(w) \/ ErrorReply(w)
      PROVE  live' = live \/ CleanupResources(w) \/ DeleteMachine(w)
  BY <1>1 DEF Provision, Purge, LoadHost, RestoreHost, CreateMachine, LaunchCreate,
     CommandWait, ArchiveConfig, SaveConfig, ReachDocker, CreateContainer,
     StartContainer, FindAgent, AwaitAgent, TouchStamp, FinalReply, HandlerReturns,
     CheckRemoveCache, RestoreToPurge, ErrorReply
<1>2. CASE Cattle \/ Router \/ DockerMachine
  BY <1>2 DEF Cattle, CattleSends, UserRemoves, RecordDeleted, Router, HandleWork, Lock,
     DockerMachine, DockerMachineRegisters, DockerMachineBuilds
<1>3. CASE Docker \/ Process \/ UNCHANGED vars
  BY <1>3 DEF Docker, AgentStarts, BootstrapExits, AgentRegisters, Process, Crash,
     PanicKillsProcess, Restart, CacheExpires, vars
<1> QED
  BY <1>1, <1>2, <1>3 DEF Next, Handler

\* A machine lives as long as no handler of its host is about to remove it.
LEMMA LiveStays ==
  ASSUME CoreInv, [Next]_vars, NEW h \in Hosts, NEW v \in live, owner[v] = h,
         \A w \in Workers : at[w] = h => pc[w] \notin {"cleanup", "delete"}
  PROVE  v \in live'
<1>1. ASSUME NEW w \in Workers, CleanupResources(w) \/ DeleteMachine(w) PROVE v \in live'
  <2>1. /\ pc[w] \in {"cleanup", "delete"}
        /\ live' = live \/ live' = live \ {store[at[w]]}
    BY <1>1 DEF CleanupResources, DeleteMachine, RemoveMachine
  <2>2. at[w] \in Hosts
    BY <2>1 DEF CoreInv, TypeOK, PositionType, Busy
  <2>3. v # NoVM
    BY ConstantsAssumption DEF CoreInv, TypeOK, CloudType
  <2>4. store[at[w]] # v
    BY <2>1, <2>2, <2>3 DEF CoreInv, DataInv, OwnMachinesOnly
  <2> QED
    BY <2>1, <2>4
<1> QED
  BY <1>1, LiveFalls

\* What is recorded for a host stays recorded.
LEMMA SavedForGoodStep ==
  ASSUME CoreInv, [Next]_vars, NEW h \in Hosts, saved[h] # NoVM
  PROVE  saved'[h] = saved[h]
<1>1. ASSUME NEW w \in Workers, SaveConfig(w) PROVE saved'[h] = saved[h]
  <2>1. pc[w] = "save" /\ (saved' = saved \/ saved' = [saved EXCEPT ![at[w]] = store[at[w]]])
    BY <1>1 DEF SaveConfig, Machine
  <2>2. h # at[w]
    BY <2>1 DEF CoreInv, DataInv, NewHost, Creating
  <2> QED
    BY <2>1, <2>2 DEF CoreInv, TypeOK, CattleType
<1> QED
  BY <1>1, SavedMoves

\* An agent that has registered stays registered.
LEMMA AgentStays ==
  ASSUME [Next]_vars PROVE agentId \subseteq agentId'
<1> USE DEF cattle
<1>1. ASSUME NEW w \in Workers, Provision(w) \/ Purge(w) \/ ErrorReply(w)
      PROVE  agentId' = agentId
  BY <1>1 DEF Provision, Purge, LoadHost, RestoreHost, CreateMachine, LaunchCreate,
     CommandWait, CleanupResources, ArchiveConfig, SaveConfig, ReachDocker,
     CreateContainer, StartContainer, FindAgent, AwaitAgent, TouchStamp, FinalReply,
     HandlerReturns, CheckRemoveCache, RestoreToPurge, DeleteMachine, ErrorReply
<1>2. CASE Cattle \/ Router \/ DockerMachine
  BY <1>2 DEF Cattle, CattleSends, UserRemoves, RecordDeleted, Router, HandleWork, Lock,
     DockerMachine, DockerMachineRegisters, DockerMachineBuilds
<1>3. CASE Docker \/ Process \/ UNCHANGED vars
  BY <1>3 DEF Docker, AgentStarts, BootstrapExits, AgentRegisters, Process, Crash,
     PanicKillsProcess, Restart, CacheExpires, vars
<1> QED
  BY <1>1, <1>2, <1>3 DEF Next, Handler

\* While the process lives, a handler goes on by its own steps only.
LEMMA QuietMoves ==
  ASSUME Quiet, NoPanic, PositionType, [Next]_vars, NEW w \in Workers, Holds(w)
  PROVE  Unmoved(w) \/ OwnStep(w)
<1> USE DEF Unmoved, OwnStep, Holds
<1>1. ASSUME NEW h \in Hosts, HandleWork(h) PROVE Unmoved(w)
  BY <1>1 DEF HandleWork, StartGoroutine, Goto, worker, PositionType, Busy
<1>2. ASSUME NEW u \in Workers, Lock(u) PROVE Unmoved(w)
  BY <1>2 DEF Lock, Goto, PositionType
<1>3. ASSUME NEW u \in Workers \ {w}, OwnStep(u) PROVE Unmoved(w)
  <2>1. Inside(u) \/ Leaves(u)
    BY <1>3, HandlerStep
  <2> QED
    BY <1>3, <2>1 DEF Inside, Leaves, Finish, Goto, PositionType
<1>4. CASE Outside
  BY <1>4 DEF Outside
<1>5. ~Crash /\ ~PanicKillsProcess
  BY DEF Crash, PanicKillsProcess, Quiet, NoPanic
<1> QED
  BY <1>1, <1>2, <1>3, <1>4, <1>5, OutsideStep DEF Next, Router, Handler, Process

\* One goroutine at a time is past the lock of a host.
LEMMA AloneAtHost ==
  ASSUME CoreInv, NEW w \in Workers, NEW u \in Workers, Holds(w),
         at[u] = at[w], pc[u] \notin {"idle", "lock"}
  PROVE  u = w
BY DEF CoreInv, LockInv, Holds

-----------------------------------------------------------------------------
(***************************************************************************)
(* The stamp.                                                              *)
(***************************************************************************)
\* Who sets a stamp is past "docker-machine create" or removes the host.
LEMMA StampSet ==
  ASSUME TypeOK, LabelsMatch, [Next]_vars, NEW h \in Hosts, stamp'[h], ~stamp[h]
  PROVE  \E w \in Workers : /\ Holds(w) /\ at[w] = h /\ at'[w] = h
                            /\ pc'[w] \in Stamped \/ event[w] = "remove"
<1>t. PositionType /\ DiskType
  BY DEF TypeOK
<1> USE DEF disk, Holds
<1>1. ASSUME NEW w \in Workers, Provision(w) \/ Purge(w) \/ ErrorReply(w)
      PROVE  \/ RestoreHost(w) \/ CommandWait(w) \/ TouchStamp(w) \/ RestoreToPurge(w)
  <2>1. UNCHANGED stamp \/ RestoreHost(w) \/ CommandWait(w) \/ TouchStamp(w)
        \/ RestoreToPurge(w) \/ CleanupResources(w) \/ DeleteMachine(w) \/ HandlerReturns(w)
    BY <1>1 DEF Provision, Purge, LoadHost, CreateMachine, LaunchCreate, ArchiveConfig,
       SaveConfig, ReachDocker, CreateContainer, StartContainer, FindAgent, AwaitAgent,
       FinalReply, CheckRemoveCache, ErrorReply
  <2>2. ~CleanupResources(w) /\ ~DeleteMachine(w) /\ ~HandlerReturns(w)
    BY <1>t DEF CleanupResources, DeleteMachine, HandlerReturns, RemoveMachine,
       RemoveHostDir, DiskType
  <2> QED
    BY <2>1, <2>2
<1>2. ASSUME NEW w \in Workers, RestoreHost(w) \/ CommandWait(w) \/ TouchStamp(w)
      PROVE  Holds(w) /\ at[w] = h /\ at'[w] = h /\ pc'[w] \in Stamped
  BY <1>2, <1>t DEF RestoreHost, CommandWait, TouchStamp, Extract, ExtractInPart, Goto,
     PositionType, DiskType, Stamped
<1>3. ASSUME NEW w \in Workers, RestoreToPurge(w)
      PROVE  Holds(w) /\ at[w] = h /\ at'[w] = h /\ event[w] = "remove"
  BY <1>3, <1>t DEF RestoreToPurge, Extract, ExtractInPart, DiskType, LabelsMatch, PurgeAt
<1>4. CASE Cattle \/ Router \/ DockerMachine
  BY <1>4 DEF Cattle, CattleSends, UserRemoves, RecordDeleted, Router, HandleWork, Lock,
     DockerMachine, DockerMachineRegisters, DockerMachineBuilds
<1>5. CASE Docker \/ Process \/ UNCHANGED vars
  BY <1>5 DEF Docker, AgentStarts, BootstrapExits, AgentRegisters, Process, Crash,
     PanicKillsProcess, Restart, CacheExpires, vars
<1> QED
  BY <1>1, <1>2, <1>3, <1>4, <1>5 DEF Next, Handler

\* A handler that has a stamp takes it away before it leaves.
LEMMA StampHeld ==
  ASSUME PositionType, DiskType, NEW w \in Workers, OwnStep(w), pc[w] \in Stamped,
         at[w] \in Hosts, pc'[w] # "panic"
  PROVE  (pc'[w] \in Stamped /\ at'[w] = at[w]) \/ ~stamp'[at[w]]
<1> USE DEF Goto, Stamped, PositionType
<1>1. CASE Provision(w)
  <2>1. CASE LoadHost(w, "getHost", "restore") \/ RestoreHost(w) \/ CreateMachine(w)
             \/ LaunchCreate(w) \/ CommandWait(w) \/ CleanupResources(w)
    BY <2>1 DEF LoadHost, RestoreHost, CreateMachine, LaunchCreate, CommandWait,
       CleanupResources
  <2>2. CASE ArchiveConfig(w) \/ SaveConfig(w)
    BY <2>2 DEF ArchiveConfig, SaveConfig
  <2>3. CASE ReachDocker(w) \/ CreateContainer(w) \/ StartContainer(w)
    BY <2>3 DEF ReachDocker, CreateContainer, StartContainer
  <2>4. CASE FindAgent(w) \/ AwaitAgent(w) \/ TouchStamp(w)
    BY <2>4 DEF FindAgent, AwaitAgent, TouchStamp
  <2>5. CASE FinalReply(w)
    BY <2>5 DEF FinalReply, PublishReply
  <2>6. CASE HandlerReturns(w)
    BY <2>6 DEF HandlerReturns, RemoveHostDir, DiskType
  <2> QED
    BY <1>1, <2>1, <2>2, <2>3, <2>4, <2>5, <2>6 DEF Provision
<1>2. CASE Purge(w) \/ ErrorReply(w)
  BY <1>2 DEF Purge, CheckRemoveCache, LoadHost, RestoreToPurge, DeleteMachine, ErrorReply
<1> QED
  BY <1>1, <1>2 DEF OwnStep

\* StampKnown is inductive.
LEMMA StampStep ==
  ASSUME Quiet, Known, NoPanic', ManageInv, [Next]_vars PROVE StampKnown'
<1>t. TypeOK /\ PositionType /\ CattleType /\ DiskType /\ LabelsMatch /\ CoreInv
  BY DEF Known, CoreInv, TypeOK, OrderInv
<1> SUFFICES ASSUME NEW h \in Hosts, stamp'[h]
             PROVE  \/ RemoveOnly(h)'
                    \/ \E w \in Workers : pc'[w] \in Stamped /\ at'[w] = h
  BY DEF StampKnown
<1>1. CASE RemoveOnly(h)
  BY <1>1, <1>t, RemoveOnlyForGood
<1>2. CASE \E w \in Workers : Holds(w) /\ at[w] = h /\ event[w] = "remove"
  BY <1>1, <1>2 DEF Known, OrderInv, RemovalAlone
<1>3. ASSUME stamp[h], NEW w \in Workers, pc[w] \in Stamped, at[w] = h
      PROVE  \E u \in Workers : pc'[u] \in Stamped /\ at'[u] = h
  <2>1. Holds(w)
    BY <1>3 DEF Stamped, Holds
  <2>2. CASE Unmoved(w)
    BY <1>3, <2>2 DEF Unmoved
  <2>3. CASE OwnStep(w)
    <3>1. pc'[w] # "panic"
      BY DEF NoPanic
    <3> QED
      BY <1>3, <2>3, <3>1, <1>t, StampHeld
  <2> QED
    BY <2>1, <2>2, <2>3, <1>t, QuietMoves DEF Known
<1>4. CASE ~stamp[h]
  BY <1>2, <1>4, <1>t, StampSet
<1> QED
  BY <1>1, <1>3, <1>4 DEF ManageInv, StampKnown

\* A provisioning that starts finds no stamp, so it never answers before it has
\* created a machine.
LEMMA NoShortCut ==
  ASSUME CoreInv, OrderInv, StampKnown, NEW w \in Workers, pc[w] = "create"
  PROVE  ~stamp[at[w]]
<1>1. /\ Holds(w) /\ Busy(w) /\ event[w] = "provision" /\ at[w] \in Hosts
  BY DEF Holds, Busy, OrderInv, LabelsMatch, ProvisionAt, CoreInv, TypeOK, PositionType
<1>2. ~RemoveOnly(at[w])
  BY <1>1 DEF RemoveOnly
<1>3. ASSUME NEW u \in Workers, pc[u] \in Stamped, at[u] = at[w] PROVE FALSE
  <2>1. u = w
    BY <1>1, <1>3, AloneAtHost DEF Stamped
  <2> QED
    BY <1>3, <2>1 DEF Stamped
<1> QED
  BY <1>1, <1>2, <1>3 DEF StampKnown

-----------------------------------------------------------------------------
(***************************************************************************)
(* The machine and the agent behind a provisioning that goes on.           *)
(***************************************************************************)
\* How a handler comes to a label past ReachDocker.
LEMMA ReachStep ==
  ASSUME PositionType, LabelsMatch, NEW w \in Workers, OwnStep(w),
         \/ pc'[w] \in Attached
         \/ pc'[w] = "reply" /\ event'[w] = "provision"
  PROVE  /\ UNCHANGED <<live, saved, at, event>>
         /\ pc[w] \in Attached \/ (pc[w] = "register" /\ Machine(w) \in live)
         /\ pc'[w] = "touch" => at[w] \in agentId
         /\ pc'[w] = "reply" => pc[w] = "touch"
<1> USE DEF Goto, Attached, PositionType
<1>1. CASE Provision(w)
  <2>1. CASE LoadHost(w, "getHost", "restore") \/ RestoreHost(w) \/ CreateMachine(w)
    BY <2>1 DEF LoadHost, RestoreHost, CreateMachine, PublishReply
  <2>2. CASE LaunchCreate(w) \/ CommandWait(w) \/ CleanupResources(w)
    BY <2>2 DEF LaunchCreate, CommandWait, CleanupResources
  <2>3. CASE ArchiveConfig(w) \/ SaveConfig(w) \/ FinalReply(w)
    BY <2>3 DEF ArchiveConfig, SaveConfig, FinalReply, PublishReply
  <2>4. CASE ReachDocker(w)
    BY <2>4 DEF ReachDocker, cattle, cloud
  <2>5. CASE CreateContainer(w) \/ StartContainer(w)
    BY <2>5 DEF CreateContainer, StartContainer, cattle
  <2>6. CASE FindAgent(w)
    BY <2>6 DEF FindAgent, cattle, cloud
  <2>7. CASE AwaitAgent(w)
    BY <2>7 DEF AwaitAgent, cattle
  <2>8. CASE TouchStamp(w)
    BY <2>8 DEF TouchStamp, cattle, cloud
  <2>9. CASE HandlerReturns(w)
    BY <2>9 DEF HandlerReturns, Finish
  <2> QED
    BY <1>1, <2>1, <2>2, <2>3, <2>4, <2>5, <2>6, <2>7, <2>8, <2>9 DEF Provision
<1>2. CASE Purge(w) \/ ErrorReply(w)
  <2>1. CASE DeleteMachine(w)
    BY <2>1 DEF DeleteMachine, LabelsMatch, PurgeAt
  <2> QED
    BY <1>2, <2>1 DEF Purge, CheckRemoveCache, LoadHost, RestoreToPurge, ErrorReply, Finish
<1> QED
  BY <1>1, <1>2 DEF OwnStep

\* While w, which is about to remove nothing, has the lock of its host, the
\* machines of the host live on.
LEMMA LiveUnderLock ==
  ASSUME CoreInv, [Next]_vars, NEW w \in Workers, Holds(w),
         pc[w] \notin {"cleanup", "delete"}, NEW v \in live, owner[v] = at[w]
  PROVE  v \in live'
<1>1. at[w] \in Hosts
  BY DEF CoreInv, TypeOK, PositionType, Busy, Holds
<1>2. ASSUME NEW u \in Workers, at[u] = at[w], pc[u] \in {"cleanup", "delete"} PROVE FALSE
  BY <1>2, AloneAtHost
<1> QED
  BY <1>1, <1>2, LiveStays

\* Reached and AgentKnown are inductive.
LEMMA ReachedStep ==
  ASSUME Quiet, Known, ManageInv, [Next]_vars PROVE Reached' /\ AgentKnown'
<1>t. TypeOK /\ PositionType /\ CattleType /\ CloudType /\ LabelsMatch /\ CoreInv /\ NoPanic
  BY DEF Known, CoreInv, TypeOK, OrderInv
<1>l. NoVM \notin live
  BY <1>t, ConstantsAssumption DEF CloudType
<1>1. ASSUME NEW w \in Workers, Holds(w)',
             \/ pc'[w] \in Attached
             \/ pc'[w] = "reply" /\ event'[w] = "provision"
      PROVE  /\ saved'[at'[w]] \in live'
             /\ pc'[w] \in {"touch", "reply"} => at'[w] \in agentId'
  <2>1. CASE Unmoved(w)
    <3>1. /\ pc[w] \in Attached \/ Provisioned(w)
          /\ at'[w] = at[w] /\ pc'[w] = pc[w] /\ Holds(w)
      BY <1>1, <2>1 DEF Unmoved, Provisioned, Holds, Attached
    <3>2. saved[at[w]] \in live /\ at[w] \in Hosts
      BY <3>1, <1>t DEF ManageInv, Reached, PositionType, Busy, Holds
    <3>3. saved'[at[w]] = saved[at[w]]
      BY <3>2, <1>l, <1>t, SavedForGoodStep
    <3>4. owner[saved[at[w]]] = at[w]
      BY <3>2, <1>l, <1>t DEF CoreInv, DataInv, OwnMachinesOnly
    <3>5. saved[at[w]] \in live'
      BY <3>1, <3>2, <3>4, <1>t, LiveUnderLock DEF Attached, Provisioned
    <3>6. pc[w] \in {"touch", "reply"} => at[w] \in agentId
      BY <3>1 DEF ManageInv, AgentKnown, Attached, Provisioned
    <3> QED
      BY <3>1, <3>3, <3>5, <3>6, AgentStays
  <2>2. CASE OwnStep(w)
    <3>1. /\ UNCHANGED <<live, saved, at, event>>
          /\ pc[w] \in Attached \/ (pc[w] = "register" /\ Machine(w) \in live)
          /\ pc'[w] = "touch" => at[w] \in agentId
          /\ pc'[w] = "reply" => pc[w] = "touch"
      BY <1>1, <2>2, <1>t, ReachStep
    <3>2. CASE pc[w] \in Attached
      BY <3>1, <3>2, AgentStays DEF ManageInv, Reached, AgentKnown, Attached
    <3>3. CASE pc[w] = "register" /\ Machine(w) \in live
      <4>1. store[at[w]] \in {NoVM, saved[at[w]]}
        BY <3>3, <1>t, NothingListed DEF Known, RecoverInv, Holds, Tries
      <4> QED
        BY <3>1, <3>3, <4>1, <1>l, AgentStays DEF Machine
    <3> QED
      BY <3>1, <3>2, <3>3
  <2>3. pc'[w] \notin {"idle", "lock", "getHost", "purge"}
    BY <1>1 DEF Attached
  <2> QED
    BY <2>1, <2>2, <2>3, <1>t, WorkerMoves
<1>2. Reached'
  BY <1>1 DEF Reached, Attached, Provisioned, Holds
<1>3. AgentKnown'
  BY <1>1 DEF AgentKnown, Attached, Provisioned, Holds
<1> QED
  BY <1>2, <1>3

\* How a handler comes to record a machine.
LEMMA BuiltStep ==
  ASSUME Quiet, Known, ManageInv, [Next]_vars PROVE Built'
<1>t. TypeOK /\ PositionType /\ CloudType /\ CoreInv /\ NoPanic
  BY DEF Known, CoreInv, TypeOK
<1>l. NoVM \notin live
  BY <1>t, ConstantsAssumption DEF CloudType
<1> SUFFICES ASSUME NEW w \in Workers, pc'[w] \in {"archive", "save"}
             PROVE  store'[at'[w]] \in live'
  BY DEF Built
<1>1. CASE Unmoved(w)
  <2>1. /\ pc[w] \in {"archive", "save"} /\ Holds(w) /\ pc'[w] = pc[w]
        /\ at'[w] = at[w] /\ at[w] \in Hosts /\ store[at[w]] \in live
    BY <1>1, <1>t DEF Unmoved, Holds, Busy, PositionType, ManageInv, Built
  <2>2. owner[store[at[w]]] = at[w]
    BY <2>1, <1>l, <1>t DEF CoreInv, DataInv, OwnMachinesOnly
  <2>3. store[at[w]] \in live'
    BY <2>1, <2>2, <1>t, LiveUnderLock
  <2>4. ~Restart
    BY <2>1 DEF Restart
  <2>5. ~ \E u \in Workers : /\ Holds(u) /\ at[u] = at[w]
                             /\ pc[u] = "dmCreate" \/ pc'[u] # pc[u]
    BY <2>1, <1>t, AloneAtHost DEF Holds
  <2>6. store'[at[w]] = store[at[w]]
    BY <2>1, <2>4, <2>5, <1>t, StoreMoves
  <2> QED
    BY <2>1, <2>3, <2>6
<1>2. CASE OwnStep(w)
  <2>1. CommandWait(w) \/ ArchiveConfig(w)
    BY <1>2, <1>t DEF OwnStep, Provision, Purge, LoadHost, RestoreHost, CreateMachine,
       PublishReply, LaunchCreate, CleanupResources, SaveConfig, ReachDocker,
       CreateContainer, StartContainer, FindAgent, AwaitAgent, TouchStamp, FinalReply,
       HandlerReturns, Finish, CheckRemoveCache, RestoreToPurge, DeleteMachine,
       ErrorReply, Goto, PositionType
  <2>2. UNCHANGED <<live, store, at>>
    BY <2>1 DEF CommandWait, ArchiveConfig, cloud, disk
  <2>3. CASE CommandWait(w)
    <3>1. pc[w] = "dmCreate" /\ made[w] \in live
      BY <2>3, <1>t DEF CommandWait, Goto, PositionType
    <3>2. store[at[w]] = made[w]
      BY <3>1, <1>l DEF Known, RecoverInv, MadeListed
    <3> QED
      BY <2>2, <3>1, <3>2
  <2>4. CASE ArchiveConfig(w)
    BY <2>2, <2>4 DEF ArchiveConfig, ManageInv, Built
  <2> QED
    BY <2>1, <2>3, <2>4
<1> QED
  BY <1>1, <1>2, <1>t, WorkerMoves

\* A host becomes active by the reply to host.provision, which changes nothing
\* else.
LEMMA BecomesActive ==
  ASSUME TypeOK, LabelsMatch, [Next]_vars, NEW h \in Hosts,
         state[h] # "active", state'[h] = "active"
  PROVE  \E w \in Workers : /\ at[w] = h
                            /\ Provisioned(w) \/ (pc[w] = "create" /\ stamp[at[w]])
                            /\ UNCHANGED <<saved, live, agentId>>
<1>t. PositionType /\ CattleType
  BY DEF TypeOK
<1> USE DEF cattle, cloud
<1>1. ASSUME NEW w \in Workers, Provision(w) \/ Purge(w) \/ ErrorReply(w)
      PROVE  CreateMachine(w) \/ FinalReply(w) \/ CheckRemoveCache(w) \/ ErrorReply(w)
  BY <1>1 DEF Provision, Purge, LoadHost, RestoreHost, LaunchCreate, CommandWait,
     CleanupResources, ArchiveConfig, SaveConfig, ReachDocker, CreateContainer,
     StartContainer, FindAgent, AwaitAgent, TouchStamp, HandlerReturns, RestoreToPurge,
     DeleteMachine
<1>2. ASSUME NEW w \in Workers, DeliverReply(w)
      PROVE  at[w] = h /\ event[w] = "provision"
  BY <1>2, <1>t DEF DeliverReply, Deliver, Answered, Awaits, CattleType
<1>3. ASSUME NEW w \in Workers, CreateMachine(w)
      PROVE  /\ at[w] = h /\ pc[w] = "create" /\ stamp[at[w]]
             /\ UNCHANGED <<saved, live, agentId>>
  BY <1>2, <1>3 DEF CreateMachine, PublishReply
<1>4. ASSUME NEW w \in Workers, FinalReply(w)
      PROVE  at[w] = h /\ Provisioned(w) /\ UNCHANGED <<saved, live, agentId>>
  BY <1>2, <1>4 DEF FinalReply, PublishReply, Provisioned
<1>5. ASSUME NEW w \in Workers, CheckRemoveCache(w) PROVE FALSE
  BY <1>2, <1>5 DEF CheckRemoveCache, LabelsMatch, PurgeAt
<1>6. ASSUME NEW w \in Workers, ErrorReply(w) PROVE FALSE
  BY <1>6, <1>t DEF ErrorReply, DeliverError, Deliver, Refused, CattleType
<1>7. CASE Cattle
  BY <1>7, <1>t DEF Cattle, CattleSends, UserRemoves, RecordDeleted, CattleType
<1>8. CASE Router \/ DockerMachine
  BY <1>8 DEF Router, HandleWork, Lock, DockerMachine, DockerMachineRegisters,
     DockerMachineBuilds
<1>9. CASE Docker \/ Process \/ UNCHANGED vars
  BY <1>9 DEF Docker, AgentStarts, BootstrapExits, AgentRegisters, Process, Crash,
     PanicKillsProcess, Restart, CacheExpires, vars
<1> QED
  BY <1>1, <1>3, <1>4, <1>5, <1>6, <1>7, <1>8, <1>9 DEF Next, Handler

\* ActiveIsManaged is inductive.
LEMMA ActiveStep ==
  ASSUME Quiet, Known, ManageInv, [Next]_vars PROVE ActiveIsManaged'
<1>t. TypeOK /\ PositionType /\ CloudType /\ LabelsMatch /\ CoreInv /\ OrderInv
  BY DEF Known, CoreInv, TypeOK, OrderInv
<1>l. NoVM \notin live
  BY <1>t, ConstantsAssumption DEF CloudType
<1> SUFFICES ASSUME NEW h \in Hosts, state'[h] = "active"
             PROVE  saved'[h] \in live' /\ h \in agentId'
  BY DEF ActiveIsManaged
<1>1. CASE state[h] = "active"
  <2>1. saved[h] \in live /\ h \in agentId
    BY <1>1 DEF ManageInv, ActiveIsManaged
  <2>2. saved'[h] = saved[h] /\ owner[saved[h]] = h
    BY <2>1, <1>l, <1>t, SavedForGoodStep DEF CoreInv, DataInv, OwnMachinesOnly
  <2>3. ASSUME NEW w \in Workers, at[w] = h, pc[w] \in {"cleanup", "delete"} PROVE FALSE
    <3>1. CASE pc[w] = "cleanup"
      BY <2>1, <2>3, <3>1, <1>l, <1>t DEF CoreInv, DataInv, NewHost, Creating
    <3>2. CASE pc[w] = "delete"
      BY <1>1, <2>3, <3>2, <1>t, PurgeIsAlone DEF PurgeAt, RemoveOnly, Leaving
    <3> QED
      BY <2>3, <3>1, <3>2
  <2>4. saved[h] \in live'
    BY <2>1, <2>2, <2>3, <1>t, LiveStays
  <2> QED
    BY <2>1, <2>2, <2>4, AgentStays
<1>2. CASE state[h] # "active"
  <2>1. PICK w \in Workers : /\ at[w] = h
                             /\ Provisioned(w) \/ (pc[w] = "create" /\ stamp[at[w]])
                             /\ UNCHANGED <<saved, live, agentId>>
    BY <1>2, <1>t, BecomesActive
  <2>2. Provisioned(w)
    BY <2>1, <1>t, NoShortCut DEF ManageInv, Provisioned
  <2>3. saved[h] \in live /\ h \in agentId
    BY <2>1, <2>2 DEF ManageInv, Reached, AgentKnown, Provisioned
  <2> QED
    BY <2>1, <2>3
<1> QED
  BY <1>1, <1>2

\* ManageInv, the inductive invariant behind the next theorem and the refinement,
\* holds in every reachable state when no fault of Faults may happen.
THEOREM ManageInvariant ==
  ASSUME Quiet PROVE Spec => []ManageInv
<1>1. InOrder /\ NoExpiry
  BY DEF Quiet, InOrder, NoExpiry
<1>2. Init => ManageInv
  BY DEF Init, ManageInv, StampKnown, Reached, AgentKnown, Built, ActiveIsManaged,
         Attached, Provisioned
<1>3. Known /\ NoPanic' /\ ManageInv /\ [Next]_vars => ManageInv'
  BY StampStep, ReachedStep, BuiltStep, ActiveStep DEF ManageInv
<1>4. Spec => []OrderInv
  BY <1>1, ProvisionBeforeRemoval
<1>5. Spec => []NoPanic
  BY <1>1, NoNilHost
<1>6. CoreInv /\ OrderInv /\ NoPanic /\ RecoverInv => Known
  BY DEF Known
<1> QED
  BY <1>2, <1>3, <1>4, <1>5, <1>6, CoreInvariant, RecoverInvariant, PTL DEF Spec

\* A host that Cattle calls active has a machine that exists, is recorded in
\* ExtractedConfig, and runs an agent that registered: no error return, repeated
\* event or stamp left on disk leads to the final reply of host.provision by
\* another way.
THEOREM ActiveHostsAreManaged ==
  ASSUME Quiet PROVE Spec => []ActiveIsManaged
<1>1. ManageInv => ActiveIsManaged
  BY DEF ManageInv
<1> QED
  BY <1>1, ManageInvariant, PTL

-----------------------------------------------------------------------------
(***************************************************************************)
(* The handlers keep the contract.  Each step is one of the contract's, or *)
(* changes nothing that it speaks of.                                      *)
(***************************************************************************)
SameWish == \A h \in Hosts : Wish(h)' = Wish(h)
SameFate == \A v \in VMs : Fate(v)' = Fate(v)

\* Only the state of a host tells its wish.
LEMMA WishOfState ==
  ASSUME state' = state PROVE SameWish
BY DEF SameWish, Wish

\* Four things tell the fate of a machine.
LEMMA FateOfMachine ==
  ASSUME UNCHANGED <<owner, saved, live, store>> PROVE SameFate
BY DEF SameFate, Fate

\* The contract sees no step when no wish and no fate changes.
LEMMA NothingSeen ==
  ASSUME SameWish, SameFate, owner' = owner
  PROVE  UNCHANGED Contract!contractVars
BY DEF SameWish, SameFate, Contract!contractVars

\* The contract sees one machine move.
LEMMA OneMachineMoves ==
  ASSUME NEW v \in VMs, \A u \in VMs \ {v} : Fate(u)' = Fate(u)
  PROVE  Contract!Becomes(v, Fate(v), Fate(v)')
BY DEF Contract!Becomes

\* The contract sees one host move.
LEMMA OneHostMoves ==
  ASSUME NEW h \in Hosts, \A g \in Hosts \ {h} : Wish(g)' = Wish(g)
  PROVE  [g \in Hosts |-> Wish(g)]' = [[g \in Hosts |-> Wish(g)] EXCEPT ![h] = Wish(h)']
OBVIOUS

\* At first nothing is wanted gone and no machine is born.
LEMMA ContractInit ==
  ASSUME Init PROVE Contract!Init
BY DEF Init, Contract!Init, Wish, Fate

\* "docker-machine create" registers a machine: Try.
LEMMA RegistersTries ==
  ASSUME Known, NEW w \in Workers, DockerMachineRegisters(w)
  PROVE  \E v \in VMs, h \in Hosts : Contract!Try(v, h)
<1>t. /\ PositionType /\ CattleType /\ CloudType /\ DiskType
      /\ CoreInv /\ OrderInv /\ RecoverInv
  BY DEF Known, CoreInv, TypeOK
<1>c. NoVM \notin VMs /\ NoHost \notin Hosts
  BY ConstantsAssumption
<1> DEFINE h == at[w]
<1>1. PICK v \in VMs : /\ owner[v] = NoHost
                       /\ owner' = [owner EXCEPT ![v] = h]
                       /\ store' = [store EXCEPT ![h] = v]
  BY DEF DockerMachineRegisters
<1>2. /\ UNCHANGED <<state, saved, live>> /\ pc[w] = "dmCreate"
      /\ store[h] = NoVM
  BY DEF DockerMachineRegisters, Machine, cattle
<1>3. h \in Hosts /\ event[w] = "provision" /\ Busy(w) /\ saved[h] = NoVM
  BY <1>2, <1>t DEF PositionType, Busy, OrderInv, LabelsMatch, ProvisionAt, CoreInv,
     DataInv, NewHost, Creating
<1>4. Wish(h) # "removed"
  <2>1. ~RemoveOnly(h)
    BY <1>3 DEF RemoveOnly
  <2> QED
    BY <2>1, <1>3, <1>t DEF Wish, OrderInv, RemovalAlone
<1>5. \A u \in VMs : owner[u] = h => Fate(u) = "discarded"
  BY <1>2, <1>3, <1>c, <1>t DEF Fate, RecoverInv, LiveKnown
<1>6. Fate(v) = "unborn"
  BY <1>1 DEF Fate
<1>7. Fate(v)' = "trial"
  BY <1>1, <1>2, <1>3, <1>c, <1>t DEF Fate, CloudType, DiskType
<1>8. \A u \in VMs \ {v} : Fate(u)' = Fate(u)
  <2> SUFFICES ASSUME NEW u \in VMs \ {v} PROVE Fate(u)' = Fate(u)
    OBVIOUS
  <2>1. owner'[u] = owner[u]
    BY <1>1, <1>t DEF CloudType
  <2>2. \A g \in Hosts : store'[g] = u <=> store[g] = u
    BY <1>1, <1>2, <1>3, <1>c, <1>t DEF DiskType
  <2>3. owner[u] \in Hosts \cup {NoHost}
    BY <1>t DEF CloudType
  <2> QED
    BY <1>2, <2>1, <2>2, <2>3 DEF Fate
<1>9. Contract!Becomes(v, "unborn", "trial")
  BY <1>6, <1>7, <1>8, OneMachineMoves
<1>10. SameWish
  BY <1>2, WishOfState
<1>11. Contract!Try(v, h)
  BY <1>1, <1>3, <1>4, <1>5, <1>9, <1>10 DEF Contract!Try, SameWish
<1> QED
  BY <1>3, <1>11

\* The machine is built: it was on trial and still is.
LEMMA BuildsTries ==
  ASSUME Known, NEW w \in Workers, DockerMachineBuilds(w)
  PROVE  SameFate
<1>t. PositionType /\ CoreInv /\ RecoverInv
  BY DEF Known, CoreInv, TypeOK
<1>1. /\ UNCHANGED <<owner, saved, store>> /\ live' = live \cup {made[w]}
      /\ pc[w] = "dmCreate" /\ made[w] # NoVM
  BY DEF DockerMachineBuilds, cattle, disk
<1>2. /\ owner[made[w]] = at[w] /\ at[w] \in Hosts
      /\ store[at[w]] = made[w] /\ saved[at[w]] # made[w]
  BY <1>1, <1>t DEF PositionType, Busy, CoreInv, DataInv, MadeOwned, NewHost, Creating,
     RecoverInv, MadeListed
<1> SUFFICES ASSUME NEW v \in VMs PROVE Fate(v)' = Fate(v)
  BY DEF SameFate
<1>3. CASE v = made[w]
  BY <1>1, <1>2, <1>3 DEF Fate
<1>4. CASE v # made[w]
  BY <1>1, <1>4 DEF Fate
<1> QED
  BY <1>3, <1>4

\* A directory that lists nothing, or what is recorded, tells no fate.
LEMMA DirectoryTellsNothing ==
  ASSUME CoreInv, NEW h \in Hosts, UNCHANGED <<owner, saved, live>>,
         store[h] \in {NoVM, saved[h]}, store'[h] \in {NoVM, saved[h]},
         \A g \in Hosts \ {h} : store'[g] = store[g]
  PROVE  SameFate
<1> SUFFICES ASSUME NEW v \in VMs PROVE Fate(v)' = Fate(v)
  BY DEF SameFate
<1>1. v # NoVM /\ owner[v] \in Hosts \cup {NoHost}
  BY ConstantsAssumption DEF CoreInv, TypeOK, CloudType
<1>2. CASE owner[v] = h
  BY <1>1, <1>2 DEF Fate
<1>3. CASE owner[v] # h
  BY <1>1, <1>3 DEF Fate
<1> QED
  BY <1>2, <1>3

\* cleanupResources: Discard.
LEMMA CleanupDiscards ==
  ASSUME Quiet, Known, NEW w \in Workers, CleanupResources(w)
  PROVE  SameFate \/ \E v \in VMs : Contract!Discard(v)
<1>t. /\ PositionType /\ CattleType /\ CloudType /\ DiskType
      /\ CoreInv /\ OrderInv /\ RecoverInv
  BY DEF Known, CoreInv, TypeOK
<1>c. NoVM \notin VMs /\ NoHost \notin Hosts
  BY ConstantsAssumption
<1> DEFINE h == at[w]
<1>1. /\ UNCHANGED <<state, saved, owner>> /\ pc[w] = "cleanup"
      /\ \/ UNCHANGED <<live, store>>
         \/ /\ store[h] # NoVM /\ live' = live \ {store[h]}
            /\ store' = [store EXCEPT ![h] = NoVM]
  BY DEF CleanupResources, RemoveMachine, Machine, Quiet, cattle, disk
<1>2. h \in Hosts /\ saved[h] = NoVM
  BY <1>1, <1>t DEF PositionType, Busy, CoreInv, DataInv, NewHost, Creating
<1>3. CASE UNCHANGED <<live, store>>
  BY <1>1, <1>3, FateOfMachine
<1>4. CASE /\ store[h] # NoVM /\ live' = live \ {store[h]}
          /\ store' = [store EXCEPT ![h] = NoVM]
  <2>1. PICK v \in VMs : v = store[h] /\ owner[v] = h
    BY <1>2, <1>4, <1>t DEF DiskType, CoreInv, DataInv, OwnMachinesOnly
  <2>2. Fate(v) = "trial" /\ Fate(v)' = "discarded"
    BY <1>1, <1>2, <1>4, <2>1, <1>c, <1>t DEF Fate, DiskType
  <2>3. \A u \in VMs \ {v} : Fate(u)' = Fate(u)
    <3> SUFFICES ASSUME NEW u \in VMs \ {v} PROVE Fate(u)' = Fate(u)
      OBVIOUS
    <3>1. u # NoVM /\ owner[u] \in Hosts \cup {NoHost}
      BY <1>c, <1>t DEF CloudType
    <3>2. \A g \in Hosts : store'[g] = u <=> store[g] = u
      BY <1>2, <1>4, <2>1, <3>1, <1>t DEF DiskType
    <3> QED
      BY <1>1, <1>4, <2>1, <3>1, <3>2 DEF Fate
  <2>4. Contract!Becomes(v, "trial", "discarded")
    BY <2>1, <2>2, <2>3, OneMachineMoves
  <2>5. SameWish
    BY <1>1, WishOfState
  <2>6. Contract!Discard(v)
    BY <1>1, <2>4, <2>5 DEF Contract!Discard, SameWish
  <2> QED
    BY <2>1, <2>6
<1> QED
  BY <1>1, <1>3, <1>4

\* The save loop of createMachine: Keep.
LEMMA SaveKeeps ==
  ASSUME Quiet, Known, ManageInv, NEW w \in Workers, SaveConfig(w)
  PROVE  SameFate \/ \E v \in VMs : Contract!Keep(v)
<1>t. /\ PositionType /\ CattleType /\ CloudType /\ DiskType
      /\ CoreInv /\ OrderInv /\ RecoverInv
  BY DEF Known, CoreInv, TypeOK
<1>c. NoVM \notin VMs /\ NoHost \notin Hosts
  BY ConstantsAssumption
<1> DEFINE h == at[w]
<1>1. /\ UNCHANGED <<state, live, store, owner>> /\ pc[w] = "save"
      /\ \/ UNCHANGED saved
         \/ saved' = [saved EXCEPT ![h] = store[h]]
  BY DEF SaveConfig, Machine, cloud, disk
<1>2. h \in Hosts /\ saved[h] = NoVM /\ store[h] \in live
  BY <1>1, <1>t DEF PositionType, Busy, CoreInv, DataInv, NewHost, Creating, ManageInv, Built
<1>3. CASE UNCHANGED saved
  BY <1>1, <1>3, FateOfMachine
<1>4. CASE saved' = [saved EXCEPT ![h] = store[h]]
  <2>1. PICK v \in VMs : v = store[h] /\ v # NoVM /\ owner[v] = h
    BY <1>2, <1>c, <1>t DEF CloudType, CoreInv, DataInv, OwnMachinesOnly
  <2>2. Fate(v) = "trial" /\ Fate(v)' = "kept"
    BY <1>1, <1>2, <1>4, <2>1, <1>c, <1>t DEF Fate, CattleType
  <2>3. \A u \in VMs \ {v} : Fate(u)' = Fate(u)
    <3> SUFFICES ASSUME NEW u \in VMs \ {v} PROVE Fate(u)' = Fate(u)
      OBVIOUS
    <3>1. u # NoVM /\ owner[u] \in Hosts \cup {NoHost}
      BY <1>c, <1>t DEF CloudType
    <3>2. \A g \in Hosts : saved'[g] = u <=> saved[g] = u
      BY <1>2, <1>4, <2>1, <3>1, <1>t DEF CattleType
    <3> QED
      BY <1>1, <3>1, <3>2 DEF Fate
  <2>4. Contract!Becomes(v, "trial", "kept")
    BY <2>1, <2>2, <2>3, OneMachineMoves
  <2>5. SameWish
    BY <1>1, WishOfState
  <2>6. Contract!Keep(v)
    BY <1>1, <2>4, <2>5 DEF Contract!Keep, SameWish
  <2> QED
    BY <2>1, <2>6
<1> QED
  BY <1>1, <1>3, <1>4

\* deleteMachine: Destroy, of a machine that was kept and still exists.
LEMMA DeleteDestroys ==
  ASSUME Quiet, Known, NEW w \in Workers, DeleteMachine(w)
  PROVE  SameFate \/ \E v \in VMs : Contract!Destroy(v)
<1>t. /\ PositionType /\ CattleType /\ CloudType /\ DiskType
      /\ CoreInv /\ OrderInv /\ RecoverInv
  BY DEF Known, CoreInv, TypeOK
<1>c. NoVM \notin VMs /\ NoHost \notin Hosts
  BY ConstantsAssumption
<1> DEFINE h == at[w]
<1>1. /\ UNCHANGED <<state, saved, owner>> /\ pc[w] = "delete"
      /\ \/ UNCHANGED <<live, store>>
         \/ /\ store[h] # NoVM /\ live' = live \ {store[h]}
            /\ store' = [store EXCEPT ![h] = NoVM]
  BY DEF DeleteMachine, RemoveMachine, Machine, cattle, disk
<1>2. h \in Hosts /\ RemoveOnly(h) /\ Holds(w)
  BY <1>1, <1>t, PurgeIsAlone DEF PurgeAt
<1>3. store[h] \in {NoVM, saved[h]}
  BY <1>1, <1>2, <1>t, NothingListed DEF RecoverInv, Tries
<1>4. CASE UNCHANGED <<live, store>>
  BY <1>1, <1>4, FateOfMachine
<1>5. CASE /\ store[h] # NoVM /\ live' = live \ {store[h]}
          /\ store' = [store EXCEPT ![h] = NoVM]
  <2>1. PICK v \in VMs : v = store[h] /\ owner[v] = h /\ saved[h] = v
    BY <1>2, <1>3, <1>5, <1>t DEF DiskType, CoreInv, DataInv, OwnMachinesOnly
  <2>2. \A u \in VMs \ {v} : Fate(u)' = Fate(u)
    <3> SUFFICES ASSUME NEW u \in VMs \ {v} PROVE Fate(u)' = Fate(u)
      OBVIOUS
    <3>1. u # NoVM /\ owner[u] \in Hosts \cup {NoHost}
      BY <1>c, <1>t DEF CloudType
    <3>2. \A g \in Hosts : store'[g] = u <=> store[g] = u
      BY <1>2, <1>5, <2>1, <3>1, <1>t DEF DiskType
    <3> QED
      BY <1>1, <1>5, <2>1, <3>1, <3>2 DEF Fate
  <2>3. Fate(v)' = "destroyed"
    BY <1>1, <1>2, <1>5, <2>1, <1>c DEF Fate
  <2>4. CASE v \notin live
    <3>1. Fate(v) = "destroyed"
      BY <1>2, <2>1, <2>4, <1>c DEF Fate
    <3> QED
      BY <2>2, <2>3, <3>1 DEF SameFate
  <2>5. CASE v \in live
    <3>1. Fate(v) = "kept"
      BY <1>2, <2>1, <2>5, <1>c DEF Fate
    <3>2. Contract!Becomes(v, "kept", "destroyed")
      BY <2>1, <2>2, <2>3, <3>1, OneMachineMoves
    <3>3. SameWish
      BY <1>1, WishOfState
    <3>4. Wish(owner[v]) # "wanted"
      BY <1>2, <2>1 DEF RemoveOnly, Leaving, Wish
    <3>5. Contract!Destroy(v)
      BY <1>1, <1>2, <2>1, <3>2, <3>3, <3>4 DEF Contract!Destroy, SameWish
    <3> QED
      BY <2>1, <3>5
  <2> QED
    BY <2>4, <2>5
<1> QED
  BY <1>1, <1>4, <1>5

\* A directory is restored from what is recorded, and removed when it lists
\* nothing else: neither tells a fate.
LEMMA DirectoriesHide ==
  ASSUME Quiet, Known, NEW w \in Workers,
         RestoreHost(w) \/ RestoreToPurge(w) \/ HandlerReturns(w)
  PROVE  SameFate
<1>t. PositionType /\ DiskType /\ CoreInv /\ RecoverInv
  BY DEF Known, CoreInv, TypeOK
<1>1. /\ UNCHANGED <<owner, saved, live>>
      /\ pc[w] \in {"restore", "restoreToPurge", "returnOk", "returnErr"}
      /\ \A g \in Hosts :
            \/ store'[g] = store[g]
            \/ g = at[w] /\ ((pc[w] \in Restoring /\ store'[g] = cfg[w]) \/ store'[g] = NoVM)
  BY <1>t DEF RestoreHost, RestoreToPurge, HandlerReturns, Extract, ExtractInPart,
     RemoveHostDir, Restoring, DiskType, cattle, cloud, disk
<1>2. store[at[w]] \in {NoVM, saved[at[w]]} /\ at[w] \in Hosts
  BY <1>1, <1>t, NothingListed DEF RecoverInv, Holds, Tries
<1>3. pc[w] \in Restoring => cfg[w] = saved[at[w]]
  BY <1>t DEF CoreInv, DataInv, CfgSaved
<1>4. store'[at[w]] \in {NoVM, saved[at[w]]}
  BY <1>1, <1>2, <1>3
<1> QED
  BY <1>1, <1>2, <1>4, <1>t, DirectoryTellsNothing

\* A step that changes no host's state, as the contract sees it.
FateStep ==
    \/ SameFate /\ owner' = owner
    \/ \E v \in VMs : Contract!Keep(v) \/ Contract!Discard(v) \/ Contract!Destroy(v)
    \/ \E v \in VMs, h \in Hosts : Contract!Try(v, h)

\* Whatever the step, machines move as the contract allows.
LEMMA FateMoves ==
  ASSUME Quiet, Known, ManageInv, [Next]_vars PROVE FateStep
<1>t. PositionType
  BY DEF Known, CoreInv, TypeOK
<1> USE DEF FateStep
<1>1. ASSUME NEW w \in Workers, OwnStep(w) PROVE FateStep
  <2>1. CASE CarryOn(w) \/ LeaveOff(w) \/ Reads(w)
    BY <2>1, FateOfMachine DEF CarryOn, LeaveOff, Reads, LoadHost, cattle, cloud, disk
  <2>2. CASE RestoreHost(w) \/ RestoreToPurge(w) \/ HandlerReturns(w)
    BY <2>2, DirectoriesHide DEF RestoreHost, RestoreToPurge, HandlerReturns, cloud
  <2>3. CASE CleanupResources(w) \/ SaveConfig(w) \/ DeleteMachine(w)
    BY <2>3, CleanupDiscards, SaveKeeps, DeleteDestroys
       DEF CleanupResources, SaveConfig, DeleteMachine, cloud
  <2> QED
    BY <1>1, <2>1, <2>2, <2>3, <1>t, HandlerEffect DEF OwnStep
<1>2. CASE Router
  BY <1>2, FateOfMachine DEF Router, HandleWork, Lock, cattle, cloud, disk
<1>3. CASE DockerMachine
  BY <1>3, RegistersTries, BuildsTries DEF DockerMachine, DockerMachineBuilds
<1>4. CASE Cattle \/ Docker \/ (\E h \in Hosts : CacheExpires(h)) \/ UNCHANGED vars
  BY <1>4, OutsideEffect, FateOfMachine
<1>5. ~Crash /\ ~PanicKillsProcess
  BY DEF Crash, PanicKillsProcess, Known, Quiet, NoPanic
<1> QED
  BY <1>1, <1>2, <1>3, <1>4, <1>5 DEF Next, Handler, Process, OwnStep

\* Who moves a host touches no machine.
LEMMA StateMovesAlone ==
  ASSUME [Next]_vars PROVE UNCHANGED state \/ UNCHANGED <<owner, saved, live, store>>
<1> USE DEF cattle, cloud, disk
<1>1. ASSUME NEW w \in Workers, Provision(w) \/ Purge(w) \/ ErrorReply(w)
      PROVE  \/ UNCHANGED state
             \/ CreateMachine(w) \/ FinalReply(w) \/ CheckRemoveCache(w) \/ ErrorReply(w)
  BY <1>1 DEF Provision, Purge, LoadHost, RestoreHost, LaunchCreate, CommandWait,
     CleanupResources, ArchiveConfig, SaveConfig, ReachDocker, CreateContainer,
     StartContainer, FindAgent, AwaitAgent, TouchStamp, HandlerReturns, RestoreToPurge,
     DeleteMachine
<1>2. ASSUME NEW w \in Workers,
             CreateMachine(w) \/ FinalReply(w) \/ CheckRemoveCache(w) \/ ErrorReply(w)
      PROVE  UNCHANGED <<owner, saved, live, store>>
  BY <1>2 DEF CreateMachine, FinalReply, CheckRemoveCache, ErrorReply
<1>3. CASE Cattle
  BY <1>3, OutsideEffect
<1>4. CASE Router \/ DockerMachine
  BY <1>4 DEF Router, HandleWork, Lock, DockerMachine, DockerMachineRegisters,
     DockerMachineBuilds
<1>5. CASE Docker \/ Process \/ UNCHANGED vars
  BY <1>5 DEF Docker, AgentStarts, BootstrapExits, AgentRegisters, Process, Crash,
     PanicKillsProcess, Restart, CacheExpires, vars
<1> QED
  BY <1>1, <1>2, <1>3, <1>4, <1>5 DEF Next, Handler

\* Before the reply to host.remove every machine of the host has come to its end.
LEMMA AnsweredIsSettled ==
  ASSUME Known, RemovedHasNoVM', UNCHANGED <<owner, saved, live, store>>,
         NEW w \in Workers, Holds(w), event[w] = "remove", state'[at[w]] = "removed"
  PROVE  Contract!Settled(at[w])
<1>t. PositionType /\ CoreInv /\ OrderInv /\ RecoverInv
  BY DEF Known, CoreInv, TypeOK
<1>1. RemoveOnly(at[w]) /\ at[w] \in Hosts
  BY <1>t, PurgeIsAlone
<1>2. \A v \in live : owner[v] # at[w]
  BY <1>1 DEF RemovedHasNoVM
<1>3. store[at[w]] \in {NoVM, saved[at[w]]}
  <2>1. ASSUME NEW u \in Workers, pc[u] \in Tries, at[u] = at[w] PROVE FALSE
    BY <1>1, <2>1, <1>t
       DEF OrderInv, LabelsMatch, ProvisionAt, Tries, RemoveOnly, Busy
  <2> QED
    BY <1>1, <2>1, <1>t DEF RecoverInv, StoreKnown
<1> SUFFICES ASSUME NEW v \in VMs, owner[v] = at[w]
             PROVE  Fate(v) \in {"discarded", "destroyed"}
  BY DEF Contract!Settled
<1>4. v # NoVM /\ owner[v] # NoHost /\ v \notin live
  BY <1>1, <1>2, ConstantsAssumption
<1> QED
  BY <1>3, <1>4 DEF Fate

\* Whatever the step, hosts move as the contract allows.
LEMMA WishMoves ==
  ASSUME Quiet, Known, RemovedHasNoVM', [Next]_vars
  PROVE  SameWish \/ \E h \in Hosts : Contract!Leave(h) \/ Contract!Remove(h)
<1>t. PositionType /\ CattleType
  BY DEF Known, CoreInv, TypeOK
<1>1. CASE UNCHANGED state
  BY <1>1, WishOfState
<1>2. ASSUME UNCHANGED <<owner, saved, live, store>>,
             NEW w \in Workers, Replies(w)
      PROVE  SameWish \/ (Contract!Remove(at[w]) /\ at[w] \in Hosts)
  <2>1. /\ Holds(w) /\ at[w] \in Hosts
        /\ state' = [state EXCEPT ![at[w]] = Answered(state[at[w]], event[w])]
    BY <1>2, <1>t DEF Replies, PositionType, Busy, Holds
  <2>2. CASE state[at[w]] = "removing" /\ event[w] = "remove"
    <3>1. state'[at[w]] = "removed"
      BY <2>1, <2>2, <1>t DEF Answered, Awaits, CattleType
    <3>2. Contract!Settled(at[w])
      BY <1>2, <2>1, <2>2, <3>1, AnsweredIsSettled
    <3>3. PICK h \in Hosts : h = at[w]
      BY <2>1
    <3>4. Wish(h) = "leaving" /\ Wish(h)' = "removed"
      BY <2>2, <3>1, <3>3 DEF Wish
    <3>5. \A g \in Hosts \ {h} : Wish(g)' = Wish(g)
      BY <2>1, <3>3, <1>t DEF Wish, CattleType
    <3>6. SameFate
      BY <1>2, FateOfMachine
    <3>7. Contract!Remove(h)
      BY <1>2, <3>2, <3>3, <3>4, <3>5, <3>6, OneHostMoves DEF Contract!Remove, SameFate
    <3> QED
      BY <2>1, <3>3, <3>7
  <2>3. CASE ~(state[at[w]] = "removing" /\ event[w] = "remove")
    <3>1. \/ Answered(state[at[w]], event[w]) = state[at[w]]
          \/ /\ state[at[w]] = "provisioning"
             /\ Answered(state[at[w]], event[w]) = "active"
      BY <2>3 DEF Answered, Awaits
    <3> QED
      BY <2>1, <3>1, <1>t DEF SameWish, Wish, CattleType
  <2> QED
    BY <2>2, <2>3
<1>3. ASSUME NEW w \in Workers, RepliesError(w) PROVE SameWish
  <2>1. \/ Refused(state[at[w]], event[w]) = state[at[w]]
        \/ /\ state[at[w]] = "provisioning"
           /\ Refused(state[at[w]], event[w]) = "error"
    BY DEF Refused, Awaits
  <2> QED
    BY <1>3, <2>1, <1>t DEF RepliesError, SameWish, Wish, CattleType
<1>4. ASSUME NEW h \in Hosts, UserRemoves(h) PROVE Contract!Leave(h)
  <2>1. UNCHANGED <<owner, saved, live, store>>
    BY <1>4 DEF UserRemoves, cloud, disk
  <2>2. Wish(h) = "wanted" /\ Wish(h)' = "leaving"
    BY <1>4, <1>t DEF UserRemoves, Wish, CattleType
  <2>3. \A g \in Hosts \ {h} : Wish(g)' = Wish(g)
    BY <1>4, <1>t DEF UserRemoves, Wish, CattleType
  <2>4. SameFate
    BY <2>1, FateOfMachine
  <2> QED
    BY <2>1, <2>2, <2>3, <2>4, OneHostMoves DEF Contract!Leave, SameFate
<1>5. ASSUME NEW h \in Hosts, RecordDeleted(h) PROVE SameWish
  BY <1>5, <1>t DEF RecordDeleted, SameWish, Wish, CattleType
<1> QED
  BY <1>1, <1>2, <1>3, <1>4, <1>5, StateMoves, StateMovesAlone

\* The two together: a step of the contract, or none.
LEMMA ContractStep ==
  ASSUME Quiet, Known, ManageInv, RemovedHasNoVM', [Next]_vars
  PROVE  [Contract!Next]_Contract!contractVars
<1>1. CASE \E h \in Hosts : Contract!Leave(h) \/ Contract!Remove(h)
  BY <1>1 DEF Contract!Next
<1>2. CASE SameWish
  <2>1. CASE SameFate /\ owner' = owner
    BY <1>2, <2>1, NothingSeen
  <2>2. CASE ~(SameFate /\ owner' = owner)
    BY <2>2, FateMoves DEF FateStep, Contract!Next
  <2> QED
    BY <2>1, <2>2
<1> QED
  BY <1>1, <1>2, WishMoves

\* The handlers implement MachineContract, for any number of hosts, workers and
\* machines: a host has one machine at a time, none is tried once one is kept, a
\* kept one is destroyed only for a host that is leaving, and the reply to
\* host.remove comes when every machine of the host has come to its end.
THEOREM ContractKept ==
  ASSUME Quiet PROVE Spec => KeepsContract
<1>1. InOrder /\ NoExpiry
  BY DEF Quiet, InOrder, NoExpiry
<1>2. Init => Contract!Init
  BY ContractInit
<1>3. /\ Known /\ ManageInv /\ RemovedHasNoVM' /\ [Next]_vars
      => [Contract!Next]_Contract!contractVars
  BY ContractStep
<1>4. CoreInv /\ OrderInv /\ NoPanic /\ RecoverInv => Known
  BY DEF Known
<1>5. Spec => []OrderInv
  BY <1>1, ProvisionBeforeRemoval
<1>6. Spec => []NoPanic
  BY <1>1, NoNilHost
<1> QED
  BY <1>2, <1>3, <1>4, <1>5, <1>6, CoreInvariant, RecoverInvariant, ManageInvariant,
     RemovalLeavesNothing, PTL DEF Spec, KeepsContract, Contract!Spec

=============================================================================
