------------------------- MODULE HostRemovalProofs --------------------------
(***************************************************************************)
(* Where the goroutines of HostLifecycle are and which locks they hold;    *)
(* type correctness; and, for any set of hosts, workers and machines:      *)
(*                                                                         *)
(* First, what holds whatever kinds of faults are admitted.  A handler     *)
(* touches no machine but those of its host, a recorded machine is never   *)
(* replaced, and a machine is created only for a host that has none        *)
(* recorded.  A step of a handler either stays inside it, with the lock,   *)
(* or leaves it; every proof begins with that distinction.  The induction  *)
(* needs more: what a handler carries (cfg, made) belongs to its host, and *)
(* a handler between "nothing was recorded" and "it is recorded" still has *)
(* nothing recorded, since no other handler of that host runs.             *)
(*                                                                         *)
(* Then what order brings, for goroutines that come to the lock in the     *)
(* order they were started and whatever else fails:                        *)
(*                                                                         *)
(*   - provisioning is over before removal begins: from the moment a       *)
(*     handler of host.remove holds the lock, no event and no goroutine of *)
(*     host.provision is left for that host, and none appears again;       *)
(*   - the machine recorded for a host is gone before the host is answered *)
(*     as removed;                                                         *)
(*   - no handler ever meets a deleted host unless an entry of removeCache *)
(*     has expired.                                                        *)
(***************************************************************************)
EXTENDS HostLifecycle, TLAPS

\* w stays in its handler: it keeps its lock and its event.
Inside(w) ==
    /\ Holds(w)
    /\ \E l \in Labels \ {"idle", "lock"} : Goto(w, l)
    /\ UNCHANGED <<locked, event, at>>

\* w is done.
Leaves(w) == Holds(w) /\ Finish(w)

\* A step that is of no worker, and changes none.
Outside == UNCHANGED <<pc, event, at, cfg, locked>>

-----------------------------------------------------------------------------
\* Every step of a handler stays inside it or leaves it.
LEMMA HandlerStep ==
  ASSUME NEW w \in Workers, Provision(w) \/ Purge(w) \/ ErrorReply(w)
  PROVE  Inside(w) \/ Leaves(w)
<1> USE DEF Inside, Leaves, Holds, Goto, Labels
<1>1. CASE Provision(w)
  <2> USE DEF service
  <2>1. CASE LoadHost(w, "getHost", "restore")
    BY <2>1 DEF LoadHost
  <2>2. CASE RestoreHost(w)
    BY <2>2 DEF RestoreHost
  <2>3. CASE CreateMachine(w)
    BY <2>3 DEF CreateMachine, PublishReply
  <2>4. CASE LaunchCreate(w)
    BY <2>4 DEF LaunchCreate
  <2>5. CASE CommandWait(w)
    BY <2>5 DEF CommandWait
  <2>6. CASE CleanupResources(w)
    BY <2>6 DEF CleanupResources
  <2>7. CASE ArchiveConfig(w)
    BY <2>7 DEF ArchiveConfig
  <2>8. CASE SaveConfig(w)
    BY <2>8 DEF SaveConfig
  <2>9. CASE ReachDocker(w)
    BY <2>9 DEF ReachDocker
  <2>10. CASE CreateContainer(w)
    BY <2>10 DEF CreateContainer
  <2>11. CASE StartContainer(w)
    BY <2>11 DEF StartContainer
  <2>12. CASE FindAgent(w)
    BY <2>12 DEF FindAgent
  <2>13. CASE AwaitAgent(w)
    BY <2>13 DEF AwaitAgent
  <2>14. CASE TouchStamp(w)
    BY <2>14 DEF TouchStamp
  <2>15. CASE FinalReply(w)
    BY <2>15 DEF FinalReply, PublishReply
  <2>16. CASE HandlerReturns(w)
    BY <2>16 DEF HandlerReturns
  <2> QED
    BY <1>1, <2>1, <2>2, <2>3, <2>4, <2>5, <2>6, <2>7, <2>8, <2>9, <2>10,
       <2>11, <2>12, <2>13, <2>14, <2>15, <2>16 DEF Provision
<1>2. CASE Purge(w)
  <2> USE DEF service
  <2>1. CASE CheckRemoveCache(w)
    BY <2>1 DEF CheckRemoveCache
  <2>2. CASE LoadHost(w, "getHostToPurge", "restoreToPurge")
    BY <2>2 DEF LoadHost
  <2>3. CASE RestoreToPurge(w)
    BY <2>3 DEF RestoreToPurge
  <2>4. CASE DeleteMachine(w)
    BY <2>4 DEF DeleteMachine
  <2> QED
    BY <1>2, <2>1, <2>2, <2>3, <2>4 DEF Purge
<1>3. CASE ErrorReply(w)
  BY <1>3 DEF ErrorReply
<1> QED
  BY <1>1, <1>2, <1>3

\* Cattle, docker-machine, docker and the clock change no worker.
LEMMA OutsideStep ==
  ASSUME \/ Cattle \/ DockerMachine \/ Docker
         \/ \E h \in Hosts : CacheExpires(h)
         \/ UNCHANGED vars
  PROVE  Outside
<1> USE DEF Outside, service, worker
<1>1. CASE Cattle
  BY <1>1 DEF Cattle, CattleSends, UserRemoves, RecordDeleted
<1>2. CASE DockerMachine
  BY <1>2 DEF DockerMachine, DockerMachineRegisters, DockerMachineBuilds
<1>3. CASE Docker
  BY <1>3 DEF Docker, AgentStarts, BootstrapExits, AgentRegisters
<1>4. CASE (\E h \in Hosts : CacheExpires(h)) \/ UNCHANGED vars
  BY <1>4 DEF CacheExpires, vars
<1> QED
  BY <1>1, <1>2, <1>3, <1>4

-----------------------------------------------------------------------------
(***************************************************************************)
(* OneHandlerPerHost, in the form the induction uses.                      *)
(***************************************************************************)
LockInv ==
    /\ \A w \in Workers : Holds(w) => at[w] \in locked
    /\ \A h \in locked : \E w \in Workers : Holds(w) /\ at[w] = h
    /\ \A u, w \in Workers : Holds(u) /\ Holds(w) /\ at[u] = at[w] => u = w

\* It says the same.
LEMMA LockInvMeans == LockInv <=> OneHandlerPerHost
BY DEF LockInv, OneHandlerPerHost

\* A worker that is busy has an event and a host, which is a host.
LEMMA PositionStep ==
  ASSUME PositionType, stream \in [Hosts -> Seq(Events)], [Next]_vars PROVE PositionType'
<1> USE DEF PositionType, Busy
<1>1. CASE Outside
  BY <1>1 DEF Outside
<1>2. ASSUME NEW h \in Hosts, HandleWork(h) PROVE PositionType'
  <2>1. CASE UNCHANGED worker
    BY <2>1 DEF worker
  <2>2. ASSUME NEW w \in Workers, StartGoroutine(w, h, Head(stream[h]))
        PROVE  PositionType'
    <3>1. Head(stream[h]) \in Events
      BY <1>2 DEF HandleWork
    <3> QED
      BY <3>1, <2>2 DEF StartGoroutine, Goto, Labels
  <2> QED
    BY <1>2, <2>1, <2>2 DEF HandleWork
<1>3. ASSUME NEW w \in Workers, Lock(w) PROVE PositionType'
  BY <1>3 DEF Lock, Goto, Labels
<1>4. ASSUME NEW w \in Workers, Inside(w) PROVE PositionType'
  BY <1>4 DEF Inside, Goto, Holds
<1>5. ASSUME NEW w \in Workers, Leaves(w) PROVE PositionType'
  BY <1>5 DEF Leaves, Finish, Labels
<1>6. CASE Restart
  BY <1>6 DEF Restart, Labels
<1> QED
  BY <1>1, <1>2, <1>3, <1>4, <1>5, <1>6, HandlerStep, OutsideStep
     DEF Next, Router, Handler, Process, Crash, PanicKillsProcess

\* Locks are taken when free and given back by those who took them.
LEMMA LockStep == PositionType /\ LockInv /\ [Next]_vars => LockInv'
<1> SUFFICES ASSUME PositionType, LockInv, [Next]_vars PROVE LockInv'
  OBVIOUS
<1>1. CASE Outside
  BY <1>1 DEF Outside, LockInv, Holds
<1>2. ASSUME NEW h \in Hosts, HandleWork(h) PROVE LockInv'
  <2>1. CASE UNCHANGED worker
    BY <1>2, <2>1 DEF HandleWork, service, worker, LockInv, Holds
  <2>2. ASSUME NEW w \in Workers, StartGoroutine(w, h, Head(stream[h]))
        PROVE  LockInv'
    BY <1>2, <2>2 DEF HandleWork, StartGoroutine, Goto, Busy, Holds, service,
                      LockInv, PositionType
  <2> QED
    BY <1>2, <2>1, <2>2 DEF HandleWork
<1>3. ASSUME NEW w \in Workers, Lock(w) PROVE LockInv'
  <2>1. CASE at[w] \in locked /\ UNCHANGED locked
    BY <1>3, <2>1 DEF Lock, Goto, Holds, LockInv, PositionType
  <2>2. CASE at[w] \notin locked
    <3>1. \A u \in Workers : Holds(u) => at[u] # at[w]
      BY <2>2 DEF LockInv
    <3>2. /\ locked' = locked \cup {at[w]}
          /\ at' = at
          /\ pc'[w] \notin {"idle", "lock"}
          /\ \A u \in Workers \ {w} : pc'[u] = pc[u]
      BY <1>3, <2>2 DEF Lock, Goto, PositionType
    <3> QED
      BY <3>1, <3>2 DEF LockInv, Holds
  <2> QED
    BY <1>3, <2>1, <2>2 DEF Lock
<1>4. ASSUME NEW w \in Workers, Inside(w) PROVE LockInv'
  BY <1>4 DEF Inside, Goto, Holds, LockInv, PositionType
<1>5. ASSUME NEW w \in Workers, Leaves(w) PROVE LockInv'
  <2>1. /\ locked' = locked \ {at[w]}
        /\ pc'[w] = "idle"
        /\ \A u \in Workers \ {w} : pc'[u] = pc[u] /\ at'[u] = at[u]
    BY <1>5 DEF Leaves, Finish, PositionType
  <2>2. \A u \in Workers \ {w} : Holds(u) => at[u] # at[w]
    BY <1>5 DEF Leaves, LockInv
  <2> QED
    BY <2>1, <2>2 DEF LockInv, Holds
<1>6. CASE Restart
  BY <1>6 DEF Restart, LockInv, Holds
<1> QED
  BY <1>1, <1>2, <1>3, <1>4, <1>5, <1>6, HandlerStep, OutsideStep
     DEF Next, Router, Handler, Process, Crash, PanicKillsProcess

-----------------------------------------------------------------------------
Creating == {"create", "launch", "dmCreate", "cleanup", "archive", "save"}

Restoring == {"restore", "restoreToPurge"}

LiveOwned == \A v \in live : owner[v] \in Hosts

MadeOwned == \A w \in Workers : made[w] # NoVM => Holds(w) /\ owner[made[w]] = at[w]

CfgSaved ==
    \A w \in Workers : /\ cfg[w] # NoVM => Holds(w) /\ cfg[w] = saved[at[w]]
                       /\ pc[w] \in Restoring => cfg[w] = saved[at[w]]

NewHost == \A w \in Workers : pc[w] \in Creating => saved[at[w]] = NoVM

DataInv == LiveOwned /\ MadeOwned /\ OwnMachinesOnly /\ CfgSaved /\ NewHost

CoreInv == TypeOK /\ LockInv /\ DataInv

-----------------------------------------------------------------------------
(***************************************************************************)
(* What a step of a handler does to machines and to what it carries.       *)
(***************************************************************************)
CarryOn(w) ==
    /\ Inside(w)
    /\ UNCHANGED <<saved, live, owner, store, cfg, made>>
    /\ pc'[w] \in Creating => pc[w] \in Creating
    /\ pc'[w] \notin Restoring

LeaveOff(w) == Leaves(w) /\ UNCHANGED <<saved, live, owner, store>>

Reads(w) == \/ LoadHost(w, "getHost", "restore")
            \/ LoadHost(w, "getHostToPurge", "restoreToPurge")

\* Every step of a handler that is none of the seven named ones changes
\* nothing that DataInv speaks of.
LEMMA HandlerEffect ==
  ASSUME NEW w \in Workers, PositionType, Provision(w) \/ Purge(w) \/ ErrorReply(w)
  PROVE  \/ CarryOn(w) \/ LeaveOff(w)
         \/ Reads(w) \/ RestoreHost(w) \/ CleanupResources(w) \/ SaveConfig(w)
         \/ HandlerReturns(w) \/ RestoreToPurge(w) \/ DeleteMachine(w)
<1>1. Inside(w) \/ Leaves(w)
  BY HandlerStep
<1> USE DEF CarryOn, LeaveOff, cloud, disk, cattle
<1>2. CASE LaunchCreate(w) \/ ArchiveConfig(w)
  BY <1>1, <1>2 DEF LaunchCreate, ArchiveConfig, Goto, Creating, Restoring, PositionType,
                    Leaves, Finish
<1>3. CASE CommandWait(w)
  BY <1>1, <1>3 DEF CommandWait, Goto, Creating, Restoring, PositionType, Leaves, Finish
<1>4. CASE ReachDocker(w) \/ FindAgent(w)
  BY <1>1, <1>4 DEF ReachDocker, FindAgent, Goto, Creating, Restoring, PositionType,
                    Leaves, Finish
<1>5. CASE CreateContainer(w) \/ StartContainer(w)
  BY <1>1, <1>5 DEF CreateContainer, StartContainer, Goto, Creating, Restoring, PositionType,
                    Leaves, Finish
<1>6. CASE AwaitAgent(w) \/ TouchStamp(w)
  BY <1>1, <1>6 DEF AwaitAgent, TouchStamp, Goto, Creating, Restoring, PositionType,
                    Leaves, Finish
<1>7. CASE CreateMachine(w) \/ FinalReply(w)
  BY <1>1, <1>7 DEF CreateMachine, FinalReply, PublishReply, Goto, Creating, Restoring,
                    PositionType, Leaves, Finish
<1>8. CASE CheckRemoveCache(w)
  <2>1. pc[w] = "purge" /\ UNCHANGED <<saved, live, owner, store>>
    BY <1>8 DEF CheckRemoveCache
  <2>2. CASE Finish(w)
    BY <2>1, <2>2 DEF Leaves, Holds
  <2>3. CASE /\ Goto(w, "getHostToPurge") \/ Goto(w, "errorReply")
             /\ UNCHANGED <<service, event, at, cfg, made>>
    BY <2>1, <2>3 DEF Inside, service, Holds, Labels, Goto, Creating, Restoring, PositionType
  <2>4. \/ Finish(w)
        \/ /\ Goto(w, "getHostToPurge") \/ Goto(w, "errorReply")
           /\ UNCHANGED <<service, event, at, cfg, made>>
    BY <1>8 DEF CheckRemoveCache
  <2> QED
    BY <2>2, <2>3, <2>4
<1>9. CASE ErrorReply(w)
  BY <1>1, <1>9 DEF ErrorReply, Leaves, Holds
<1> QED
  BY <1>2, <1>3, <1>4, <1>5, <1>6, <1>7, <1>8, <1>9
     DEF Provision, Purge, Reads

\* Cattle, docker and the clock do nothing to machines either.
LEMMA OutsideEffect ==
  ASSUME Cattle \/ Docker \/ (\E h \in Hosts : CacheExpires(h)) \/ UNCHANGED vars
  PROVE  UNCHANGED <<saved, live, owner, store, cfg, made>>
<1> USE DEF cattle, cloud, disk, worker
<1>1. CASE Cattle
  BY <1>1 DEF Cattle, CattleSends, UserRemoves, RecordDeleted
<1>2. CASE Docker
  BY <1>2 DEF Docker, AgentStarts, BootstrapExits, AgentRegisters
<1>3. CASE (\E h \in Hosts : CacheExpires(h)) \/ UNCHANGED vars
  BY <1>3 DEF CacheExpires, vars
<1> QED
  BY <1>1, <1>2, <1>3

-----------------------------------------------------------------------------
\* DataInv is inductive, given the types and the locks.
LEMMA DataStep == TypeOK /\ LockInv /\ DataInv /\ [Next]_vars => DataInv'
<1> SUFFICES ASSUME TypeOK, LockInv, DataInv, [Next]_vars PROVE DataInv'
  OBVIOUS
<1> USE DEF DataInv, LiveOwned, MadeOwned, OwnMachinesOnly, CfgSaved, NewHost
<1>t. /\ CattleType /\ CloudType /\ DiskType /\ PositionType /\ CarriedType
  BY DEF TypeOK
<1>h. \A w \in Workers : Holds(w) => at[w] \in Hosts
  BY <1>t DEF PositionType, Holds, Busy
<1>c. NoVM \notin VMs /\ NoHost \notin Hosts
  BY ConstantsAssumption
<1>1. CASE Outside /\ UNCHANGED <<saved, live, owner, store, cfg, made>>
  BY <1>1 DEF Outside, Holds
<1>2. ASSUME NEW h \in Hosts, HandleWork(h) PROVE DataInv'
  <2>1. UNCHANGED <<saved, live, owner, store, cfg, made>>
    BY <1>2 DEF HandleWork, StartGoroutine, cloud, disk, worker
  <2>2. \A w \in Workers : \/ pc'[w] = pc[w] /\ at'[w] = at[w]
                           \/ ~Holds(w) /\ pc'[w] = "lock"
    BY <1>2, <1>t DEF HandleWork, StartGoroutine, Goto, Busy, Holds, worker, PositionType
  <2> QED
    BY <2>1, <2>2 DEF Holds, Creating, Restoring
<1>3. ASSUME NEW w \in Workers, Lock(w) PROVE DataInv'
  <2>1. UNCHANGED <<saved, live, owner, store, cfg, made>>
    BY <1>3 DEF Lock, cattle, cloud, disk
  <2>2. /\ ~Holds(w)
        /\ pc'[w] \in {"idle", "getHost", "purge"}
        /\ \A u \in Workers \ {w} : pc'[u] = pc[u] /\ at'[u] = at[u]
    BY <1>3, <1>t DEF Lock, Goto, Holds, PositionType
  <2> QED
    BY <2>1, <2>2 DEF Holds, Creating, Restoring
<1>4. ASSUME NEW w \in Workers, CarryOn(w) PROVE DataInv'
  <2>1. /\ UNCHANGED <<saved, live, owner, store, cfg, made, at>>
        /\ \A u \in Workers : Holds(u)' <=> Holds(u)
        /\ \A u \in Workers \ {w} : pc'[u] = pc[u]
        /\ pc'[w] \in Creating => pc[w] \in Creating
        /\ pc'[w] \notin Restoring
    BY <1>4, <1>t DEF CarryOn, Inside, Goto, Holds, PositionType
  <2> QED
    BY <2>1
<1>5. ASSUME NEW w \in Workers, Leaves(w), UNCHANGED <<saved, live, owner>>,
             \A h \in Hosts : store'[h] \in {store[h], NoVM}
      PROVE  DataInv'
  <2>1. /\ pc'[w] = "idle" /\ cfg'[w] = NoVM /\ made'[w] = NoVM
        /\ \A u \in Workers \ {w} : /\ pc'[u] = pc[u] /\ at'[u] = at[u]
                                    /\ cfg'[u] = cfg[u] /\ made'[u] = made[u]
    BY <1>5, <1>t DEF Leaves, Finish, PositionType, CarriedType
  <2> QED
    BY <1>5, <2>1 DEF Holds, Creating, Restoring
<1>6. ASSUME NEW w \in Workers, Reads(w) PROVE DataInv'
  <2>1. /\ UNCHANGED <<saved, live, owner, store, made, at>>
        /\ Holds(w) /\ Holds(w)'
        /\ pc'[w] \notin Creating
        /\ pc'[w] \in Restoring => cfg'[w] = saved[at[w]]
        /\ cfg'[w] = cfg[w] \/ cfg'[w] = saved[at[w]]
        /\ \A u \in Workers \ {w} : pc'[u] = pc[u] /\ cfg'[u] = cfg[u]
    BY <1>6, <1>t DEF Reads, LoadHost, Goto, Holds, Creating, Restoring, PositionType, CarriedType,
                      cattle, cloud, disk
  <2> QED
    BY <2>1 DEF Holds
<1>7. ASSUME NEW w \in Workers, RestoreHost(w) \/ RestoreToPurge(w) PROVE DataInv'
  <2>1. /\ UNCHANGED <<saved, live, owner, cfg, made, at>>
        /\ Holds(w) /\ Holds(w)'
        /\ pc'[w] \notin Restoring
        /\ pc'[w] \in Creating => pc[w] = "restore" /\ cfg[w] = NoVM
        /\ \A u \in Workers \ {w} : pc'[u] = pc[u]
        /\ \A h \in Hosts : store'[h] = store[h] \/ (h = at[w] /\ store'[h] = cfg[w])
    BY <1>7, <1>t DEF RestoreHost, RestoreToPurge, Extract, ExtractInPart, Goto, Holds,
                      Creating, Restoring, PositionType, DiskType, cattle, cloud, disk
  <2> QED
    BY <2>1 DEF Holds, Restoring
<1>8. ASSUME NEW w \in Workers, CleanupResources(w) \/ DeleteMachine(w) PROVE DataInv'
  <2>1. /\ UNCHANGED <<saved, owner, cfg, made, at>>
        /\ live' \subseteq live
        /\ Holds(w) /\ Holds(w)'
        /\ pc'[w] \notin Creating /\ pc'[w] \notin Restoring
        /\ \A u \in Workers \ {w} : pc'[u] = pc[u]
        /\ \A h \in Hosts : store'[h] \in {store[h], NoVM}
    BY <1>8, <1>t DEF CleanupResources, DeleteMachine, RemoveMachine, Goto, Holds,
                      Creating, Restoring, PositionType, DiskType, cattle, disk
  <2> QED
    BY <2>1 DEF Holds
<1>9. ASSUME NEW w \in Workers, SaveConfig(w) PROVE DataInv'
  <2>1. /\ UNCHANGED <<live, owner, store, cfg, made, at>>
        /\ Holds(w) /\ Holds(w)'
        /\ pc[w] = "save"
        /\ pc'[w] \notin Creating /\ pc'[w] \notin Restoring
        /\ \A u \in Workers \ {w} : pc'[u] = pc[u]
        /\ saved' = saved \/ saved' = [saved EXCEPT ![at[w]] = store[at[w]]]
    BY <1>9, <1>t DEF SaveConfig, Machine, Goto, Holds, Creating, Restoring,
                      PositionType, cloud, disk
  <2>2. \A u \in Workers \ {w} : Holds(u) => at[u] # at[w]
    BY <2>1 DEF LockInv
  <2>3. cfg[w] = NoVM
    BY <2>1 DEF Creating
  <2> QED
    <3>1. \A u \in Workers \ {w} : Holds(u) => saved'[at[u]] = saved[at[u]]
      BY <2>1, <2>2, <1>t, <1>h DEF CattleType
    <3>2. CfgSaved'
      BY <2>1, <2>3, <3>1 DEF Holds, Restoring
    <3>3. NewHost'
      BY <2>1, <3>1 DEF Holds, Creating, Restoring
    <3>4. LiveOwned' /\ MadeOwned'
      BY <2>1 DEF Holds
    <3>5. OwnMachinesOnly'
      BY <2>1, <1>t DEF CattleType
    <3> QED
      BY <3>2, <3>3, <3>4, <3>5
<1>10. ASSUME NEW w \in Workers, HandlerReturns(w) PROVE DataInv'
  <2>1. /\ UNCHANGED <<saved, live, owner>>
        /\ \A h \in Hosts : store'[h] \in {store[h], NoVM}
    BY <1>10, <1>t DEF HandlerReturns, RemoveHostDir, DiskType, cattle, cloud
  <2>2. CASE Finish(w)
    BY <1>5, <1>10, <2>1, <2>2 DEF Leaves, HandlerReturns, Holds
  <2>3. CASE Goto(w, "errorReply") /\ UNCHANGED <<locked, event, at, cfg, made>>
    <3>1. /\ Holds(w) /\ Holds(w)'
          /\ pc'[w] = "errorReply"
          /\ \A u \in Workers \ {w} : pc'[u] = pc[u]
      BY <1>10, <2>3, <1>t DEF HandlerReturns, Goto, Holds, Finish, PositionType
    <3> QED
      BY <2>1, <2>3, <3>1 DEF Holds, Creating, Restoring
  <2> QED
    BY <1>10, <2>2, <2>3 DEF HandlerReturns
<1>11. ASSUME NEW w \in Workers, DockerMachineRegisters(w) PROVE DataInv'
  <2>1. PICK v \in VMs : /\ owner[v] = NoHost
                         /\ owner' = [owner EXCEPT ![v] = at[w]]
                         /\ store' = [store EXCEPT ![at[w]] = v]
                         /\ made' = [made EXCEPT ![w] = v]
    BY <1>11 DEF DockerMachineRegisters
  <2>2. UNCHANGED <<saved, live, cfg, at, pc>> /\ Holds(w)
    BY <1>11 DEF DockerMachineRegisters, Holds, cattle
  <2>3. /\ owner'[v] = at[w]
        /\ \A u \in VMs : owner[u] \in Hosts => owner'[u] = owner[u]
    BY <2>1, <1>c, <1>t DEF CloudType
  <2> QED
    BY <2>1, <2>2, <2>3, <1>h, <1>t
       DEF Holds, CloudType, DiskType, CarriedType, CattleType
<1>12. ASSUME NEW w \in Workers, DockerMachineBuilds(w) PROVE DataInv'
  <2>1. /\ UNCHANGED <<saved, owner, store, cfg, made, at, pc>>
        /\ live' = live \cup {made[w]}
        /\ made[w] # NoVM
    BY <1>12 DEF DockerMachineBuilds, cattle, disk, worker
  <2> QED
    BY <2>1, <1>h DEF Holds
<1>13. CASE Restart
  BY <1>13 DEF Restart, Holds, Creating, Restoring, disk, cloud
<1>14. CASE Handler
  <2>1. ASSUME NEW w \in Workers, LeaveOff(w) PROVE DataInv'
    BY <1>5, <2>1 DEF LeaveOff
  <2> QED
    BY <1>14, <1>t, <1>4, <2>1, <1>6, <1>7, <1>8, <1>9, <1>10, HandlerEffect DEF Handler
<1>15. CASE DockerMachine
  BY <1>15, <1>11, <1>12 DEF DockerMachine
<1>16. CASE Cattle \/ Docker \/ (\E h \in Hosts : CacheExpires(h)) \/ UNCHANGED vars
  BY <1>16, <1>1, OutsideStep, OutsideEffect
<1> QED
  BY <1>2, <1>3, <1>13, <1>14, <1>15, <1>16
     DEF Next, Router, Process, Crash, PanicKillsProcess


-----------------------------------------------------------------------------
(***************************************************************************)
(* Types.                                                                  *)
(***************************************************************************)
\* What Cattle keeps of a host keeps its type.
LEMMA CattleTypeStep ==
  CattleType /\ CloudType /\ DiskType /\ LiveOwned /\ PositionType /\ [Next]_vars => CattleType'
<1> SUFFICES ASSUME CattleType, CloudType, DiskType, LiveOwned, PositionType, [Next]_vars
             PROVE  CattleType'
  OBVIOUS
<1> USE DEF CattleType
<1>1. CASE UNCHANGED cattle
  BY <1>1 DEF cattle
<1>2. ASSUME NEW h \in Hosts, CattleSends(h) PROVE CattleType'
  BY <1>2 DEF CattleSends
<1>3. ASSUME NEW h \in Hosts, UserRemoves(h) \/ RecordDeleted(h) PROVE CattleType'
  BY <1>3 DEF UserRemoves, RecordDeleted, HostStates
<1>4. ASSUME NEW h \in Hosts, HandleWork(h) PROVE CattleType'
  BY <1>4 DEF HandleWork
<1>5. ASSUME NEW w \in Workers, DeliverReply(w) \/ DeliverError(w) \/ UNCHANGED state,
             UNCHANGED <<saved, agentId, stream>>
      PROVE  CattleType'
  BY <1>5 DEF DeliverReply, DeliverError, Deliver, Answered, Refused, HostStates
<1>6. ASSUME NEW w \in Workers, SaveConfig(w) PROVE CattleType'
  BY <1>6 DEF SaveConfig, Machine, DiskType, PositionType, Busy
<1>7. ASSUME NEW v \in VMs, AgentRegisters(v) PROVE CattleType'
  BY <1>7 DEF AgentRegisters, LiveOwned
<1>8. CASE Restart
  BY <1>8 DEF Restart
<1>9. ASSUME NEW w \in Workers, Provision(w)
      PROVE  UNCHANGED cattle \/ CreateMachine(w) \/ FinalReply(w) \/ SaveConfig(w)
  BY <1>9 DEF Provision, LoadHost, RestoreHost, LaunchCreate, CommandWait,
              CleanupResources, ArchiveConfig, ReachDocker, CreateContainer,
              StartContainer, FindAgent, AwaitAgent, TouchStamp, HandlerReturns
<1>10. ASSUME NEW w \in Workers, Purge(w)
      PROVE  UNCHANGED cattle \/ CheckRemoveCache(w)
  BY <1>10 DEF Purge, LoadHost, RestoreToPurge, DeleteMachine
<1>11. ASSUME NEW w \in Workers,
              CreateMachine(w) \/ FinalReply(w) \/ CheckRemoveCache(w) \/ ErrorReply(w)
       PROVE  /\ DeliverReply(w) \/ DeliverError(w) \/ UNCHANGED state
              /\ UNCHANGED <<saved, agentId, stream>>
  BY <1>11 DEF CreateMachine, FinalReply, CheckRemoveCache, ErrorReply, PublishReply
<1>12. CASE Docker
  BY <1>12, <1>1, <1>7 DEF Docker, AgentStarts, BootstrapExits
<1>13. CASE \/ DockerMachine \/ (\E w \in Workers : Lock(w))
            \/ (\E h \in Hosts : CacheExpires(h)) \/ UNCHANGED vars
  BY <1>13, <1>1 DEF DockerMachine, DockerMachineRegisters, DockerMachineBuilds,
                     Lock, CacheExpires, vars
<1>14. CASE Handler
  BY <1>14, <1>1, <1>5, <1>6, <1>9, <1>10, <1>11 DEF Handler
<1> QED
  BY <1>2, <1>3, <1>4, <1>8, <1>12, <1>13, <1>14
     DEF Next, Cattle, Router, Process, Crash, PanicKillsProcess

\* RemoveMachine forgets the machine and what ran on it.
LEMMA RemoveMachineType ==
  ASSUME CloudType, DiskType, NEW h \in Hosts, RemoveMachine(h), UNCHANGED owner
  PROVE  CloudType' /\ DiskType'
BY DEF CloudType, DiskType, RemoveMachine, Containers

\* Machines, containers and directories keep their types.
LEMMA CloudDiskTypeStep ==
  TypeOK /\ [Next]_vars => CloudType' /\ DiskType'
<1> SUFFICES ASSUME TypeOK, [Next]_vars PROVE CloudType' /\ DiskType'
  OBVIOUS
<1>t. CloudType /\ DiskType /\ PositionType /\ CarriedType
  BY DEF TypeOK
<1>1. CASE UNCHANGED <<cloud, disk>>
  BY <1>1, <1>t DEF CloudType, DiskType, cloud, disk
<1>2. ASSUME NEW w \in Workers, RestoreHost(w) \/ RestoreToPurge(w)
      PROVE  CloudType' /\ DiskType'
  <2>1. UNCHANGED disk \/ Extract(w)
    BY <1>2 DEF RestoreHost, RestoreToPurge, ExtractInPart
  <2>2. DiskType'
    BY <2>1, <1>t DEF DiskType, CarriedType, Extract, disk
  <2>3. CloudType'
    BY <1>2, <1>t DEF RestoreHost, RestoreToPurge, CloudType, cloud
  <2> QED
    BY <2>2, <2>3
<1>3. ASSUME NEW w \in Workers, CleanupResources(w) \/ DeleteMachine(w)
      PROVE  CloudType' /\ DiskType'
  <2>1. at[w] \in Hosts
    BY <1>3, <1>t DEF CleanupResources, DeleteMachine, PositionType, Busy
  <2>2. UNCHANGED owner
    BY <1>3 DEF CleanupResources, DeleteMachine
  <2>3. RemoveMachine(at[w]) \/ UNCHANGED <<live, boot, agentUp, disk>>
    BY <1>3 DEF CleanupResources, DeleteMachine
  <2> QED
    BY <2>1, <2>2, <2>3, <1>1, <1>t, RemoveMachineType DEF cloud
<1>4. ASSUME NEW w \in Workers, CommandWait(w) \/ TouchStamp(w) \/ HandlerReturns(w)
      PROVE  CloudType' /\ DiskType'
  BY <1>4, <1>t DEF CommandWait, TouchStamp, HandlerReturns, RemoveHostDir, CloudType,
                    DiskType, cloud
<1>5. ASSUME NEW w \in Workers, CreateContainer(w) \/ StartContainer(w) \/ AwaitAgent(w)
      PROVE  CloudType' /\ DiskType'
  BY <1>5, <1>t DEF CreateContainer, StartContainer, AwaitAgent, CloudType, DiskType,
                    Containers, disk
<1>6. ASSUME NEW w \in Workers, DockerMachineRegisters(w) \/ DockerMachineBuilds(w)
      PROVE  CloudType' /\ DiskType'
  BY <1>6, <1>t DEF DockerMachineRegisters, DockerMachineBuilds, CloudType, DiskType,
                    PositionType, CarriedType, Busy, disk
<1>7. ASSUME NEW v \in VMs, AgentStarts(v) \/ BootstrapExits(v) \/ AgentRegisters(v)
      PROVE  CloudType' /\ DiskType'
  BY <1>7, <1>t DEF AgentStarts, BootstrapExits, AgentRegisters, CloudType, DiskType,
                    Containers, cloud, disk
<1>8. CASE Restart
  BY <1>8, <1>t DEF Restart, CloudType, DiskType, cloud, disk
<1>9. ASSUME NEW w \in Workers, Provision(w)
      PROVE  \/ UNCHANGED <<cloud, disk>> \/ RestoreHost(w) \/ CleanupResources(w)
             \/ CommandWait(w) \/ TouchStamp(w) \/ HandlerReturns(w)
             \/ CreateContainer(w) \/ StartContainer(w) \/ AwaitAgent(w)
  BY <1>9 DEF Provision, LoadHost, CreateMachine, LaunchCreate, ArchiveConfig, SaveConfig,
              ReachDocker, FindAgent, FinalReply
<1>10. ASSUME NEW w \in Workers, Purge(w) \/ ErrorReply(w)
       PROVE  UNCHANGED <<cloud, disk>> \/ RestoreToPurge(w) \/ DeleteMachine(w)
  BY <1>10 DEF Purge, LoadHost, CheckRemoveCache, ErrorReply
<1>11. CASE Handler
  BY <1>11, <1>1, <1>2, <1>3, <1>4, <1>5, <1>9, <1>10 DEF Handler
<1>12. CASE Cattle \/ Router \/ (\E h \in Hosts : CacheExpires(h)) \/ UNCHANGED vars
  BY <1>12, <1>1 DEF Cattle, CattleSends, UserRemoves, RecordDeleted, Router, HandleWork,
                     Lock, CacheExpires, vars
<1> QED
  BY <1>6, <1>7, <1>8, <1>11, <1>12
     DEF Next, DockerMachine, Docker, Process, Crash, PanicKillsProcess

\* What a handler carries from step to step keeps its type.
LEMMA CarriedTypeStep == TypeOK /\ [Next]_vars => CarriedType'
<1> SUFFICES ASSUME TypeOK, [Next]_vars PROVE CarriedType'
  OBVIOUS
<1>t. CarriedType /\ CattleType /\ PositionType
  BY DEF TypeOK
<1> USE DEF CarriedType
<1>1. CASE UNCHANGED <<cfg, made>>
  BY <1>1, <1>t
<1>2. ASSUME NEW w \in Workers, Leaves(w) PROVE CarriedType'
  BY <1>2, <1>t DEF Leaves, Finish
<1>3. ASSUME NEW w \in Workers, Reads(w) PROVE CarriedType'
  <2>1. at[w] \in Hosts
    BY <1>3, <1>t DEF Reads, LoadHost, PositionType, Busy
  <2> QED
    BY <2>1, <1>3, <1>t DEF Reads, LoadHost, CattleType
<1>4. ASSUME NEW w \in Workers, DockerMachineRegisters(w) \/ DockerMachineBuilds(w)
      PROVE  CarriedType'
  BY <1>4, <1>t DEF DockerMachineRegisters, DockerMachineBuilds, worker
<1>5. CASE Restart
  BY <1>5 DEF Restart
<1>6. CASE Router
  BY <1>6, <1>1 DEF Router, HandleWork, StartGoroutine, Lock, worker
<1>7. CASE Handler
  <2>1. ASSUME NEW w \in Workers,
               \/ RestoreHost(w) \/ CleanupResources(w) \/ SaveConfig(w)
               \/ RestoreToPurge(w) \/ DeleteMachine(w)
        PROVE  UNCHANGED <<cfg, made>>
    BY <2>1 DEF RestoreHost, CleanupResources, SaveConfig, RestoreToPurge, DeleteMachine
  <2>2. ASSUME NEW w \in Workers, HandlerReturns(w)
        PROVE  UNCHANGED <<cfg, made>> \/ Leaves(w)
    BY <2>2 DEF HandlerReturns, Leaves, Holds
  <2> QED
    BY <1>7, <1>t, <1>1, <1>2, <1>3, <2>1, <2>2, HandlerEffect
       DEF Handler, CarryOn, LeaveOff
<1> QED
  BY <1>1, <1>4, <1>5, <1>6, <1>7, OutsideEffect
     DEF Next, DockerMachine, Process, Crash, PanicKillsProcess

\* The locks, removeCache and the count of failures keep their types.
LEMMA ServiceTypeStep == TypeOK /\ [Next]_vars => ServiceType' /\ failures' \in Nat
<1> SUFFICES ASSUME TypeOK, [Next]_vars PROVE ServiceType' /\ failures' \in Nat
  OBVIOUS
<1>t. ServiceType /\ PositionType /\ failures \in Nat
  BY DEF TypeOK
<1> USE DEF ServiceType
<1>1. failures' \in Nat
  <2>1. ASSUME NEW w \in Workers, Provision(w) PROVE failures' \in Nat
    BY <2>1, <1>t DEF Provision, LoadHost, RestoreHost, ExtractInPart, CreateMachine,
       PublishReply, LaunchCreate, CommandWait, CleanupResources, ArchiveConfig,
       SaveConfig, ReachDocker, CreateContainer, StartContainer, FindAgent, AwaitAgent,
       TouchStamp, FinalReply, HandlerReturns, Fail, NoFail
  <2>2. ASSUME NEW w \in Workers, Purge(w) \/ ErrorReply(w) PROVE failures' \in Nat
    BY <2>2, <1>t DEF Purge, LoadHost, CheckRemoveCache, RestoreToPurge, ExtractInPart,
       DeleteMachine, ErrorReply, Fail, NoFail
  <2>3. CASE Cattle \/ Router
    BY <2>3, <1>t DEF Cattle, CattleSends, UserRemoves, RecordDeleted, Router, HandleWork,
       Lock
  <2>4. CASE DockerMachine \/ Docker \/ Process \/ UNCHANGED vars
    BY <2>4, <1>t DEF DockerMachine, DockerMachineRegisters, DockerMachineBuilds, Docker,
       AgentStarts, BootstrapExits, AgentRegisters, Process, Crash, PanicKillsProcess,
       Fail, CacheExpires, vars
  <2> QED
    BY <2>1, <2>2, <2>3, <2>4 DEF Next, Handler
<1>2. locked' \subseteq Hosts
  <2>1. ASSUME NEW w \in Workers, Lock(w) PROVE locked' \subseteq Hosts
    BY <2>1, <1>t DEF Lock, PositionType, Busy
  <2>2. ASSUME NEW w \in Workers, Inside(w) \/ Leaves(w) PROVE locked' \subseteq Hosts
    BY <2>2, <1>t DEF Inside, Leaves, Finish
  <2>3. ASSUME NEW h \in Hosts, HandleWork(h) PROVE locked' \subseteq Hosts
    BY <2>3, <1>t DEF HandleWork, service
  <2> QED
    BY <2>1, <2>2, <2>3, <1>t, HandlerStep, OutsideStep
       DEF Next, Router, Handler, Process, Crash, PanicKillsProcess, Restart, Outside
<1>3. removeCache' \subseteq Hosts
  <2>1. ASSUME NEW w \in Workers, Purge(w) \/ ErrorReply(w)
        PROVE  removeCache' \subseteq Hosts
    BY <2>1, <1>t DEF Purge, LoadHost, CheckRemoveCache, RestoreToPurge, DeleteMachine,
       ErrorReply, PositionType, Busy, service
  <2>2. ASSUME NEW w \in Workers, Provision(w) PROVE removeCache' \subseteq Hosts
    BY <2>2, <1>t DEF Provision, LoadHost, RestoreHost, CreateMachine, LaunchCreate,
       CommandWait, CleanupResources, ArchiveConfig, SaveConfig, ReachDocker,
       CreateContainer, StartContainer, FindAgent, AwaitAgent, TouchStamp, FinalReply,
       HandlerReturns, service
  <2>3. CASE Cattle \/ Router
    BY <2>3, <1>t DEF Cattle, CattleSends, UserRemoves, RecordDeleted, Router, HandleWork,
       Lock, service
  <2>4. CASE DockerMachine \/ Docker \/ Process \/ UNCHANGED vars
    BY <2>4, <1>t DEF DockerMachine, DockerMachineRegisters, DockerMachineBuilds, Docker,
       AgentStarts, BootstrapExits, AgentRegisters, Process, Crash, PanicKillsProcess,
       Restart, CacheExpires, service, vars
  <2> QED
    BY <2>1, <2>2, <2>3, <2>4 DEF Next, Handler
<1> QED
  BY <1>1, <1>2, <1>3

\* TypeOK is inductive, given that machines that exist have an owner.
LEMMA TypeOKStep == TypeOK /\ LiveOwned /\ [Next]_vars => TypeOK'
BY CattleTypeStep, CloudDiskTypeStep, CarriedTypeStep, ServiceTypeStep, PositionStep
   DEF TypeOK, CattleType

-----------------------------------------------------------------------------
(***************************************************************************)
(* The theorems.                                                           *)
(***************************************************************************)
\* CoreInv holds of a service that has just started.
LEMMA InitCore == Init => CoreInv
<1> SUFFICES ASSUME Init PROVE CoreInv
  OBVIOUS
<1> USE ConstantsAssumption DEF Init
<1>1. TypeOK
  BY DEF TypeOK, CattleType, CloudType, DiskType, ServiceType, PositionType,
         CarriedType, HostStates, Containers, Labels, Busy
<1>2. LockInv /\ DataInv
  BY DEF LockInv, DataInv, LiveOwned, MadeOwned, OwnMachinesOnly, CfgSaved, NewHost,
         Holds, Creating, Restoring
<1> QED
  BY <1>1, <1>2 DEF CoreInv

\* CoreInv is inductive.
LEMMA CoreStep == CoreInv /\ [Next]_vars => CoreInv'
BY TypeOKStep, LockStep, DataStep DEF CoreInv, DataInv, TypeOK

\* The inductive invariant of this module, for every set of faults: types, the
\* lock per resource id, and the bond between a host and its machines.
THEOREM CoreInvariant == Spec => []CoreInv
BY InitCore, CoreStep, PTL DEF Spec

\* Every variable keeps its type, whatever fails.
THEOREM TypeCorrect == Spec => []TypeOK
<1>1. CoreInv => TypeOK
  BY DEF CoreInv
<1> QED
  BY <1>1, CoreInvariant, PTL

\* The lock per resource id works for any number of workers and hosts: no two
\* goroutines are ever in a handler for the same host.
THEOREM MutualExclusion == Spec => []OneHandlerPerHost
<1>1. CoreInv => OneHandlerPerHost
  BY LockInvMeans DEF CoreInv
<1> QED
  BY <1>1, CoreInvariant, PTL

\* Handlers keep to the machines of their own host.
THEOREM HostsAreSeparate == Spec => []OwnMachinesOnly
<1>1. CoreInv => OwnMachinesOnly
  BY DEF CoreInv, DataInv
<1> QED
  BY <1>1, CoreInvariant, PTL

\* The machine recorded for a host is never replaced by another.
THEOREM SavedForGood == Spec => SavedIsFinal
<1>1. ASSUME CoreInv, [Next]_vars
      PROVE  \A h \in Hosts : saved[h] # NoVM => saved'[h] = saved[h]
  <2>1. ASSUME NEW w \in Workers, SaveConfig(w), NEW h \in Hosts, saved[h] # NoVM
        PROVE  saved'[h] = saved[h]
    <3>1. pc[w] = "save" /\ (saved' = saved \/ saved' = [saved EXCEPT ![at[w]] = store[at[w]]])
      BY <2>1 DEF SaveConfig, Machine
    <3>2. h # at[w]
      BY <3>1, <2>1, <1>1 DEF CoreInv, DataInv, NewHost, Creating
    <3> QED
      BY <3>1, <3>2, <1>1 DEF CoreInv, TypeOK, CattleType
  <2>2. ASSUME NEW w \in Workers, ~SaveConfig(w),
               Provision(w) \/ Purge(w) \/ ErrorReply(w)
        PROVE  UNCHANGED saved
    BY <2>2 DEF Provision, Purge, LoadHost, RestoreHost, CreateMachine, LaunchCreate,
       CommandWait, CleanupResources, ArchiveConfig, ReachDocker, CreateContainer,
       StartContainer, FindAgent, AwaitAgent, TouchStamp, FinalReply, HandlerReturns,
       CheckRemoveCache, RestoreToPurge, DeleteMachine, ErrorReply, cattle
  <2>3. CASE Router \/ DockerMachine \/ Crash \/ PanicKillsProcess
    BY <2>3 DEF Router, HandleWork, Lock, DockerMachine, DockerMachineRegisters,
       DockerMachineBuilds, Crash, PanicKillsProcess, Restart, cattle
  <2> QED
    BY <1>1, <2>1, <2>2, <2>3, OutsideEffect DEF Next, Handler, Process
<1> QED
  BY <1>1, CoreInvariant, PTL DEF Spec, SavedIsFinal

\* No machine is created for a host that has one recorded, nor by anyone but the
\* handler that holds the lock of that host.
THEOREM NoSecondMachine == Spec => CreatedOnlyWhenNew
<1>1. ASSUME CoreInv, [Next]_vars
      PROVE  \A v \in live' \ live : /\ saved[owner[v]] = NoVM
                                     /\ owner[v] \in locked
  <2>1. ASSUME NEW w \in Workers, DockerMachineBuilds(w), NEW v \in live' \ live
        PROVE  saved[owner[v]] = NoVM /\ owner[v] \in locked
    <3>1. v = made[w] /\ v # NoVM /\ pc[w] = "dmCreate"
      BY <2>1 DEF DockerMachineBuilds
    <3>2. owner[v] = at[w] /\ Holds(w)
      BY <3>1, <1>1 DEF CoreInv, DataInv, MadeOwned
    <3> QED
      BY <3>1, <3>2, <1>1 DEF CoreInv, DataInv, NewHost, Creating, LockInv
  <2>2. ASSUME NEW w \in Workers, Provision(w) \/ Purge(w) \/ ErrorReply(w)
        PROVE  live' \subseteq live
    BY <2>2 DEF Provision, Purge, LoadHost, RestoreHost, CreateMachine, LaunchCreate,
       CommandWait, CleanupResources, ArchiveConfig, SaveConfig, ReachDocker,
       CreateContainer, StartContainer, FindAgent, AwaitAgent, TouchStamp, FinalReply,
       HandlerReturns, CheckRemoveCache, RestoreToPurge, DeleteMachine, ErrorReply,
       RemoveMachine, cloud
  <2>3. CASE Router \/ Crash \/ PanicKillsProcess
    BY <2>3 DEF Router, HandleWork, Lock, Crash, PanicKillsProcess, Restart, cloud
  <2>4. ASSUME NEW w \in Workers, DockerMachineRegisters(w) PROVE UNCHANGED live
    BY <2>4 DEF DockerMachineRegisters
  <2> QED
    BY <1>1, <2>1, <2>2, <2>3, <2>4, OutsideEffect DEF Next, Handler, DockerMachine, Process
<1> QED
  BY <1>1, CoreInvariant, PTL DEF Spec, CreatedOnlyWhenNew

-----------------------------------------------------------------------------
InOrder == "overtake" \notin Faults

Leaving == {"removing", "removed", "gone"}

ProvisionAt == {"getHost", "restore", "create", "launch", "dmCreate", "cleanup",
                "archive", "save", "register", "container", "start", "findAgent",
                "awaitAgent", "touch"}
PurgeAt     == {"purge", "getHostToPurge", "restoreToPurge", "delete"}

\* Nothing but host.remove is under way for h, or ever will be.
RemoveOnly(h) ==
    /\ state[h] \in Leaving
    /\ \A i \in 1 .. Len(stream[h]) : stream[h][i] = "remove"
    /\ \A w \in Workers : Busy(w) /\ at[w] = h => event[w] = "remove"

LabelsMatch ==
    \A w \in Workers : /\ pc[w] \in ProvisionAt => event[w] = "provision"
                       /\ pc[w] \in PurgeAt => event[w] = "remove"

StreamOrder ==
    \A h \in Hosts : \A i, j \in 1 .. Len(stream[h]) :
        stream[h][i] = "remove" => /\ state[h] \in Leaving
                                   /\ i <= j => stream[h][j] = "remove"

WaitOrder ==
    /\ \A u, w \in Workers : pc[u] = "lock" /\ pc[w] = "lock" /\ at[u] = at[w] => u = w
    /\ \A w \in Workers : Busy(w) /\ event[w] = "remove" =>
          /\ state[at[w]] \in Leaving
          /\ \A i \in 1 .. Len(stream[at[w]]) : stream[at[w]][i] = "remove"

RemovalAlone ==
    /\ \A w \in Workers : Holds(w) /\ event[w] = "remove" => RemoveOnly(at[w])
    /\ \A h \in Hosts : state[h] \in {"removed", "gone"} \/ h \in removeCache
                          => RemoveOnly(h)

OrderInv == LabelsMatch /\ StreamOrder /\ WaitOrder /\ RemovalAlone

-----------------------------------------------------------------------------
(***************************************************************************)
(* The moves of a host and of its event stream.                            *)
(***************************************************************************)
Replies(w) ==
    /\ Holds(w)
    /\ \/ pc[w] = "purge" /\ at[w] \in removeCache
       \/ pc[w] \in {"create", "reply"}
    /\ state' = [state EXCEPT ![at[w]] = Answered(@, event[w])]

RepliesError(w) ==
    /\ Holds(w)
    /\ state' = [state EXCEPT ![at[w]] = Refused(@, event[w])]

\* A host changes state by a reply, by an error reply, by its user's request or
\* when Cattle purges its record.
LEMMA StateMoves ==
  ASSUME [Next]_vars
  PROVE  \/ UNCHANGED state
         \/ \E w \in Workers : Replies(w) \/ RepliesError(w)
         \/ \E h \in Hosts : UserRemoves(h) \/ RecordDeleted(h)
<1> USE DEF cattle
<1>1. ASSUME NEW w \in Workers, Provision(w)
      PROVE  UNCHANGED state \/ CreateMachine(w) \/ FinalReply(w)
  BY <1>1 DEF Provision, LoadHost, RestoreHost, LaunchCreate, CommandWait,
     CleanupResources, ArchiveConfig, SaveConfig, ReachDocker, CreateContainer,
     StartContainer, FindAgent, AwaitAgent, TouchStamp, HandlerReturns
<1>2. ASSUME NEW w \in Workers, Purge(w)
      PROVE  UNCHANGED state \/ CheckRemoveCache(w)
  BY <1>2 DEF Purge, LoadHost, RestoreToPurge, DeleteMachine
<1>3. ASSUME NEW w \in Workers, CreateMachine(w) \/ FinalReply(w) \/ CheckRemoveCache(w)
      PROVE  UNCHANGED state \/ Replies(w)
  BY <1>3 DEF CreateMachine, FinalReply, CheckRemoveCache, PublishReply, DeliverReply,
     Deliver, Replies, Holds
<1>4. ASSUME NEW w \in Workers, ErrorReply(w)
      PROVE  UNCHANGED state \/ RepliesError(w)
  BY <1>4 DEF ErrorReply, DeliverError, Deliver, RepliesError, Holds
<1>5. CASE Cattle
  BY <1>5 DEF Cattle, CattleSends
<1>6. CASE Router \/ DockerMachine \/ Docker \/ Process \/ UNCHANGED vars
  BY <1>6 DEF Router, HandleWork, Lock, DockerMachine, DockerMachineRegisters,
     DockerMachineBuilds, Docker, AgentStarts, BootstrapExits, AgentRegisters,
     Process, Crash, PanicKillsProcess, Restart, CacheExpires, vars
<1> QED
  BY <1>1, <1>2, <1>3, <1>4, <1>5, <1>6 DEF Next, Handler

\* An event stream changes when Cattle sends, when the router reads, and when
\* the connection is lost.
LEMMA StreamMoves ==
  ASSUME [Next]_vars
  PROVE  \/ UNCHANGED stream
         \/ \E h \in Hosts : CattleSends(h) \/ HandleWork(h)
         \/ Restart
<1> USE DEF cattle
<1>1. ASSUME NEW w \in Workers, Provision(w) \/ Purge(w) \/ ErrorReply(w)
      PROVE  UNCHANGED stream
  BY <1>1 DEF Provision, LoadHost, RestoreHost, CreateMachine, LaunchCreate, CommandWait,
     CleanupResources, ArchiveConfig, SaveConfig, ReachDocker, CreateContainer,
     StartContainer, FindAgent, AwaitAgent, TouchStamp, FinalReply, HandlerReturns,
     Purge, CheckRemoveCache, RestoreToPurge, DeleteMachine, ErrorReply
<1>2. CASE Cattle \/ Router
  BY <1>2 DEF Cattle, UserRemoves, RecordDeleted, Router, Lock
<1>3. CASE DockerMachine \/ Docker \/ Process \/ UNCHANGED vars
  BY <1>3 DEF DockerMachine, DockerMachineRegisters, DockerMachineBuilds, Docker,
     AgentStarts, BootstrapExits, AgentRegisters, Process, Crash, PanicKillsProcess,
     CacheExpires, vars
<1> QED
  BY <1>1, <1>2, <1>3 DEF Next, Handler

\* removeCache grows when a machine has been removed, and only then.
LEMMA CacheGrows ==
  ASSUME [Next]_vars
  PROVE  \/ removeCache' \subseteq removeCache
         \/ \E w \in Workers : DeleteMachine(w)
<1> USE DEF service
<1>1. ASSUME NEW w \in Workers, Provision(w) PROVE removeCache' = removeCache
  BY <1>1 DEF Provision, LoadHost, RestoreHost, CreateMachine, LaunchCreate, CommandWait,
     CleanupResources, ArchiveConfig, SaveConfig, ReachDocker, CreateContainer,
     StartContainer, FindAgent, AwaitAgent, TouchStamp, FinalReply, HandlerReturns
<1>2. ASSUME NEW w \in Workers, Purge(w) \/ ErrorReply(w)
      PROVE  removeCache' = removeCache \/ DeleteMachine(w)
  BY <1>2 DEF Purge, LoadHost, CheckRemoveCache, RestoreToPurge, ErrorReply
<1>3. CASE Cattle \/ Router
  BY <1>3 DEF Cattle, CattleSends, UserRemoves, RecordDeleted, Router, HandleWork, Lock
<1>4. CASE DockerMachine \/ Docker \/ Process \/ UNCHANGED vars
  BY <1>4 DEF DockerMachine, DockerMachineRegisters, DockerMachineBuilds, Docker,
     AgentStarts, BootstrapExits, AgentRegisters, Process, Crash, PanicKillsProcess,
     Restart, CacheExpires, vars
<1> QED
  BY <1>1, <1>2, <1>3, <1>4 DEF Next, Handler

\* A host that is leaving does not come back.
LEMMA LeavingForGood ==
  ASSUME CattleType, [Next]_vars, NEW h \in Hosts, state[h] \in Leaving
  PROVE  state'[h] \in Leaving
<1>1. ASSUME NEW w \in Workers, Replies(w) \/ RepliesError(w) PROVE state'[h] \in Leaving
  BY <1>1 DEF Replies, RepliesError, Answered, Refused, Awaits, Leaving, CattleType
<1>2. ASSUME NEW g \in Hosts, UserRemoves(g) \/ RecordDeleted(g)
      PROVE  state'[h] \in Leaving
  BY <1>2 DEF UserRemoves, RecordDeleted, Leaving, CattleType
<1> QED
  BY <1>1, <1>2, StateMoves

\* What Cattle appends, and what the router takes.
LEMMA SentEvents ==
  ASSUME CattleType, NEW h \in Hosts, NEW g \in Hosts, CattleSends(h)
  PROVE  \/ stream'[g] = stream[g]
         \/ \E e \in Events : /\ Awaits(state[g], e)
                              /\ stream'[g] = Append(stream[g], e)
BY DEF CattleSends, CattleType

\* The router takes the first event, for one goroutine or for none.
LEMMA TakenEvents ==
  ASSUME CattleType, NEW h \in Hosts, HandleWork(h)
  PROVE  /\ stream[h] # <<>>
         /\ stream' = [stream EXCEPT ![h] = Tail(stream[h])]
         /\ \/ \E w \in Workers : StartGoroutine(w, h, stream[h][1])
            \/ UNCHANGED worker
BY DEF HandleWork, CattleType

\* The items of a sequence to which one is appended.
LEMMA AppendAll ==
  ASSUME NEW s \in Seq(Events), NEW e \in Events, NEW i \in 1 .. Len(Append(s, e))
  PROVE  \/ i \in 1 .. Len(s) /\ Append(s, e)[i] = s[i]
         \/ i = Len(s) + 1 /\ Append(s, e)[i] = e
OBVIOUS

\* The items of the rest of a sequence.
LEMMA TailAll ==
  ASSUME NEW s \in Seq(Events), s # <<>>, NEW i \in 1 .. Len(Tail(s))
  PROVE  i + 1 \in 1 .. Len(s) /\ Tail(s)[i] = s[i + 1]
OBVIOUS

\* A stream of a leaving host that holds nothing but host.remove stays so.
LEMMA StreamStays ==
  ASSUME CattleType, [Next]_vars, NEW h \in Hosts, state[h] \in Leaving,
         \A i \in 1 .. Len(stream[h]) : stream[h][i] = "remove"
  PROVE  \A i \in 1 .. Len(stream'[h]) : stream'[h][i] = "remove"
<1>1. CASE UNCHANGED stream
  BY <1>1
<1>2. ASSUME NEW g \in Hosts, CattleSends(g)
      PROVE  \A i \in 1 .. Len(stream'[h]) : stream'[h][i] = "remove"
  <2>1. CASE stream'[h] = stream[h]
    BY <2>1
  <2>2. ASSUME NEW e \in Events, Awaits(state[h], e), stream'[h] = Append(stream[h], e)
        PROVE  \A i \in 1 .. Len(stream'[h]) : stream'[h][i] = "remove"
    <3>1. e = "remove" /\ stream[h] \in Seq(Events)
      BY <2>2 DEF Awaits, Leaving, CattleType
    <3> QED
      BY <2>2, <3>1, AppendAll
  <2> QED
    BY <1>2, <2>1, <2>2, SentEvents
<1>3. ASSUME NEW g \in Hosts, HandleWork(g)
      PROVE  \A i \in 1 .. Len(stream'[h]) : stream'[h][i] = "remove"
  <2>1. CASE g = h
    <3>1. stream[h] \in Seq(Events) /\ stream[h] # <<>> /\ stream'[h] = Tail(stream[h])
      BY <1>3, <2>1, TakenEvents DEF CattleType
    <3> QED
      BY <3>1, TailAll
  <2>2. CASE g # h
    BY <1>3, <2>2, TakenEvents DEF CattleType
  <2> QED
    BY <2>1, <2>2
<1>4. CASE Restart
  BY <1>4 DEF Restart
<1> QED
  BY <1>1, <1>2, <1>3, <1>4, StreamMoves

\* RemoveOnly is never lost.
LEMMA RemoveOnlyForGood ==
  ASSUME CattleType, PositionType, [Next]_vars, NEW h \in Hosts, RemoveOnly(h)
  PROVE  RemoveOnly(h)'
<1>1. state'[h] \in Leaving
  BY LeavingForGood DEF RemoveOnly
<1>2. \A i \in 1 .. Len(stream'[h]) : stream'[h][i] = "remove"
  BY StreamStays DEF RemoveOnly
<1>3. \A w \in Workers : Busy(w)' /\ at'[w] = h => event'[w] = "remove"
  <2>1. ASSUME NEW g \in Hosts, HandleWork(g)
        PROVE  \A w \in Workers : Busy(w)' /\ at'[w] = h => event'[w] = "remove"
    <3>1. CASE UNCHANGED worker
      BY <3>1 DEF worker, Busy, RemoveOnly
    <3>2. ASSUME NEW w \in Workers, StartGoroutine(w, g, stream[g][1])
          PROVE  \A u \in Workers : Busy(u)' /\ at'[u] = h => event'[u] = "remove"
      <4>1. stream[g] \in Seq(Events) /\ stream[g] # <<>>
        BY <2>1, TakenEvents DEF CattleType
      <4>2. g = h => stream[g][1] = "remove"
        BY <4>1 DEF RemoveOnly
      <4>3. at'[w] = g /\ event'[w] = stream[g][1]
        BY <3>2 DEF StartGoroutine, PositionType
      <4>4. \A u \in Workers \ {w} : pc'[u] = pc[u] /\ at'[u] = at[u] /\ event'[u] = event[u]
        BY <3>2 DEF StartGoroutine, Goto, PositionType
      <4> QED
        BY <4>2, <4>3, <4>4 DEF Busy, RemoveOnly
    <3> QED
      BY <2>1, <3>1, <3>2, TakenEvents
  <2>2. ASSUME NEW w \in Workers, Lock(w)
        PROVE  \A u \in Workers : Busy(u)' /\ at'[u] = h => event'[u] = "remove"
    BY <2>2 DEF Lock, Goto, Busy, RemoveOnly, PositionType
  <2>3. ASSUME NEW w \in Workers, Inside(w) \/ Leaves(w)
        PROVE  \A u \in Workers : Busy(u)' /\ at'[u] = h => event'[u] = "remove"
    BY <2>3 DEF Inside, Leaves, Finish, Goto, Holds, Busy, RemoveOnly, PositionType
  <2>4. CASE Outside \/ Restart
    BY <2>4 DEF Outside, Restart, Busy, RemoveOnly
  <2> QED
    BY <2>1, <2>2, <2>3, <2>4, HandlerStep, OutsideStep
       DEF Next, Router, Handler, Process, Crash, PanicKillsProcess
<1> QED
  BY <1>1, <1>2, <1>3 DEF RemoveOnly

-----------------------------------------------------------------------------
\* A handler does not stray into the other handler's steps.
LEMMA LabelStep ==
  ASSUME PositionType, NEW w \in Workers, Provision(w) \/ Purge(w) \/ ErrorReply(w)
  PROVE  /\ pc'[w] \in ProvisionAt => pc[w] \in ProvisionAt
         /\ pc'[w] \in PurgeAt => pc[w] \in PurgeAt
<1> USE DEF Goto, ProvisionAt, PurgeAt, PositionType
<1>1. CASE Reads(w) \/ RestoreHost(w) \/ LaunchCreate(w) \/ CommandWait(w)
  BY <1>1 DEF Reads, LoadHost, RestoreHost, LaunchCreate, CommandWait
<1>2. CASE CreateMachine(w) \/ FinalReply(w)
  BY <1>2 DEF CreateMachine, FinalReply, PublishReply
<1>3. CASE CleanupResources(w) \/ ArchiveConfig(w) \/ SaveConfig(w) \/ ReachDocker(w)
  BY <1>3 DEF CleanupResources, ArchiveConfig, SaveConfig, ReachDocker
<1>4. CASE CreateContainer(w) \/ StartContainer(w) \/ FindAgent(w) \/ AwaitAgent(w)
  BY <1>4 DEF CreateContainer, StartContainer, FindAgent, AwaitAgent
<1>5. CASE TouchStamp(w) \/ HandlerReturns(w) \/ ErrorReply(w)
  BY <1>5 DEF TouchStamp, HandlerReturns, ErrorReply, Finish
<1>6. CASE CheckRemoveCache(w) \/ RestoreToPurge(w) \/ DeleteMachine(w)
  BY <1>6 DEF CheckRemoveCache, RestoreToPurge, DeleteMachine, Finish
<1> QED
  BY <1>1, <1>2, <1>3, <1>4, <1>5, <1>6 DEF Provision, Purge, Reads

\* LabelsMatch is inductive.
LEMMA LabelsStep ==
  ASSUME PositionType, CattleType, LabelsMatch, [Next]_vars PROVE LabelsMatch'
<1> USE DEF LabelsMatch
<1>1. ASSUME NEW h \in Hosts, HandleWork(h) PROVE LabelsMatch'
  BY <1>1 DEF HandleWork, StartGoroutine, Goto, worker, ProvisionAt, PurgeAt, PositionType
<1>2. ASSUME NEW w \in Workers, Lock(w) PROVE LabelsMatch'
  BY <1>2 DEF Lock, Goto, ProvisionAt, PurgeAt, PositionType, Events, Busy
<1>3. ASSUME NEW w \in Workers, Provision(w) \/ Purge(w) \/ ErrorReply(w)
      PROVE  LabelsMatch'
  <2>1. CASE Inside(w)
    BY <1>3, <2>1, LabelStep DEF Inside, Goto, PositionType
  <2>2. CASE Leaves(w)
    BY <2>2 DEF Leaves, Finish, ProvisionAt, PurgeAt, PositionType
  <2> QED
    BY <1>3, <2>1, <2>2, HandlerStep
<1>4. CASE Outside \/ Restart
  BY <1>4 DEF Outside, Restart, ProvisionAt, PurgeAt
<1> QED
  BY <1>1, <1>2, <1>3, <1>4, OutsideStep
     DEF Next, Router, Handler, Process, Crash, PanicKillsProcess

\* In a stream, host.remove is followed by nothing else.
LEMMA StreamStep ==
  ASSUME CattleType, StreamOrder, [Next]_vars PROVE StreamOrder'
<1> SUFFICES ASSUME NEW h \in Hosts,
                    NEW i \in 1 .. Len(stream'[h]), NEW j \in 1 .. Len(stream'[h]),
                    stream'[h][i] = "remove"
             PROVE  /\ state'[h] \in Leaving
                    /\ i <= j => stream'[h][j] = "remove"
  BY DEF StreamOrder
<1>t. stream[h] \in Seq(Events)
  BY DEF CattleType
<1>1. CASE stream'[h] = stream[h]
  BY <1>1, LeavingForGood DEF StreamOrder
<1>2. ASSUME NEW e \in Events, Awaits(state[h], e), stream'[h] = Append(stream[h], e)
      PROVE  /\ state'[h] \in Leaving
             /\ i <= j => stream'[h][j] = "remove"
  <2>1. \/ i \in 1 .. Len(stream[h]) /\ stream'[h][i] = stream[h][i]
        \/ i = Len(stream[h]) + 1 /\ stream'[h][i] = e
    BY <1>2, <1>t, AppendAll
  <2>2. \/ j \in 1 .. Len(stream[h]) /\ stream'[h][j] = stream[h][j]
        \/ j = Len(stream[h]) + 1 /\ stream'[h][j] = e
    BY <1>2, <1>t, AppendAll
  <2>3. state[h] \in Leaving
    BY <2>1, <1>2 DEF StreamOrder, Awaits, Leaving
  <2>4. e = "remove"
    BY <2>3, <1>2 DEF Awaits, Leaving
  <2> QED
    BY <2>1, <2>2, <2>3, <2>4, <1>t, LeavingForGood DEF StreamOrder
<1>3. CASE stream[h] # <<>> /\ stream'[h] = Tail(stream[h])
  <2>1. /\ i + 1 \in 1 .. Len(stream[h]) /\ stream'[h][i] = stream[h][i + 1]
        /\ j + 1 \in 1 .. Len(stream[h]) /\ stream'[h][j] = stream[h][j + 1]
    BY <1>3, <1>t, TailAll
  <2>2. i <= j => i + 1 <= j + 1
    OBVIOUS
  <2> QED
    BY <2>1, <2>2, LeavingForGood DEF StreamOrder
<1>4. CASE Restart
  BY <1>4 DEF Restart
<1>5. ASSUME NEW g \in Hosts, CattleSends(g)
      PROVE  \/ stream'[h] = stream[h]
             \/ \E e \in Events : /\ Awaits(state[h], e)
                                  /\ stream'[h] = Append(stream[h], e)
  BY <1>5, SentEvents
<1>6. ASSUME NEW g \in Hosts, HandleWork(g)
      PROVE  \/ stream'[h] = stream[h]
             \/ stream[h] # <<>> /\ stream'[h] = Tail(stream[h])
  BY <1>6, TakenEvents DEF CattleType
<1> QED
  BY <1>1, <1>2, <1>3, <1>4, <1>5, <1>6, StreamMoves

\* A goroutine of host.remove was started after all of host.provision.
LEMMA WaitStep ==
  ASSUME InOrder, CattleType, PositionType, StreamOrder, WaitOrder, [Next]_vars
  PROVE  WaitOrder'
<1>1. \A u, w \in Workers : pc'[u] = "lock" /\ pc'[w] = "lock" /\ at'[u] = at'[w] => u = w
  <2>1. ASSUME NEW g \in Hosts, HandleWork(g)
        PROVE  \A u, w \in Workers :
                   pc'[u] = "lock" /\ pc'[w] = "lock" /\ at'[u] = at'[w] => u = w
    <3>1. CASE UNCHANGED worker
      BY <3>1 DEF worker, WaitOrder
    <3>2. ASSUME NEW x \in Workers, StartGoroutine(x, g, stream[g][1])
          PROVE  \A u, w \in Workers :
                     pc'[u] = "lock" /\ pc'[w] = "lock" /\ at'[u] = at'[w] => u = w
      BY <3>2 DEF StartGoroutine, Goto, InOrder, WaitOrder, PositionType
    <3> QED
      BY <2>1, <3>1, <3>2, TakenEvents
  <2>2. ASSUME NEW x \in Workers, Lock(x)
        PROVE  \A u, w \in Workers :
                   pc'[u] = "lock" /\ pc'[w] = "lock" /\ at'[u] = at'[w] => u = w
    BY <2>2 DEF Lock, Goto, WaitOrder, PositionType
  <2>3. ASSUME NEW x \in Workers, Inside(x) \/ Leaves(x)
        PROVE  \A u, w \in Workers :
                   pc'[u] = "lock" /\ pc'[w] = "lock" /\ at'[u] = at'[w] => u = w
    BY <2>3 DEF Inside, Leaves, Finish, Goto, WaitOrder, PositionType
  <2>4. CASE Outside \/ Restart
    BY <2>4 DEF Outside, Restart, WaitOrder
  <2> QED
    BY <2>1, <2>2, <2>3, <2>4, HandlerStep, OutsideStep
       DEF Next, Router, Handler, Process, Crash, PanicKillsProcess
<1>2. ASSUME NEW w \in Workers, Busy(w)', event'[w] = "remove"
      PROVE  /\ state'[at'[w]] \in Leaving
             /\ \A i \in 1 .. Len(stream'[at'[w]]) : stream'[at'[w]][i] = "remove"
  <2>1. \/ Busy(w) /\ event[w] = "remove" /\ at'[w] = at[w]
        \/ \E g \in Hosts : HandleWork(g) /\ StartGoroutine(w, g, stream[g][1])
    <3>1. ASSUME NEW g \in Hosts, HandleWork(g)
          PROVE  \/ Busy(w) /\ event[w] = "remove" /\ at'[w] = at[w]
                 \/ HandleWork(g) /\ StartGoroutine(w, g, stream[g][1])
      <4>1. CASE UNCHANGED worker
        BY <1>2, <4>1 DEF worker, Busy
      <4>2. ASSUME NEW x \in Workers \ {w}, StartGoroutine(x, g, stream[g][1])
            PROVE  Busy(w) /\ event[w] = "remove" /\ at'[w] = at[w]
        BY <1>2, <4>2 DEF StartGoroutine, Goto, Busy, PositionType
      <4> QED
        BY <3>1, <4>1, <4>2, TakenEvents
    <3>2. ASSUME NEW x \in Workers, Lock(x)
          PROVE  Busy(w) /\ event[w] = "remove" /\ at'[w] = at[w]
      BY <1>2, <3>2 DEF Lock, Goto, Busy, PositionType
    <3>3. ASSUME NEW x \in Workers, Inside(x) \/ Leaves(x)
          PROVE  Busy(w) /\ event[w] = "remove" /\ at'[w] = at[w]
      BY <1>2, <3>3 DEF Inside, Leaves, Finish, Goto, Holds, Busy, PositionType
    <3>4. CASE Outside
      BY <1>2, <3>4 DEF Outside, Busy
    <3>5. ~Restart
      BY <1>2 DEF Restart, Busy
    <3> QED
      BY <3>1, <3>2, <3>3, <3>4, <3>5, HandlerStep, OutsideStep
         DEF Next, Router, Handler, Process, Crash, PanicKillsProcess
  <2>2. CASE Busy(w) /\ event[w] = "remove" /\ at'[w] = at[w]
    <3> DEFINE h == at[w]
    <3>1. /\ h \in Hosts /\ state[h] \in Leaving
          /\ \A i \in 1 .. Len(stream[h]) : stream[h][i] = "remove"
      BY <2>2 DEF WaitOrder, PositionType
    <3>2. state'[h] \in Leaving
      BY <3>1, LeavingForGood
    <3> HIDE DEF h
    <3>3. \A i \in 1 .. Len(stream'[h]) : stream'[h][i] = "remove"
      BY <3>1, StreamStays
    <3> QED
      BY <2>2, <3>2, <3>3 DEF h
  <2>3. ASSUME NEW g \in Hosts, HandleWork(g), StartGoroutine(w, g, stream[g][1])
        PROVE  /\ state'[at'[w]] \in Leaving
               /\ \A i \in 1 .. Len(stream'[at'[w]]) : stream'[at'[w]][i] = "remove"
    <3>1. at'[w] = g /\ event'[w] = stream[g][1]
      BY <2>3 DEF StartGoroutine, PositionType
    <3>2. stream[g] \in Seq(Events) /\ stream[g] # <<>> /\ stream'[g] = Tail(stream[g])
      BY <2>3, TakenEvents DEF CattleType
    <3>3. 1 \in 1 .. Len(stream[g])
      BY <3>2
    <3>4. /\ state[g] \in Leaving
          /\ \A j \in 1 .. Len(stream[g]) : stream[g][j] = "remove"
      BY <1>2, <3>1, <3>3 DEF StreamOrder
    <3>5. \A i \in 1 .. Len(stream'[g]) : stream'[g][i] = "remove"
      BY <3>2, <3>4, TailAll
    <3> QED
      BY <3>1, <3>4, <3>5, LeavingForGood
  <2> QED
    BY <2>1, <2>2, <2>3
<1> QED
  BY <1>1, <1>2 DEF WaitOrder

\* Who holds the lock for host.remove, or answers it, has the host to itself.
LEMMA AloneStep ==
  ASSUME TypeOK, LockInv, LabelsMatch, WaitOrder, RemovalAlone, [Next]_vars
  PROVE  RemovalAlone'
<1>t. CattleType /\ PositionType
  BY DEF TypeOK
<1>1. ASSUME NEW w \in Workers, Holds(w)', event'[w] = "remove"
      PROVE  RemoveOnly(at[w]) /\ at'[w] = at[w] /\ at[w] \in Hosts
  <2>1. ASSUME NEW x \in Workers, Lock(x)
        PROVE  RemoveOnly(at[w]) /\ at'[w] = at[w] /\ at[w] \in Hosts
    <3>1. CASE Holds(w) /\ event[w] = "remove" /\ at'[w] = at[w]
      BY <3>1, <1>t DEF RemovalAlone, PositionType, Holds, Busy
    <3>2. CASE ~(Holds(w) /\ event[w] = "remove" /\ at'[w] = at[w])
      <4>1. /\ x = w /\ pc[w] = "lock" /\ event[w] = "remove"
            /\ at'[w] = at[w] /\ at[w] \in Hosts /\ at[w] \notin locked
        BY <1>1, <2>1, <3>2, <1>t DEF Lock, Goto, Holds, Busy, PositionType
      <4>2. \A u \in Workers : Busy(u) /\ at[u] = at[w] => u = w
        BY <4>1 DEF LockInv, WaitOrder, Holds, Busy
      <4> QED
        BY <4>1, <4>2 DEF WaitOrder, RemoveOnly, Busy
    <3> QED
      BY <3>1, <3>2
  <2>2. CASE Holds(w) /\ event[w] = "remove" /\ at'[w] = at[w]
    BY <2>2, <1>t DEF RemovalAlone, PositionType, Holds, Busy
  <2>3. ASSUME NEW g \in Hosts, HandleWork(g)
        PROVE  Holds(w) /\ event[w] = "remove" /\ at'[w] = at[w]
    BY <1>1, <2>3, <1>t DEF HandleWork, StartGoroutine, Goto, worker, Holds, Busy, PositionType
  <2>4. ASSUME NEW x \in Workers, Inside(x) \/ Leaves(x)
        PROVE  Holds(w) /\ event[w] = "remove" /\ at'[w] = at[w]
    BY <1>1, <2>4, <1>t DEF Inside, Leaves, Finish, Goto, Holds, PositionType
  <2>5. CASE Outside
    BY <1>1, <2>2, <2>5 DEF Outside, Holds
  <2>6. ~Restart
    BY <1>1 DEF Restart, Holds
  <2> QED
    BY <2>1, <2>2, <2>3, <2>4, <2>5, <2>6, HandlerStep, OutsideStep
       DEF Next, Router, Handler, Process, Crash, PanicKillsProcess
<1>2. ASSUME NEW h \in Hosts, state'[h] \in {"removed", "gone"} PROVE RemoveOnly(h)
  <2>1. CASE state[h] \in {"removed", "gone"}
    BY <2>1 DEF RemovalAlone
  <2>2. ASSUME NEW w \in Workers, Replies(w), state[h] \notin {"removed", "gone"}
        PROVE  RemoveOnly(h)
    <3>1. h = at[w] /\ event[w] = "remove"
      BY <1>2, <2>2, <1>t DEF Replies, Answered, Awaits, CattleType
    <3> QED
      BY <2>2, <3>1 DEF RemovalAlone, Replies, RemoveOnly
  <2>3. ASSUME NEW w \in Workers, RepliesError(w) PROVE state[h] \in {"removed", "gone"}
    BY <1>2, <2>3, <1>t DEF RepliesError, Refused, Awaits, CattleType
  <2>4. ASSUME NEW g \in Hosts, UserRemoves(g) \/ RecordDeleted(g)
        PROVE  state[h] \in {"removed", "gone"}
    BY <1>2, <2>4, <1>t DEF UserRemoves, RecordDeleted, CattleType
  <2> QED
    BY <1>2, <2>1, <2>2, <2>3, <2>4, StateMoves
<1>3. ASSUME NEW h \in Hosts, h \in removeCache' PROVE RemoveOnly(h)
  <2>1. CASE h \in removeCache
    BY <2>1 DEF RemovalAlone
  <2>2. ASSUME NEW w \in Workers, DeleteMachine(w), h \notin removeCache
        PROVE  RemoveOnly(h)
    <3>1. h = at[w] /\ pc[w] = "delete"
      BY <1>3, <2>2 DEF DeleteMachine
    <3>2. Holds(w) /\ event[w] = "remove"
      BY <3>1 DEF LabelsMatch, PurgeAt, Holds
    <3> QED
      BY <3>1, <3>2 DEF RemovalAlone, RemoveOnly
  <2> QED
    BY <1>3, <2>1, <2>2, CacheGrows
<1>r. \A h \in Hosts : RemoveOnly(h) => RemoveOnly(h)'
  BY <1>t, RemoveOnlyForGood
<1>4. \A w \in Workers : (Holds(w) /\ event[w] = "remove" => RemoveOnly(at[w]))'
  BY <1>1, <1>r DEF RemoveOnly
<1>5. \A h \in Hosts : state'[h] \in {"removed", "gone"} \/ h \in removeCache'
                          => RemoveOnly(h)'
  BY <1>2, <1>3, <1>r
<1> QED
  BY <1>4, <1>5 DEF RemovalAlone

-----------------------------------------------------------------------------
\* OrderInv holds of a service that has just started.
LEMMA InitOrder == Init => OrderInv
BY DEF Init, OrderInv, LabelsMatch, StreamOrder, WaitOrder, RemovalAlone, ProvisionAt,
       PurgeAt, Busy, Holds

\* OrderInv is inductive, when no goroutine overtakes another.
LEMMA OrderStep ==
  ASSUME InOrder PROVE CoreInv /\ OrderInv /\ [Next]_vars => OrderInv'
BY LabelsStep, StreamStep, WaitStep, AloneStep DEF OrderInv, CoreInv, TypeOK

\* Once host.remove is at work on a host, or has been answered, nothing of
\* host.provision is under way for it, nor will be.
THEOREM ProvisionBeforeRemoval ==
  ASSUME InOrder PROVE Spec => []OrderInv
BY InitOrder, OrderStep, CoreInvariant, PTL DEF Spec

-----------------------------------------------------------------------------
(***************************************************************************)
(* What removal achieves.                                                  *)
(***************************************************************************)
Removed == {"removed", "gone"}

\* What is about to be deleted is what was recorded; what has been deleted,
\* is remembered as deleted, or is answered as removed, is not alive.
DeleteSaved ==
    \A w \in Workers : pc[w] = "delete" /\ saved[at[w]] # NoVM
                          => store[at[w]] = saved[at[w]]

RepliedDead ==
    \A w \in Workers : pc[w] = "reply" /\ event[w] = "remove"
                          => saved[at[w]] \notin live

RemovedDead ==
    \A h \in Hosts : state[h] \in Removed \/ h \in removeCache
                        => saved[h] \notin live

DeadInv == DeleteSaved /\ RepliedDead /\ RemovedDead

\* A handler past its look in the cache works on a host that still waits for
\* its answer; after the answer only a cached host is ever asked for again.
PurgedWaits ==
    \A w \in Workers : pc[w] \in PurgeAt \ {"purge"} => state[at[w]] \notin Removed

RepliedCached ==
    \A w \in Workers : pc[w] = "reply" /\ event[w] = "remove" => at[w] \in removeCache

NothingLeft(h) == /\ stream[h] = <<>>
                  /\ \A w \in Workers : Busy(w) => at[w] # h

RemovedCached ==
    \A h \in Hosts : state[h] \in Removed => h \in removeCache \/ NothingLeft(h)

CacheInv == PurgedWaits /\ RepliedCached /\ RemovedCached /\ NoPanic

-----------------------------------------------------------------------------
(***************************************************************************)
(* The moves of saved and live.                                            *)
(***************************************************************************)
\* What is recorded for a host changes in the save loop of createMachine only.
LEMMA SavedMoves ==
  ASSUME [Next]_vars
  PROVE  UNCHANGED saved \/ \E w \in Workers : SaveConfig(w)
<1> USE DEF cattle
<1>1. ASSUME NEW w \in Workers, Provision(w) \/ Purge(w) \/ ErrorReply(w)
      PROVE  UNCHANGED saved \/ SaveConfig(w)
  BY <1>1 DEF Provision, Purge, LoadHost, RestoreHost, CreateMachine, LaunchCreate,
     CommandWait, CleanupResources, ArchiveConfig, ReachDocker, CreateContainer,
     StartContainer, FindAgent, AwaitAgent, TouchStamp, FinalReply, HandlerReturns,
     CheckRemoveCache, RestoreToPurge, DeleteMachine, ErrorReply
<1>2. CASE Cattle \/ Router \/ DockerMachine
  BY <1>2 DEF Cattle, CattleSends, UserRemoves, RecordDeleted, Router, HandleWork, Lock,
     DockerMachine, DockerMachineRegisters, DockerMachineBuilds
<1>3. CASE Docker \/ Process \/ UNCHANGED vars
  BY <1>3 DEF Docker, AgentStarts, BootstrapExits, AgentRegisters, Process, Crash,
     PanicKillsProcess, Restart, CacheExpires, vars
<1> QED
  BY <1>1, <1>2, <1>3 DEF Next, Handler

\* A machine comes to life under "docker-machine create" only.
LEMMA LiveMoves ==
  ASSUME [Next]_vars
  PROVE  live' \subseteq live \/ \E w \in Workers : DockerMachineBuilds(w)
<1> USE DEF cloud
<1>1. ASSUME NEW w \in Workers, Provision(w) \/ Purge(w) \/ ErrorReply(w)
      PROVE  live' \subseteq live
  BY <1>1 DEF Provision, Purge, LoadHost, RestoreHost, CreateMachine, LaunchCreate,
     CommandWait, CleanupResources, ArchiveConfig, SaveConfig, ReachDocker,
     CreateContainer, StartContainer, FindAgent, AwaitAgent, TouchStamp, FinalReply,
     HandlerReturns, CheckRemoveCache, RestoreToPurge, DeleteMachine, ErrorReply,
     RemoveMachine
<1>2. CASE Cattle \/ Router
  BY <1>2 DEF Cattle, CattleSends, UserRemoves, RecordDeleted, Router, HandleWork, Lock
<1>3. CASE Docker \/ Process \/ UNCHANGED vars
  BY <1>3 DEF Docker, AgentStarts, BootstrapExits, AgentRegisters, Process, Crash,
     PanicKillsProcess, Restart, CacheExpires, vars
<1>4. ASSUME NEW w \in Workers, DockerMachineRegisters(w) PROVE live' = live
  BY <1>4 DEF DockerMachineRegisters
<1> QED
  BY <1>1, <1>2, <1>3, <1>4 DEF Next, Handler, DockerMachine

\* A machine that was recorded and is gone stays gone.
LEMMA DeadStaysDead ==
  ASSUME CoreInv, [Next]_vars, NEW h \in Hosts, saved[h] \notin live
  PROVE  saved[h] \notin live'
<1>1. ASSUME NEW w \in Workers, DockerMachineBuilds(w) PROVE saved[h] \notin live'
  <2>1. pc[w] = "dmCreate" /\ made[w] # NoVM /\ live' = live \cup {made[w]}
    BY <1>1 DEF DockerMachineBuilds
  <2>2. owner[made[w]] = at[w] /\ saved[at[w]] = NoVM
    BY <2>1 DEF CoreInv, DataInv, MadeOwned, NewHost, Creating
  <2>3. saved[h] # made[w]
    BY <2>1, <2>2 DEF CoreInv, DataInv, OwnMachinesOnly
  <2> QED
    BY <2>1, <2>3
<1> QED
  BY <1>1, LiveMoves

\* What is recorded for a host changes only under host.provision.
LEMMA SavedStays ==
  ASSUME CoreInv, LabelsMatch, [Next]_vars, NEW h \in Hosts,
         \A w \in Workers : Holds(w) /\ at[w] = h => event[w] = "remove"
  PROVE  saved'[h] = saved[h]
<1>1. ASSUME NEW w \in Workers, SaveConfig(w) PROVE saved'[h] = saved[h]
  <2>1. pc[w] = "save" /\ \/ saved' = saved
                          \/ saved' = [saved EXCEPT ![at[w]] = Machine(w)]
    BY <1>1 DEF SaveConfig
  <2>2. at[w] # h
    BY <2>1 DEF LabelsMatch, ProvisionAt, Holds
  <2> QED
    BY <2>1, <2>2 DEF CoreInv, TypeOK, CattleType
<1> QED
  BY <1>1, SavedMoves

-----------------------------------------------------------------------------
(***************************************************************************)
(* The moves of a worker and of a host's directory.                        *)
(***************************************************************************)
OwnStep(w) == Provision(w) \/ Purge(w) \/ ErrorReply(w)

Unmoved(w) == pc'[w] = pc[w] /\ event'[w] = event[w] /\ at'[w] = at[w]

\* A worker moves by a step of its own handler, or is between two events.
LEMMA WorkerMoves ==
  ASSUME PositionType, [Next]_vars, NEW w \in Workers
  PROVE  \/ Unmoved(w)
         \/ Holds(w) /\ OwnStep(w)
         \/ pc'[w] \in {"idle", "lock", "getHost", "purge"}
<1> USE DEF Unmoved, OwnStep
<1>1. ASSUME NEW h \in Hosts, HandleWork(h) PROVE Unmoved(w) \/ pc'[w] = "lock"
  BY <1>1 DEF HandleWork, StartGoroutine, Goto, worker, PositionType
<1>2. ASSUME NEW u \in Workers, Lock(u)
      PROVE  Unmoved(w) \/ pc'[w] \in {"idle", "getHost", "purge"}
  BY <1>2 DEF Lock, Goto, PositionType
<1>3. ASSUME NEW u \in Workers \ {w}, OwnStep(u) PROVE Unmoved(w)
  <2>1. Inside(u) \/ Leaves(u)
    BY <1>3, HandlerStep
  <2> QED
    BY <1>3, <2>1 DEF Inside, Leaves, Finish, Goto, PositionType
<1>4. OwnStep(w) => Holds(w)
  BY HandlerStep DEF Inside, Leaves
<1>5. CASE Restart
  BY <1>5 DEF Restart
<1>6. CASE Outside
  BY <1>6 DEF Outside
<1> QED
  BY <1>1, <1>2, <1>3, <1>4, <1>5, <1>6, OutsideStep
     DEF Next, Router, Handler, Process, Crash, PanicKillsProcess

\* A directory is touched by the handler of its host only, which goes on to its
\* next step, or is at "docker-machine create".
LEMMA StoreMoves ==
  ASSUME TypeOK, [Next]_vars, NEW h \in Hosts
  PROVE  \/ store'[h] = store[h]
         \/ Restart
         \/ \E u \in Workers : /\ Holds(u) /\ at[u] = h
                               /\ pc[u] = "dmCreate" \/ pc'[u] # pc[u]
<1>t. PositionType /\ DiskType
  BY DEF TypeOK
<1> USE DEF disk, Holds
<1>1. ASSUME NEW u \in Workers, Provision(u) \/ Purge(u) \/ ErrorReply(u)
      PROVE  \/ UNCHANGED store
             \/ RestoreHost(u) \/ RestoreToPurge(u) \/ CleanupResources(u)
             \/ DeleteMachine(u) \/ HandlerReturns(u)
  BY <1>1 DEF Provision, Purge, LoadHost, CreateMachine, LaunchCreate, CommandWait,
     ArchiveConfig, SaveConfig, ReachDocker, CreateContainer, StartContainer, FindAgent,
     AwaitAgent, TouchStamp, FinalReply, CheckRemoveCache, ErrorReply
<1>2. ASSUME NEW u \in Workers, RestoreHost(u) \/ RestoreToPurge(u)
      PROVE  /\ store'[h] = store[h] \/ at[u] = h
             /\ Holds(u) /\ pc'[u] # pc[u]
  BY <1>2, <1>t DEF RestoreHost, RestoreToPurge, Extract, ExtractInPart, Goto,
     PositionType, DiskType
<1>3. ASSUME NEW u \in Workers, CleanupResources(u) \/ DeleteMachine(u)
      PROVE  /\ store'[h] = store[h] \/ at[u] = h
             /\ Holds(u) /\ pc'[u] # pc[u]
  BY <1>3, <1>t DEF CleanupResources, DeleteMachine, RemoveMachine, Goto, PositionType,
     DiskType
<1>4. ASSUME NEW u \in Workers, HandlerReturns(u)
      PROVE  /\ store'[h] = store[h] \/ at[u] = h
             /\ Holds(u) /\ pc'[u] # pc[u]
  BY <1>4, <1>t DEF HandlerReturns, Finish, RemoveHostDir, Goto, PositionType, DiskType
<1>5. ASSUME NEW u \in Workers, DockerMachineRegisters(u) \/ DockerMachineBuilds(u)
      PROVE  \/ store'[h] = store[h]
             \/ Holds(u) /\ at[u] = h /\ pc[u] = "dmCreate"
  BY <1>5, <1>t DEF DockerMachineRegisters, DockerMachineBuilds, DiskType
<1>6. CASE Cattle \/ Router
  BY <1>6 DEF Cattle, CattleSends, UserRemoves, RecordDeleted, Router, HandleWork, Lock
<1>7. CASE Docker \/ Process \/ UNCHANGED vars
  BY <1>7 DEF Docker, AgentStarts, BootstrapExits, AgentRegisters, Process, Crash,
     PanicKillsProcess, CacheExpires, vars
<1> QED
  BY <1>1, <1>2, <1>3, <1>4, <1>5, <1>6, <1>7 DEF Next, Handler, DockerMachine

\* A handler of host.remove that works on h has RemoveOnly(h).
LEMMA PurgeIsAlone ==
  ASSUME PositionType, OrderInv, NEW w \in Workers,
         pc[w] \in PurgeAt \/ (Holds(w) /\ event[w] = "remove")
  PROVE  RemoveOnly(at[w]) /\ at[w] \in Hosts /\ Holds(w)
<1>1. Holds(w) /\ event[w] = "remove"
  BY DEF OrderInv, LabelsMatch, PurgeAt, Holds
<1>2. at[w] \in Hosts
  BY <1>1 DEF PositionType, Busy, Holds
<1>3. RemoveOnly(at[w])
  BY <1>1 DEF OrderInv, RemovalAlone
<1> QED
  BY <1>1, <1>2, <1>3

\* deleteMachine leaves nothing of the recorded machine.
LEMMA DeleteKills ==
  ASSUME CoreInv, DeleteSaved, NEW w \in Workers, DeleteMachine(w),
         pc'[w] = "reply" \/ ~(removeCache' \subseteq removeCache)
  PROVE  saved'[at[w]] \notin live'
<1>1. /\ pc[w] = "delete" /\ saved' = saved
      /\ \/ Machine(w) = NoVM /\ live' = live
         \/ Machine(w) # NoVM /\ live' = live \ {store[at[w]]}
  BY DEF DeleteMachine, RemoveMachine, cattle, Goto, CoreInv, TypeOK, PositionType, service
<1>2. saved[at[w]] # NoVM => store[at[w]] = saved[at[w]]
  BY <1>1 DEF DeleteSaved
<1>3. NoVM \notin live
  BY ConstantsAssumption DEF CoreInv, TypeOK, CloudType
<1> QED
  BY <1>1, <1>2, <1>3 DEF Machine

\* DeadInv is inductive.
LEMMA DeadStep ==
  ASSUME CoreInv, OrderInv, DeadInv, [Next]_vars PROVE DeadInv'
<1>t. PositionType /\ CattleType /\ DiskType /\ LockInv /\ LabelsMatch /\ TypeOK
  BY DEF CoreInv, TypeOK, OrderInv
<1>s. ASSUME NEW h \in Hosts, RemoveOnly(h) PROVE saved'[h] = saved[h]
  BY <1>s, <1>t, SavedStays DEF RemoveOnly, Holds, Busy
<1>1. ASSUME NEW w \in Workers, pc'[w] = "delete", saved'[at'[w]] # NoVM
      PROVE  store'[at'[w]] = saved'[at'[w]]
  <2>1. CASE Unmoved(w)
    <3> DEFINE h == at[w]
    <3>1. pc[w] = "delete" /\ at'[w] = h
      BY <1>1, <2>1 DEF Unmoved
    <3>2. h \in Hosts /\ RemoveOnly(h) /\ Holds(w)
      BY <3>1, <1>t, PurgeIsAlone DEF PurgeAt
    <3>3. saved'[h] = saved[h]
      BY <3>2, <1>s
    <3>4. ~Restart
      BY <1>1 DEF Restart
    <3>5. \A u \in Workers : Holds(u) /\ at[u] = h => u = w
      BY <3>2, <1>t DEF LockInv
    <3>6. store'[h] = store[h]
      <4>1. ~ \E u \in Workers : /\ Holds(u) /\ at[u] = h
                                 /\ pc[u] = "dmCreate" \/ pc'[u] # pc[u]
        BY <3>1, <3>5, <2>1 DEF Unmoved
      <4>2. \A g \in Hosts :
               \/ store'[g] = store[g]
               \/ \E u \in Workers : /\ Holds(u) /\ at[u] = g
                                     /\ pc[u] = "dmCreate" \/ pc'[u] # pc[u]
        BY <3>4, <1>t, StoreMoves
      <4> QED
        BY <3>2, <4>1, <4>2
    <3> QED
      BY <1>1, <3>1, <3>3, <3>6 DEF DeadInv, DeleteSaved
  <2>2. CASE OwnStep(w)
    <3>1. RestoreToPurge(w)
      BY <1>1, <2>2, <1>t DEF OwnStep, Provision, Purge, LoadHost, RestoreHost,
         CreateMachine, PublishReply, LaunchCreate, CommandWait, CleanupResources,
         ArchiveConfig, SaveConfig, ReachDocker, CreateContainer, StartContainer,
         FindAgent, AwaitAgent, TouchStamp, FinalReply, HandlerReturns, Finish,
         CheckRemoveCache, DeleteMachine, ErrorReply, Goto, PositionType
    <3>2. /\ pc[w] = "restoreToPurge" /\ at' = at /\ saved' = saved
          /\ IF cfg[w] = NoVM THEN UNCHANGED disk ELSE Extract(w)
      BY <1>1, <3>1, <1>t DEF RestoreToPurge, Goto, PositionType, cattle
    <3>3. cfg[w] = saved[at[w]] /\ at[w] \in Hosts
      BY <3>2, <1>t DEF CoreInv, DataInv, CfgSaved, Restoring, PositionType, Busy
    <3> QED
      BY <1>1, <3>2, <3>3, <1>t DEF Extract, DiskType
  <2> QED
    BY <1>1, <2>1, <2>2, <1>t, WorkerMoves
<1>2. ASSUME NEW w \in Workers, pc'[w] = "reply", event'[w] = "remove"
      PROVE  saved'[at'[w]] \notin live'
  <2>1. CASE Unmoved(w)
    <3>1. pc[w] = "reply" /\ event[w] = "remove" /\ at'[w] = at[w]
      BY <1>2, <2>1 DEF Unmoved
    <3>2. at[w] \in Hosts /\ RemoveOnly(at[w])
      BY <3>1, <1>t, PurgeIsAlone DEF Holds
    <3>3. saved[at[w]] \notin live
      BY <3>1 DEF DeadInv, RepliedDead
    <3> QED
      BY <3>1, <3>2, <3>3, <1>s, DeadStaysDead
  <2>2. CASE OwnStep(w)
    <3>1. DeleteMachine(w) \/ TouchStamp(w)
      BY <1>2, <2>2, <1>t DEF OwnStep, Provision, Purge, LoadHost, RestoreHost,
         CreateMachine, PublishReply, LaunchCreate, CommandWait, CleanupResources,
         ArchiveConfig, SaveConfig, ReachDocker, CreateContainer, StartContainer,
         FindAgent, AwaitAgent, FinalReply, HandlerReturns, Finish,
         CheckRemoveCache, RestoreToPurge, ErrorReply, Goto, PositionType
    <3>2. CASE TouchStamp(w)
      BY <1>2, <3>2, <1>t DEF TouchStamp, LabelsMatch, ProvisionAt
    <3>3. CASE DeleteMachine(w)
      BY <1>2, <3>3, DeleteKills DEF DeleteMachine, DeadInv
    <3> QED
      BY <3>1, <3>2, <3>3
  <2> QED
    BY <1>2, <2>1, <2>2, <1>t, WorkerMoves
<1>3. ASSUME NEW h \in Hosts, state'[h] \in Removed \/ h \in removeCache'
      PROVE  saved'[h] \notin live'
  <2>1. ASSUME RemoveOnly(h), saved[h] \notin live PROVE saved'[h] \notin live'
    BY <2>1, <1>s, DeadStaysDead
  <2>2. CASE state[h] \in Removed \/ h \in removeCache
    BY <2>1, <2>2 DEF DeadInv, RemovedDead, OrderInv, RemovalAlone, Removed
  <2>3. ASSUME NEW w \in Workers, Replies(w), state[h] \notin Removed,
               state'[h] \in Removed
        PROVE  saved'[h] \notin live'
    <3>1. h = at[w] /\ event[w] = "remove"
      BY <2>3, <1>t DEF Replies, Answered, Awaits, CattleType, Removed
    <3>2. pc[w] \in {"purge", "reply"}
      BY <2>3, <3>1, <1>t DEF Replies, LabelsMatch, ProvisionAt
    <3>3. saved[h] \notin live
      BY <2>3, <3>1, <3>2 DEF Replies, DeadInv, RemovedDead, RepliedDead
    <3> QED
      BY <2>1, <2>3, <3>1, <3>3, <1>t, PurgeIsAlone DEF Replies
  <2>4. ASSUME NEW w \in Workers, RepliesError(w), state'[h] \in Removed
        PROVE  state[h] \in Removed
    BY <2>4, <1>t DEF RepliesError, Refused, Awaits, CattleType, Removed
  <2>5. ASSUME NEW g \in Hosts, UserRemoves(g) \/ RecordDeleted(g),
               state'[h] \in Removed
        PROVE  state[h] \in Removed
    BY <2>5, <1>t DEF UserRemoves, RecordDeleted, CattleType, Removed
  <2>6. ASSUME NEW w \in Workers, DeleteMachine(w), h \notin removeCache,
               h \in removeCache'
        PROVE  saved'[h] \notin live'
    BY <2>6, DeleteKills DEF DeleteMachine, DeadInv
  <2> QED
    BY <1>3, <2>2, <2>3, <2>4, <2>5, <2>6, StateMoves, CacheGrows
<1>4. DeleteSaved'
  BY <1>1 DEF DeleteSaved
<1>5. RepliedDead'
  BY <1>2 DEF RepliedDead
<1>6. RemovedDead'
  BY <1>3 DEF RemovedDead
<1> QED
  BY <1>4, <1>5, <1>6 DEF DeadInv

-----------------------------------------------------------------------------
(***************************************************************************)
(* removeCache, as long as no entry of it expires.                         *)
(***************************************************************************)
NoExpiry == "expire" \notin Faults

\* An entry of removeCache stays until it expires or the process dies.
LEMMA CacheStays ==
  ASSUME NoExpiry, [Next]_vars
  PROVE  removeCache \subseteq removeCache' \/ Restart
<1> USE DEF service
<1>1. ASSUME NEW w \in Workers, Provision(w) PROVE removeCache' = removeCache
  BY <1>1 DEF Provision, LoadHost, RestoreHost, CreateMachine, LaunchCreate, CommandWait,
     CleanupResources, ArchiveConfig, SaveConfig, ReachDocker, CreateContainer,
     StartContainer, FindAgent, AwaitAgent, TouchStamp, FinalReply, HandlerReturns
<1>2. ASSUME NEW w \in Workers, Purge(w) \/ ErrorReply(w)
      PROVE  removeCache \subseteq removeCache'
  BY <1>2 DEF Purge, LoadHost, CheckRemoveCache, RestoreToPurge, DeleteMachine, ErrorReply
<1>3. CASE Cattle \/ Router
  BY <1>3 DEF Cattle, CattleSends, UserRemoves, RecordDeleted, Router, HandleWork, Lock
<1>4. CASE DockerMachine \/ Docker \/ Process \/ UNCHANGED vars
  BY <1>4 DEF DockerMachine, DockerMachineRegisters, DockerMachineBuilds, Docker,
     AgentStarts, BootstrapExits, AgentRegisters, Process, Crash, PanicKillsProcess,
     NoExpiry, CacheExpires, vars
<1> QED
  BY <1>1, <1>2, <1>3, <1>4 DEF Next, Handler

\* With no event and no goroutine left, a removed host gets neither again.
LEMMA NothingComesBack ==
  ASSUME TypeOK, [Next]_vars, NEW h \in Hosts, state[h] \in Removed, NothingLeft(h)
  PROVE  NothingLeft(h)'
<1>t. CattleType /\ PositionType
  BY DEF TypeOK
<1>1. stream'[h] = <<>>
  <2>1. ASSUME NEW g \in Hosts, CattleSends(g) PROVE stream'[h] = stream[h]
    BY <2>1, <1>t DEF CattleSends, Awaits, Removed, CattleType
  <2>2. ASSUME NEW g \in Hosts, HandleWork(g) PROVE stream'[h] = stream[h]
    BY <2>2, <1>t DEF HandleWork, NothingLeft, CattleType
  <2>3. CASE Restart
    BY <2>3 DEF Restart
  <2> QED
    BY <2>1, <2>2, <2>3, StreamMoves DEF NothingLeft
<1>2. ASSUME NEW w \in Workers, Busy(w)' PROVE at'[w] # h
  <2>1. ASSUME NEW g \in Hosts, HandleWork(g) PROVE at'[w] # h
    BY <1>2, <2>1, <1>t DEF HandleWork, StartGoroutine, Goto, worker, NothingLeft, Busy,
       PositionType
  <2>2. ASSUME NEW u \in Workers, Lock(u) PROVE at'[w] # h
    BY <1>2, <2>2, <1>t DEF Lock, Goto, NothingLeft, Busy, PositionType
  <2>3. ASSUME NEW u \in Workers, Inside(u) \/ Leaves(u) PROVE at'[w] # h
    BY <1>2, <2>3, <1>t DEF Inside, Leaves, Finish, Goto, Holds, NothingLeft, Busy,
       PositionType
  <2>4. CASE Outside \/ Restart
    BY <1>2, <2>4 DEF Outside, Restart, NothingLeft, Busy
  <2> QED
    BY <2>1, <2>2, <2>3, <2>4, HandlerStep, OutsideStep
       DEF Next, Router, Handler, Process, Crash, PanicKillsProcess
<1> QED
  BY <1>1, <1>2 DEF NothingLeft

\* CacheInv is inductive, as long as no entry expires.
LEMMA CacheStep ==
  ASSUME NoExpiry, CoreInv, OrderInv, CacheInv, [Next]_vars PROVE CacheInv'
<1>t. PositionType /\ CattleType /\ LockInv /\ LabelsMatch /\ TypeOK
  BY DEF CoreInv, TypeOK, OrderInv
<1> USE DEF Removed
\* A host is answered as removed by the handler that holds its lock.
<1>a. ASSUME NEW h \in Hosts, state[h] \notin Removed, state'[h] \in Removed
      PROVE  \E u \in Workers : /\ Holds(u) /\ at[u] = h
                                /\ pc[u] \in {"purge", "reply"} /\ h \in removeCache
  <2>1. ASSUME NEW u \in Workers, Replies(u)
        PROVE  /\ Holds(u) /\ at[u] = h
               /\ pc[u] \in {"purge", "reply"} /\ h \in removeCache
    <3>1. at[u] = h /\ event[u] = "remove"
      BY <1>a, <2>1, <1>t DEF Replies, Answered, Awaits, CattleType
    <3> QED
      BY <2>1, <3>1, <1>t DEF Replies, LabelsMatch, ProvisionAt, CacheInv, RepliedCached
  <2>2. ASSUME NEW u \in Workers, RepliesError(u) PROVE FALSE
    BY <1>a, <2>2, <1>t DEF RepliesError, Refused, Awaits, CattleType
  <2>3. ASSUME NEW g \in Hosts, UserRemoves(g) \/ RecordDeleted(g) PROVE FALSE
    BY <1>a, <2>3, <1>t DEF UserRemoves, RecordDeleted, CattleType
  <2> QED
    BY <1>a, <2>1, <2>2, <2>3, StateMoves
<1>1. ASSUME NEW w \in Workers, pc'[w] \in PurgeAt \ {"purge"}
      PROVE  state'[at'[w]] \notin Removed
  <2>1. CASE Unmoved(w)
    <3>1. /\ pc[w] \in PurgeAt \ {"purge"} /\ at'[w] = at[w]
          /\ at[w] \in Hosts /\ Holds(w)
      BY <1>1, <2>1, <1>t, PurgeIsAlone DEF Unmoved
    <3>2. state[at[w]] \notin Removed
      BY <3>1 DEF CacheInv, PurgedWaits
    <3>3. \A u \in Workers : Holds(u) /\ at[u] = at[w] => u = w
      BY <3>1, <1>t DEF LockInv
    <3> QED
      BY <3>1, <3>2, <3>3, <1>a DEF PurgeAt
  <2>2. CASE OwnStep(w)
    <3>1. \/ CheckRemoveCache(w)
          \/ LoadHost(w, "getHostToPurge", "restoreToPurge")
          \/ RestoreToPurge(w)
      BY <1>1, <2>2, <1>t DEF OwnStep, Provision, Purge, LoadHost, RestoreHost,
         CreateMachine, PublishReply, LaunchCreate, CommandWait, CleanupResources,
         ArchiveConfig, SaveConfig, ReachDocker, CreateContainer, StartContainer,
         FindAgent, AwaitAgent, TouchStamp, FinalReply, HandlerReturns, Finish,
         DeleteMachine, ErrorReply, Goto, PositionType, PurgeAt
    <3>2. CASE CheckRemoveCache(w)
      <4>1. pc[w] = "purge" /\ at[w] \notin removeCache /\ at' = at /\ state' = state
        BY <1>1, <3>2, <1>t DEF CheckRemoveCache, Finish, Goto, PositionType, PurgeAt
      <4> QED
        BY <4>1, <1>t DEF CacheInv, RemovedCached, NothingLeft, Busy, PositionType
    <3>3. CASE LoadHost(w, "getHostToPurge", "restoreToPurge") \/ RestoreToPurge(w)
      BY <3>3 DEF LoadHost, RestoreToPurge, cattle, CacheInv, PurgedWaits, PurgeAt
    <3> QED
      BY <3>1, <3>2, <3>3
  <2> QED
    BY <1>1, <2>1, <2>2, <1>t, WorkerMoves DEF PurgeAt
<1>2. ASSUME NEW w \in Workers, pc'[w] = "reply", event'[w] = "remove"
      PROVE  at'[w] \in removeCache'
  <2>1. CASE Unmoved(w)
    <3>1. ~Restart
      BY <1>2 DEF Restart
    <3> QED
      BY <1>2, <2>1, <3>1, CacheStays DEF Unmoved, CacheInv, RepliedCached
  <2>2. CASE OwnStep(w)
    <3>1. DeleteMachine(w) \/ TouchStamp(w)
      BY <1>2, <2>2, <1>t DEF OwnStep, Provision, Purge, LoadHost, RestoreHost,
         CreateMachine, PublishReply, LaunchCreate, CommandWait, CleanupResources,
         ArchiveConfig, SaveConfig, ReachDocker, CreateContainer, StartContainer,
         FindAgent, AwaitAgent, FinalReply, HandlerReturns, Finish,
         CheckRemoveCache, RestoreToPurge, ErrorReply, Goto, PositionType
    <3>2. ~TouchStamp(w)
      BY <1>2, <1>t DEF TouchStamp, LabelsMatch, ProvisionAt
    <3> QED
      BY <1>2, <3>1, <3>2, <1>t DEF DeleteMachine, Goto, PositionType
  <2> QED
    BY <1>2, <2>1, <2>2, <1>t, WorkerMoves
<1>3. ASSUME NEW h \in Hosts, state'[h] \in Removed
      PROVE  h \in removeCache' \/ NothingLeft(h)'
  <2>1. CASE Restart
    BY <2>1 DEF Restart, NothingLeft, Busy
  <2>2. CASE h \in removeCache
    BY <2>1, <2>2, CacheStays
  <2>3. CASE h \notin removeCache
    <3>1. state[h] \in Removed
      BY <1>3, <2>3, <1>a
    <3>2. NothingLeft(h)
      BY <2>3, <3>1 DEF CacheInv, RemovedCached
    <3> QED
      BY <3>1, <3>2, <1>t, NothingComesBack
  <2> QED
    BY <2>2, <2>3
<1>4. ASSUME NEW w \in Workers, pc'[w] = "panic" PROVE FALSE
  <2>1. ~Unmoved(w)
    BY <1>4 DEF Unmoved, CacheInv, NoPanic
  <2>2. CASE OwnStep(w)
    <3>1. state[at[w]] = "gone" /\ pc[w] \in ProvisionAt \cup {"getHostToPurge"}
      BY <1>4, <2>2, <1>t DEF OwnStep, Provision, Purge, LoadHost, RestoreHost,
         CreateMachine, PublishReply, LaunchCreate, CommandWait, CleanupResources,
         ArchiveConfig, SaveConfig, ReachDocker, CreateContainer, StartContainer,
         FindAgent, AwaitAgent, TouchStamp, FinalReply, HandlerReturns, Finish,
         CheckRemoveCache, RestoreToPurge, DeleteMachine, ErrorReply, Goto,
         PositionType, RecordMissing, ProvisionAt
    <3>2. CASE pc[w] \in ProvisionAt
      <4>1. event[w] = "provision" /\ Busy(w) /\ at[w] \in Hosts
        BY <3>2, <1>t DEF LabelsMatch, ProvisionAt, Busy, PositionType
      <4>2. RemoveOnly(at[w])
        BY <3>1, <4>1 DEF OrderInv, RemovalAlone, RemoveOnly
      <4> QED
        BY <4>1, <4>2 DEF RemoveOnly
    <3>3. CASE pc[w] = "getHostToPurge"
      BY <3>1, <3>3 DEF CacheInv, PurgedWaits, PurgeAt
    <3> QED
      BY <3>1, <3>2, <3>3
  <2> QED
    BY <1>4, <2>1, <2>2, <1>t, WorkerMoves
<1>5. PurgedWaits'
  BY <1>1 DEF PurgedWaits
<1>6. RepliedCached'
  BY <1>2 DEF RepliedCached
<1>7. RemovedCached'
  BY <1>3 DEF RemovedCached
<1>8. NoPanic'
  BY <1>4 DEF NoPanic
<1> QED
  BY <1>5, <1>6, <1>7, <1>8 DEF CacheInv

-----------------------------------------------------------------------------
\* The machine recorded for a host is gone before the host is answered as
\* removed, and stays gone, whatever crashes or fails: PurgeMachine replies
\* after deleteMachine only, and nothing of host.provision is left by then.
THEOREM RemovalKills ==
  ASSUME InOrder PROVE Spec => []RemovedConfigIsDead
<1>1. Init => DeadInv
  BY ConstantsAssumption
     DEF Init, DeadInv, DeleteSaved, RepliedDead, RemovedDead, Removed
<1>2. CoreInv /\ OrderInv /\ DeadInv /\ [Next]_vars => DeadInv'
  BY DeadStep
<1>3. DeadInv => RemovedConfigIsDead
  BY DEF DeadInv, RemovedDead, Removed, RemovedConfigIsDead
<1> QED
  BY <1>1, <1>2, <1>3, CoreInvariant, ProvisionBeforeRemoval, PTL DEF Spec

\* No handler dereferences the host that ById did not find, as long as no entry
\* of removeCache expires: a removed host is answered from the cache, or the
\* process was restarted and nothing is asked about it any more.
THEOREM NoNilHost ==
  ASSUME InOrder, NoExpiry PROVE Spec => []NoPanic
<1>1. Init => CacheInv
  BY DEF Init, CacheInv, PurgedWaits, RepliedCached, RemovedCached, NoPanic, Removed,
         PurgeAt
<1>2. CoreInv /\ OrderInv /\ CacheInv /\ [Next]_vars => CacheInv'
  BY CacheStep
<1>3. CacheInv => NoPanic
  BY DEF CacheInv
<1> QED
  BY <1>1, <1>2, <1>3, CoreInvariant, ProvisionBeforeRemoval, PTL DEF Spec

=============================================================================
