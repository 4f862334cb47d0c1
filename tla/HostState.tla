------------------------------ MODULE HostState ------------------------------
(***************************************************************************)
(* What the host handlers of go-machine-service read and write, and the    *)
(* parties around them.                                                    *)
(*                                                                         *)
(*   Cattle          the Rancher API: the host record, the state machine   *)
(*                   that sends host.provision / host.remove and waits for *)
(*                   a reply (external; modelled from the calls made to it)*)
(*   docker-machine  the machine store inside a host's directory, and the  *)
(*                   virtual machines it creates and removes (external)    *)
(*   docker          the bootstrap and agent containers of a VM (external) *)
(*   the service     worker goroutines, the resource lock, the cache of    *)
(*                   removed hosts: all lost in a crash                    *)
(*                                                                         *)
(* A directory <work dir>/machines/<uuid> is abstracted to what the code   *)
(* looks for in it: the machine that docker-machine lists there (store)    *)
(* and the "created" stamp of that machine (stamp).                        *)
(***************************************************************************)
EXTENDS Naturals, Sequences, FiniteSets

CONSTANTS
    Hosts,        \* ids of host resources
    Workers,      \* the worker slots of the "host" event router
    VMs,          \* identities a created virtual machine may get
    NoVM,         \* "no machine": an empty store, an empty extractedConfig
    NoHost,       \* "no host"
    Faults,       \* the fault kinds allowed to happen, a subset of FaultKinds
    MaxFailures,  \* bound: how many failures may happen in a behaviour
    MaxInFlight   \* bound: unread events of one host on the event stream

(***************************************************************************)
(* Failures every run allows are the error returns the code recovers from. *)
(* The kinds below are the ones it does not, so that a run can say which   *)
(* of them it admits.                                                      *)
(*   crash    the process dies and is started again                        *)
(*   cleanup  "docker-machine ls/rm" fails inside cleanupResources         *)
(*   archive  createExtractedConfig or encodeFile fails                    *)
(*   save     all 100 attempts at Host.Update(ExtractedConfig) fail        *)
(*   expire   an entry of removeCache reaches its 5 minutes                *)
(*   overtake a goroutine reaches the lock before one started earlier      *)
(***************************************************************************)
FaultKinds == {"crash", "cleanup", "archive", "save", "expire", "overtake"}

ASSUME ConstantsAssumption ==
    /\ NoVM \notin VMs
    /\ NoHost \notin Hosts
    /\ Faults \subseteq FaultKinds
    /\ MaxFailures \in Nat
    /\ MaxInFlight \in Nat \ {0}

VARIABLES
    state,        \* Cattle: the state of each host resource
    saved,        \* Cattle: the machine whose directory is in extractedConfig
    agentId,      \* Cattle: the hosts whose agentId is set
    stream,       \* Cattle: events sent on the websocket and not yet read
    live,         \* cloud: the machines that exist
    owner,        \* cloud: the host each machine was created for
    boot,         \* docker: the container "rancher-agent-bootstrap" of a VM
    agentUp,      \* docker: the VMs where "/rancher-agent" is running
    store,        \* disk: the machine listed by docker-machine, per host
    stamp,        \* disk: whether its "created" stamp exists
    locked,       \* service: resource ids held by the locker goroutine
    removeCache,  \* service: resource ids in removeCache
    pc,           \* worker: where its goroutine is
    event,        \* worker: the event it handles
    at,           \* worker: the host of that event
    cfg,          \* worker: ExtractedConfig as read by getHostAndHostDir
    made,         \* worker: the machine "docker-machine create" has made
    failures      \* how many failures have happened

cattle  == <<state, saved, agentId, stream>>
cloud   == <<live, owner, boot, agentUp>>
disk    == <<store, stamp>>
service == <<locked, removeCache>>
worker  == <<pc, event, at, cfg, made>>
vars    == <<cattle, cloud, disk, service, worker, failures>>

HostStates == {"provisioning", "active", "error", "removing", "removed", "gone"}
Events     == {"provision", "remove"}
Containers == {"none", "created", "running"}
Labels     == {"idle", "lock", "panic",
               "getHost", "restore", "create", "launch", "dmCreate", "cleanup",
               "archive", "save", "register", "container", "start",
               "findAgent", "awaitAgent", "touch",
               "purge", "getHostToPurge", "restoreToPurge", "delete",
               "reply", "returnOk", "returnErr", "errorReply"}

Busy(w)  == pc[w] # "idle"
Holds(w) == pc[w] \notin {"idle", "lock"}   \* w is past locker.Lock()

CattleType ==
    /\ state \in [Hosts -> HostStates]
    /\ saved \in [Hosts -> VMs \cup {NoVM}]
    /\ agentId \subseteq Hosts
    /\ stream \in [Hosts -> Seq(Events)]

CloudType ==
    /\ live \subseteq VMs
    /\ owner \in [VMs -> Hosts \cup {NoHost}]
    /\ boot \in [VMs -> Containers]
    /\ agentUp \subseteq VMs

DiskType ==
    /\ store \in [Hosts -> VMs \cup {NoVM}]
    /\ stamp \in [Hosts -> BOOLEAN]

ServiceType ==
    /\ locked \subseteq Hosts
    /\ removeCache \subseteq Hosts

PositionType ==
    /\ pc \in [Workers -> Labels]
    /\ event \in [Workers -> Events \cup {"none"}]
    /\ at \in [Workers -> Hosts \cup {NoHost}]
    /\ \A w \in Workers : Busy(w) => event[w] \in Events /\ at[w] \in Hosts

CarriedType ==
    /\ cfg \in [Workers -> VMs \cup {NoVM}]
    /\ made \in [Workers -> VMs \cup {NoVM}]

TypeOK ==
    /\ CattleType
    /\ CloudType
    /\ DiskType
    /\ ServiceType
    /\ PositionType
    /\ CarriedType
    /\ failures \in Nat

Init ==
    /\ state = [h \in Hosts |-> "provisioning"]
    /\ saved = [h \in Hosts |-> NoVM]
    /\ agentId = {}
    /\ stream = [h \in Hosts |-> <<>>]
    /\ live = {}
    /\ owner = [v \in VMs |-> NoHost]
    /\ boot = [v \in VMs |-> "none"]
    /\ agentUp = {}
    /\ store = [h \in Hosts |-> NoVM]
    /\ stamp = [h \in Hosts |-> FALSE]
    /\ locked = {}
    /\ removeCache = {}
    /\ pc = [w \in Workers |-> "idle"]
    /\ event = [w \in Workers |-> "none"]
    /\ at = [w \in Workers |-> NoHost]
    /\ cfg = [w \in Workers |-> NoVM]
    /\ made = [w \in Workers |-> NoVM]
    /\ failures = 0

-----------------------------------------------------------------------------
(***************************************************************************)
(* Steps of a handler.                                                     *)
(***************************************************************************)
Goto(w, label) == pc' = [pc EXCEPT ![w] = label]

\* A call that may fail does so at most MaxFailures times in a behaviour.
Fail   == failures < MaxFailures /\ failures' = failures + 1
NoFail == UNCHANGED failures

\* The machine the directory of w's host lists.
Machine(w) == store[at[w]]

\* Host.ById answers 404 with (nil, nil); every reader then dereferences nil.
RecordMissing(w) == state[at[w]] = "gone"

=============================================================================
