# A TLA+ model of go-machine-service

go-machine-service connects Rancher (Cattle) to docker-machine. It reads
events from Cattle's websocket, creates or removes virtual machines with
`docker-machine`, installs the Rancher agent on them, and answers each event
with a reply. It also installs docker-machine driver plugins and publishes the
API schemas that belong to them.

This directory holds TLA+ modules that model it, TLC configurations that check
them, and theorems that TLAPS proves about them.

## Inventory

| component | state | operations | interacts with |
|---|---|---|---|
| event router, worker pool (`events/listener.go`, `events/worker.go`) | free workers, websocket | read an event, start a goroutine or drop the event, error reply | Cattle, lock, handlers |
| resource lock (`locks/locks.go`) | map of locked ids, one goroutine | lock, unlock | doWork |
| host.provision handler (`handlers/create.go`) | host directory, stamps, publishChan, errChan | restore or create, save, bootstrap the agent, reply | Cattle, docker-machine, docker |
| host.remove handler (`handlers/remove.go`) | removeCache, host directory | restore, delete the machine, reply | Cattle, docker-machine |
| archive and restore (`handlers/config.go`) | host directory | tar and base64 into ExtractedConfig, and back | both handlers |
| progress messages (`create.go` logProgress, `common.go` republishTransitioningReply) | two channels, a ticker | filter, publish, republish | docker-machine output, Cattle |
| host templates, command line, providers (`common.go`, `create.go`, `providers/`) | none | pure transformations | host.provision handler |
| machine drivers (`dynamic/driver.go`) | cache files, `.error` files, binaries | stage, install, remove | driver handlers, startup |
| driver activation, schemas (`handlers/machine_driver.go`, `dynamic/driver_info.go`, `machine.go`) | schemaLock, dynamic schemas in Cattle | activate, deactivate, remove, upload | Cattle, driver plugins |
| startup (`main.go`, `dynamic/start.go`, `builtin.go`) | the `ready` channel | reactivate, download, sync builtin drivers | routers, Cattle |

What makes each of them correct, and hard:

* **Router, pool and lock.** One handler at a time per resource, however
  goroutines are scheduled; an event that is dropped (no worker, or resource
  locked) is not fatal, because Cattle repeats it; a lock is always given back.
* **Host handlers.** A host has at most one machine; the only records of it are
  the host directory, which every handler removes on its way out, and
  ExtractedConfig in Cattle, written once. No machine may fall between the two:
  on errors, on lost replies, on retries, on crashes. The removal reply must
  not precede the deletion. The handlers keep a cache of hosts they purged and
  answer repeated removals from it, until the entries expire.
* **Progress messages.** Three goroutines and two channels: nobody may send on
  a closed channel, nobody may be blocked for ever, the last message must not
  overtake the final reply.
* **Drivers.** Files that several goroutines write without a lock, an error
  that is kept in a file until it is read, schemas that are removed and
  re-created in several calls.

The full list of hazards, with the line at which each one bites and the
properties that cover it, is in `PROJECT.json`.

## Modules

| module | models |
|---|---|
| `HostState` | the variables of the host half, their types, the initial state, the kinds of faults, the helpers of a handler's step |
| `EventRouter` | Cattle's side of the conversation, the event stream, `HandleWork`, the lock, `doWork`'s error reply, `Unlock`, crash, panic and restart |
| `ProvisionHost` | `CreateMachineAndActivateMachine`, `createMachine`, `registerRancherAgent`, `cleanupResources`, docker-machine and docker as they are used there |
| `PurgeHost` | `PurgeMachine` and `removeCache` |
| `HostLifecycle` | the composition, its fairness, its properties, the refinement mapping to `MachineContract` |
| `MachineContract` | the abstract specification: what may happen to a virtual machine, with no word of workers, locks, directories or replies |
| `MCHostLifecycle` | the symmetry sets of the TLC runs |
| `ProgressChannel` | the goroutines of one `host.provision`: the handler as far as its channels are concerned, `startReturnOutput`, `logProgress`, `republishTransitioningReply`; docker-machine and its pipes |
| `CreateCommand` | the way of a driver's options: `flagToField`, the values of host and template (`apply`, `copyData`, `populateFields`), azure's `HandleCreate`, `buildMachineCreateCmd` |
| `DriverState` | the variables of the driver half, their types, the initial states, the kinds of faults |
| `DriverFiles` | `dynamic.Driver`: `Stage`, `Install`, `Remove`, the error file |
| `DriverSchemas` | `GenerateAndUploadSchema`, `UploadMachineSchemas`, `RemoveSchemas`, `schemaLock` |
| `DriverHandlers` | `ActivateDriver`, `removeDriver`, `ErrorDriver`, and Cattle's side of them |
| `DriverLifecycle` | the composition with the startup (`ReactivateOldDrivers`, `SyncBuiltin`, `DownloadAllDrivers`), crash and restart, fairness, properties |
| `MCProgressChannel`, `MCCreateCommand`, `MCDriverLifecycle` | names and sets for the TLC runs |
| `HostRemovalProofs`, `HostContractProofs` | theorems about `HostLifecycle`, the second module building on the first |
| `DriverSchemaProofs`, `DriverFileProofs`, `DriverStartupProofs`, `DriverOfferProofs` | theorems about `DriverLifecycle`; the last two build on `DriverFileProofs`, and this on the first |
| `ProgressProofs`, `CreateCommandProofs` | theorems about `ProgressChannel` and about `CreateCommand` |

The host half (`HostLifecycle`) and the driver half (`DriverLifecycle`) share
nothing but the process and Cattle: routers of their own, workers of their own,
directories of their own. A provisioning uses the installed plugin by starting
docker-machine, which is one call that may fail. `ProgressChannel` refines what
`HostLifecycle` takes as one call of a handler, "run docker-machine create and
report on it", and `CreateCommand` what it takes as "prepare the command".

### State and code

| variable | in the code or around it |
|---|---|
| `state`, `saved`, `agentId` | the host record of Cattle: its state, the machine whose directory ExtractedConfig holds, whether `AgentId` is set |
| `stream` | events sent on the websocket and not yet read by `EventRouter.run` |
| `live`, `owner` | machines in the cloud, and the host each was created for |
| `boot`, `agentUp` | the container `rancher-agent-bootstrap` of a machine; whether `/rancher-agent` runs |
| `store`, `stamp` | the directory `<work dir>/machines/<uuid>`: the machine that `docker-machine ls` finds in it, and the stamp that `touchCreatedStamp` leaves |
| `locked` | the map of the `locker` goroutine |
| `removeCache` | the go-cache of the same name |
| `pc`, `event`, `at` | per worker slot: where its goroutine is, the event it handles, that event's host |
| `cfg`, `made` | what the goroutine carries: ExtractedConfig as `getHostAndHostDir` read it, the machine that its `docker-machine create` has made |
| `failures` | how many failures have happened (a bound for TLC) |

A directory is abstracted to the machine it lists and the stamp; an archive to
the machine in it. A handler is a sequence of actions, one per call that reads
or writes something outside the goroutine, and each action contains the error
returns of its call. `pc` values name the call that comes next:

    provision: getHost restore (create launch dmCreate archive save) register
               container start findAgent awaitAgent touch reply returnOk
    remove:    purge getHostToPurge restoreToPurge delete reply returnOk
    errors:    cleanup returnErr errorReply panic

`returnErr` and `returnOk` stand for the deferred `os.RemoveAll(hostDir)`;
paths that return before it is deferred go to `errorReply` directly.
`docker-machine create` is two steps of its own, `DockerMachineRegisters` and
`DockerMachineBuilds`, which interleave with everything else: it writes the
machine to its store before the cloud builds it, and may fail at any point.

A reply may be delivered and yet return an error (`PublishReply`), or be lost.
Cattle acts on the first final reply only; it repeats an event while the host
is in the state that sends it; a removal may be asked for in any state, also
while a provisioning runs.

**Progress messages** (`ProgressChannel`)

| variable | in the code or around it |
|---|---|
| `hpc`, `told`, `reply` | the handler: the call that comes next, the error that `createMachine` returns (the number of a line), the final reply |
| `script`, `written`, `dm` | docker-machine: the lines it has to write, by kind; how many it has written; whether it runs or how it exited |
| `outPipe`, `errPipe`, `pipesOpen` | the two pipes; `command.Wait` closes the reading ends |
| `lpc`, `buffered` | `logProgress`: the stream it reads, the lines in its scanner |
| `errChan`, `errClosed`, `publishChan`, `closed` | the channels |
| `rpc`, `lastMsg`, `shown` | the republisher, the message it repeats, the message that Cattle shows |

**Drivers** (`DriverState`)

| variable | in the code or around it |
|---|---|
| `dstate`, `named`, `default`, `current` | the record of a driver in Cattle: its state, whether it has a name, `DefaultActive`, whether `SchemaVersion` is that of this service |
| `pending`, `requests` | events sent about it, requests that users have made |
| `config`, `host` | the `<name>Config` schemas that exist; for each upload's roles, the names that its "host" schemas offer |
| `cache`, `staged`, `errFile` | per driver the cache file, `<cache file>-<name>` and `<cache file>.error` |
| `tmp`, `bin` | per name `<bin dir>/<name>-tmp` and `<bin dir>/<name>` |
| `connected` | routers that have sent on `ready` |
| `schemaLock` | the mutex of that name |
| `pc`, `job`, `drv`, `src`, `listed`, `todo` | the goroutines, the startup among them: the call that comes next, the event, the driver, whether what `Install` copies is whole, the names that `UploadMachineSchemas` has read, the drivers that the startup has listed |

A file is absent, whole or torn, or it is the goroutine that is writing it. Who
opens a file that another goroutine writes truncates it and becomes its writer;
who copies a file that is truncated meanwhile copies a part of it. `pc` names:

    activate:   getDriver getError isInstalled download copyStaged nameCache
                nameCheck open copy rename genLock flags removeConfig
                createConfig version uploadLock list removeHost
                service project user readonly publish
    remove:     getDriver rmSchemas getToRemove rmBin rmStaged rmCache
                uploadLock ... publish
    error:      getDriver clearError publish;    any error: errorReply
    startup:    ready1 ready2 listOld reactivateOld listBuiltin sync listAll
                nextDriver getError ... rename redo done

**Options** (`CreateCommand`): `driver` and `flags` are what the plugin has,
`schema` the fields that are described to Cattle, `given` the values in the
host's record and the template, `struct` and `fields` the two copies of the
configuration in `client.Host`, `args` docker-machine's arguments. A name is a
sequence of words, a word a sequence of characters out of two letters and a
digit; of a value the type, and the source that gave it, are kept.

### Faults

Error returns that the handlers answer with a retry or a clean-up are always
possible, up to `MaxFailures`. The failures the code has no answer to have
names, and a run says in `Faults` which of them it admits:

| fault | meaning |
|---|---|
| `crash` | the process dies at any point and is started again, with or without its work directory |
| `cleanup` | docker-machine fails inside `cleanupResources`, whose error is dropped |
| `archive` | `createExtractedConfig` or `encodeFile` fails, when `machineCreated` is already set |
| `save` | all 100 attempts to save ExtractedConfig fail |
| `expire` | an entry of `removeCache` expires, however soon |
| `overtake` | a goroutine comes to the lock before one that was started earlier for the same host |

`overtake` deserves a word. `HandleWork` starts a goroutine per event and the
Go scheduler promises no order between them. Should the goroutine of an old
`host.provision` be delayed until the whole of a later `host.remove` is over,
it finds the lock free and nothing in the way, and creates a machine for a host
that was answered as removed. TLC finds this in seconds when `RemovedHasNoVM` or
`RemovedConfigIsDead` is checked with `overtake`. Those properties are
therefore stated for goroutines that come to the lock in order, and the
theorems about them name that assumption (`InOrder`).

The driver half has kinds of its own:

| fault | meaning |
|---|---|
| `crash` | the process dies and is started again in the same container |
| `replace` | it is started in a new one, with an empty disk, of the same version or another |
| `repeat` | Cattle sends an event again that is being handled |
| `reactivate` | users reactivate, or update, active drivers |
| `unnamed` | records without a name, which they get when they are activated |

and so has `ProgressChannel`: `timeout`, the 10 seconds of `createMachine` run
out; `afterwards`, a call after the creation fails, the final reply included.

## Properties and runs

| run | faults | what it shows |
|---|---|---|
| `host_recovers` | expire | `NoOrphanVM`: every machine that exists is recorded in Cattle, or listed in the directory of a handler at work. `ActiveIsManaged`: an active host has its recorded machine and a registered agent. `RemovedHasNoVM`: a removed host leaves no machine behind. `KeepsContract`: the handlers implement `MachineContract` |
| `host_pool` | expire, overtake | two hosts. `OneHandlerPerHost`: handlers of one host exclude each other, and the locks held are those of the handlers at work. `OwnMachinesOnly`: handlers stay with the machines of their host. `CreatedOnlyWhenNew`: a machine is created only for a host with none recorded, by the holder of its lock |
| `host_live` | crash, cleanup, archive, save | `TypeOK`. `NoPanic`: no handler reads a deleted host. `RemovedConfigIsDead`: the recorded machine is gone before the removal is answered, and stays gone. `SavedIsFinal`: ExtractedConfig is never replaced. `ProvisioningEnds`, `RemovalEnds`, `LocksAreReleased`: every request ends, every lock is given back |
| `host_stamp_reply` | crash | violated, see below |
| `host_missing` | expire | violated, see below |
| `progress_ends` | timeout, afterwards | `TypeOK`. `FirstErrorTold`: the error that is told is the first that docker-machine wrote, stdout before stderr. `NothingOvertakes`: messages of one sender are shown in their order. `HandlerEnds`, `RepublisherStops`: neither waits for ever, if the output that nobody reads fits into the pipes (`Fits`). `OneErrorIsLogged`: logProgress gets through output with one error |
| `progress_panics` | none | violated, see below |
| `create_command` | errors of apply and HandleCreate | `TypeOK`. `NamesReturn`: which flags are the same flag again after the way through the schema. `DescribedIsAccepted`: no value of a described type is refused. `ConfigArrives`, `SecretsArrive`: docker-machine gets every option with the value that counts |
| `drivers_handled` | repeat | after the startup. `OfferedWhenQuiet`: the schemas are those of the active drivers. `RolesAgree`: between uploads all roles have the same. `UploadOffers`: an upload that ends has its list with every role, whatever has failed before. `FreshAttempt`: an error is told once. `InstalledIsWhole`: no incomplete plugin where plugins are run from. `ActiveIsUsable`: an active driver has a plugin that can be run, and a schema |
| `drivers_startup` | crash, reactivate | handlers while the startup works. `ActivatedIsUsable`: a driver that becomes active has, at that moment, a plugin that can be run, and a schema. `UsableIfAlone`, `RestoredIfAlone`: in behaviours where no handler stages or installs a plugin while the startup does, an active driver can be used, and after the startup its plugin is on this disk |
| `drivers_live` | crash, replace, unnamed | `TypeOK`. `UpgradedWhenReady`: after the startup active drivers are activated by this version. `RestoredIfAlone`, with new containers. `TransitionEnds`, `StartupEnds`: every request is settled, the startup ends |
| `drivers_same_name` | none | violated, see below |

Every property that passes is also run against a mutant of a modelled
operation, which breaks it; the mutants stand in the modules next to the
operations and say what they change.

### Bounds

**Host half.** `MaxFailures` failures per behaviour, 3 in `host_recovers` and
`host_live`; `MaxInFlight` unread events per host, 1 or 2. One host and two
workers are the smallest instance where a repeated event meets a held lock; two
hosts and two workers, in `host_pool`, the smallest where hosts compete for
workers and where a mix-up of directories could show. Two workers allow one
event of a host to wait for the lock while another holds it, and a third to
find no worker. `VMs` bounds the attempts to create a machine: three in
`host_recovers`, so that two attempts may fail and be cleaned up before one
succeeds, two elsewhere. When all identities are used `docker-machine create`
can only fail, which it always may. Three failures allow a lost reply, a failed
retry and a failed removal in one behaviour. Machines and workers (and hosts,
in `host_pool`) are symmetric: the specification compares them for equality
only. So are the workers in `drivers_handled`. The runs with liveness properties
use no symmetry.

In `host_recovers`, with one host, a panic caused by an expired cache entry can
harm nobody else. With more hosts it can: the restart interrupts handlers of
other hosts between creation and save. The theorems for any number of hosts
(`HostContractProofs`) therefore exclude `expire` as well.

**Progress.** Three lines of output fill a pipe of one line and errChan, and
leave more to read when docker-machine has exited; publishChan holds two
messages instead of ten, so that it fills up. Pipes of one line stand for pipes
of 64 KB. Two of the lines may be errors: the second is the one that errChan has
no room for, and the third line then stays in the pipe.
`HandlerEnds` and `RepublisherStops` are stated for output of which the part
that nobody reads fits into the pipes (`Fits`): all of stderr, and what follows a
second error on stdout. With more the handler waits for ever: two lines of
stderr do that here, as logProgress reads stderr last; two errors on stdout and
two more lines would (`MaxLines` 4).

**Options.** Names with one and two words, words with a digit at either end or
of one letter, an option without words; two options at a time, so that two may
have one field, where the driver's name has one word (with two, no flag returns);
each source gives any of the fields, empty or not.

**Drivers.** One failure and two requests: an activation that fails, and the
next. Two drivers and two workers, one of the drivers built in, are the smallest
instance where uploads of two handlers meet. `drivers_startup` and
`drivers_live` have one driver and one worker: what they ask is about one driver
at a time, and its startup and its handler are the two goroutines that meet.
`drivers_startup` has two requests (deactivate the driver, and activate it
again) and one failure, or crash. That is enough for them to meet: at these
bounds `DownloadedWhenReady` and `ActiveIsUsable`, without the restriction to
behaviours where they do not, are both violated. In
`drivers_live`, with one request, they hardly meet; what it adds to
`RestoredIfAlone` is the new container with its empty disk.

Deadlock is not checked: when nobody has anything left to ask the systems rest.

### Fairness

`FairSpec` of `HostLifecycle` assumes weak fairness of

* `CattleSends`: Cattle repeats the event of a host in transition (its process
  engine does, until the process is answered);
* `HandleWork`: the reader loop of the router is a goroutine that only blocks
  on the websocket;
* every step of a worker's goroutine: every wait of a handler ends, by the
  count of its attempts (100 updates, 30 and 150 polls), or with the exit of
  docker-machine, which is assumed;
* `PanicKillsProcess`: a panic ends the process and its supervisor restarts it.

Nothing is assumed of users, of the cloud, of the agent or of the failures.
That a call ends is an assumption wherever the code sets no limit: docker-machine,
docker, Cattle, and the download of a plugin, which `http.Get`
(`driver.go:326`) gives as long as it takes. A call that hangs keeps its host
locked, or its driver in transition, and a download in the startup keeps that
from its end. No strong fairness is needed: an event that is dropped, because no
worker is free or its host is locked, is sent again while the host is in
transition, and each handler that is in its way ends.

`FairSpec` of `DriverLifecycle` assumes the same of Cattle, of the handlers and
of the startup, and that every router connects. `FairSpec` of `ProgressChannel`
assumes weak fairness of the handler, of docker-machine (which writes what it
has to, unless a pipe is full, and exits), of logProgress and of a POST that
is under way. `Receive` is strongly fair: Go's `select` chooses among the ready
cases at random, so a channel that stays ready is not passed over for ever in
favour of the ticker.

### Where the code does not do what it says

* `host_stamp_reply`: a "created" stamp left by a crash makes `createMachine`
  publish the final reply (`create.go:94`), so a host becomes active before its
  agent is installed; "Host is not registered correctly" (`create.go:278`)
  can then no longer be told to anyone.
* `host_missing`: the error "can't find host with resourceId"
  (`common.go:255`) reads the id of a nil host, and panics. The way there is a
  removal repeated after the cache entry has expired.
* `progress_panics`: logProgress, which logs "ignoring all errors"
  (`create.go:329`), sends on publishChan after the handler has closed it. The
  way there is a failed creation whose error is on stdout, with another line
  after it.
* `drivers_same_name`: "An active driver name %s already exists"
  (`machine_driver.go:130`) is not said to either of two drivers that are
  activated at the same time.

Met while modelling, and not listed as findings because no sentence of the repository
is contradicted, or because the case is outside of a run:

* The log says "Machine config file saved." (`create.go:162`) after the 100th
  failed update as after a successful one, and the handler goes on with a machine
  that is recorded nowhere when it returns.
* A second error in docker-machine's output blocks logProgress for ever, though it
  says "ignoring all errors": errChan has room for one, and the handler reads it
  only when docker-machine has exited. If the error is on stdout and more follows
  than the pipe holds, docker-machine does not exit, `command.Wait`
  (`create.go:128`) does not return and the host stays locked.
* A docker-machine that writes more to stderr than a pipe holds, before it ends
  its stdout, blocks the handler too.
* "Done downloading all drivers" (`start.go:86`) is logged when the plugin of an
  active driver is incomplete. A user deactivates a driver and activates it again
  after the startup has listed it. The startup, which found no cache file,
  downloads it too, and `os.Create` (`driver.go:270`) truncates the staged binary
  that the new activation has just put into the cache file. If the process dies
  then, the next startup finds a cache file and no error, and moves the incomplete
  binary over the plugin. One driver, two requests and one crash do it, and
  `DownloadedWhenReady` alone is violated.
* The startup waits for two routers of three, which need not include that of the
  drivers. What it asks for is answered when that router connects.
* The startup can truncate, or install incomplete, the plugin of an active
  driver without a crash as well: its copy of the download fails, the service
  starts again and returns the error that was kept, and the start after that
  installs what is left. `ActiveIsUsable` is violated that way.
* A call that fails while schemas are removed leaves the old schema beside the
  new one: `uploadDynamicSchema` drops the error of `RemoveSchemas`
  (`driver_info.go:143`).
* A driver of which two uploads are under way may be listed by the later one
  although it is not active any more (with reactivations, and with records that
  get their names late).
* "If we find more than one we apply all secret values, but not public"
  (`common.go:104`): of a single one the public values are not applied either.

`NoOrphanVM` is violated by each of the faults `archive`, `cleanup`, `save` and
`crash`, and, with `overtake`, `RemovedHasNoVM` and `RemovedConfigIsDead` are; but
for what the log says of `save`, nothing in the repository promises otherwise, so
these stay hazards.

## Proofs

The theorems about `HostLifecycle` hold for every set of hosts, workers and
machines and for every bound, from the named assumption `ConstantsAssumption`
(`NoVM` is no machine, `NoHost` no host, `Faults` are faults, the bounds are
numbers).

1. `HostRemovalProofs`, first part, whatever fails. Every step of a handler stays inside it,
   with its lock, or leaves it (`HandlerStep`); no other step moves a worker
   that holds a lock (`OutsideStep`). From that, `LockInv` is inductive: locks
   held and workers inside handlers correspond one to one. `CoreInv` is the
   conjunction of `TypeOK`, `LockInv` and `DataInv`. `OwnMachinesOnly` alone is
   not inductive: what a handler carries must belong to its host (`CfgSaved`,
   `MadeOwned`), and a handler between "nothing is recorded" and "it is
   recorded" must still have nothing recorded (`NewHost`), which holds because
   it is alone. Theorems: `TypeCorrect`, `MutualExclusion`, `HostsAreSeparate`,
   `SavedForGood`, `NoSecondMachine`.
2. `HostRemovalProofs`, second part, for goroutines in order. `OrderInv` says that in a
   stream, at the lock and inside the handlers, everything of `host.provision`
   comes before anything of `host.remove`; it rests on the facts that a host
   that is leaving never comes back, and that at most one goroutine per host
   waits for the lock: `ProvisionBeforeRemoval`. `DeadInv` follows the recorded
   machine through `PurgeMachine`: restored before it is deleted, dead when the
   reply is sent, dead while the host is in the cache or removed:
   `RemovalKills`, with every fault but overtaking. `CacheInv` says that a
   removed host is in the cache or has nothing under way: `NoNilHost`, without
   expiry.
3. `HostContractProofs`, for `Faults = {}` (`Quiet`). `RecoverInv` accounts for
   every machine: a directory lists the recorded machine or that of an attempt
   in progress, and what exists is recorded or listed: `NothingIsLost`,
   `RemovalLeavesNothing`. `ManageInv` is what makes an active host managed.
   A handler that replies has been at docker on the machine and at the agent
   (`Reached`, `AgentKnown`); what it is about to record exists (`Built`); and
   the short cut of `createMachine`, which replies at once when the directory
   has the stamp, is not taken, because a stamp is on disk only while the
   handler that set it runs or removal has begun (`StampKnown`):
   `ActiveHostsAreManaged`. It needs `NoPanic` of the module before, since a
   panic restarts the process and leaves the stamps. For the refinement,
   `ContractKept`, each step is looked at twice: what it does to the fate of
   the machines, which is a step of `MachineContract` of one host
   (`FateMoves`), and to what Cattle wants of the host (`WishMoves`); no step
   does both.

   `Quiet` excludes `expire`, which the run `host_recovers` admits with its one
   host: there an expired entry leads to a panic that harms nobody else. With a
   second host the restart can orphan a machine that is being created for it.

The theorems about `DriverLifecycle` hold for every set of drivers and workers
and for every bound, from `DriverAssumption` (who is built in is a driver, the
startup is no worker, callers are no file states).

4. `DriverSchemaProofs`. Every step of every goroutine stays outside of the
   locked parts, takes the lock, stays inside, or leaves and gives it back
   (`HandleMoves`, `ListsOutside`); so `LockInv` (who is inside holds the lock)
   is inductive: `LockTheorem`, whatever fails and crashes. `RolesAgree` says
   nothing of the time between the removal of the "host" schemas and the last
   upload, so it is not inductive: `RoleInv` adds how far the holder of the lock
   has come (`Filled`), what it has listed, and that the startup is over. Every
   failing step leaves the promise behind, so the proof is about the others:
   `RolesTheorem`. What holds whatever fails is `UploadOffers`: `PresentInv` says
   that whoever comes to the k-th upload has its list offered in the roles before
   it, since nobody else removes a schema while schemaLock is held.
   `UploadTheorem`. The types, with the startup and every fault: `TypeTheorem`.
   `UpgradedWhenReady`, likewise, rests on `OldListed`: an active driver of
   another version is one that the startup has still to list or to reactivate,
   and who becomes active is of this version; a new version begins with a new
   startup. `UpgradedTheorem`.
5. `DriverFileProofs`, after the startup and without crashes.
   * `InstalledIsWhole`, for drivers with names of their own (`Separate`), rests
     on what `Install` copies and renames: `FileInv` says that a worker has its
     driver to itself (`Alone`), that an open file is that of the worker which
     has its driver (`Owned`), that a cache file names a whole binary, but for
     the end of `Remove` (`Cached`), and what each step of `Stage` and `Install`
     finds (`AtStep`). `OwnerKeeps` shows once that a worker's step disturbs no
     other's files, and each step is then a short lemma. `WholeTheorem`. Without
     either half of `Separate` it is false: two drivers of one name share the
     "-tmp" file; a crash while two goroutines stage a driver leaves an
     incomplete binary with a cache file.
   * `FreshAttempt`, for drivers of any names (`Living`), needs an order of
     events: an activation that was given up may still be repeated, and could
     write an error file when the state is "error" already. `LineInv` says that
     it cannot: once the event that a driver's state calls for is at work, or
     in line, no other comes behind it, and none at all when the driver is
     settled; and that a handler is where its event leads it (`Course`).
     `Cleared` follows the error file from there. `FreshTheorem`.
   * `ActiveIsUsable`, with reactivations and whatever calls fail (`Separate`). `UseInv` says what an activation has achieved at
     each of its steps: past the check of the name the driver is not active,
     past its flags the plugin runs, past the upload of its schema there is one.
     An active driver that is reactivated in vain stays active, and is left
     alone: the name that is found in use is its own. `UsableTheorem`.
6. `DriverStartupProofs`, from the first start on, for drivers with names of
   their own (`OwnNames`), with every fault, crashes and new containers included.
   * `ActivatedIsUsable`, though the startup may truncate or replace the very
     files that an activation works on. `StartupInv` follows the three files of
     a driver from the moment its activation has opened the "-tmp" file
     (`AtFiles`). If what it installs is whole, then so is the staged binary, or
     the startup is just writing it anew (`StagedToo`); the "-tmp" file is gone,
     or the startup has opened it again (`TmpToo`); and what the startup may yet
     move over the plugin is whole (`WholeToo`). A torn plugin goes no further:
     it cannot be asked for its flags. `ActivatedTheorem`.
   * `RestoredIfAlone`, and `InstalledIsWhole` across crashes, in behaviours where
     no handler stages or installs a plugin while the startup does
     (`StagesAlone`, all along). No lock and no order of events sees to that: it
     is a hypothesis about behaviours, not something the code guarantees, and
     without it the claim is false (above). `RestoredInv`
     says that a cache file names a whole binary or none (`CacheNames`),
     whatever a process that died has left, what each step of `Stage`,
     `Install` and `Remove` finds (`FindsOwn`), and that an active driver is one
     that the startup has still to see to, or has its plugin, or is a retired
     one (`Restored`). Removing and staging are kept apart by the order of events
     (`Lined`). `RestoredTheorem`. A retired driver is one that was built in, in
     the version before: `SyncBuiltin` may fail to delete it, or may have to activate
     it first, and a plugin is not downloaded for it.
7. `DriverOfferProofs`, for drivers with names of their own, without
   reactivations and until a call fails (`Orderly`). Lists are taken and written
   under schemaLock, but while one is written other handlers go on to activate
   and remove drivers that it has or lacks. `OfferInv` says that the list that
   is being written, or has been, is right for all drivers but those whose own
   handler has still to list (`Right`), and, with `LineInv`, what an event in
   line or at work makes of its driver (`DriverFits`, `WorkerFits`). When all
   is quiet there are no exceptions left: `OfferTheorem`.

The theorems about `ProgressChannel` hold for every number of lines, errors and
messages and every size of the pipes and of publishChan, with both of its faults,
from `ProgressAssumption`.

8. `ProgressProofs`. `LinesInv`: the lines in a pipe, and those in the scanner
   before them, rise. What has been sent is below what the scanner and the pipe
   still hold (`LoggedInv`), and below what the handler has still to say
   (`SaidInv`); so a new message comes after every other of its sender
   (`NewIsLater`), and `QueueInv`, which is `NothingOvertakes` and the same of
   what Cattle shows, is kept: `OrderTheorem`. `FirstInv` adds, while errChan has
   never been filled, where every error is that has been written: in its pipe,
   in the scanner, or lost behind both when command.Wait closed the pipes
   (`Ahead`). It is what forbids that stderr is read past an error of stdout
   which got lost. `FirstErrorTheorem`. The types, capacities of pipes and
   channels included: `TypeCorrect`.

The theorems about `CreateCommand` hold for any names, any number of options of
a driver, any values, and whatever client.Host knows, from `CommandAssumption`
(names are sequences of words, words are sequences).

9. `CreateCommandProofs`. `TypedInv`: values in the record, in the template, in
   the struct and in the fields are of fields of the schema and of types that
   `buildMachineCreateCmd` knows; `json.Marshal` of the struct adds what makes
   it a resource, and `populateFields` takes just that away. `CommandTypes`,
   `DescribedTheorem`. `SecretInv` follows a secret value from the template to
   the fields and, if the struct takes it, to the struct, so that writing the
   one over the other changes nothing: `SecretsTheorem`. `ConfigInv` does
   the same for all values where client.Host knows every option: the struct has,
   source by source, the latest value that was given (`Collected`), and what
   `populateFields` puts in place of the fields is that value, unless it is empty
   (`Arrived`): `ConfigTheorem`. The hypotheses are about names: `OwnNames` (no
   option is called like the keys that `populateFields` deletes), `FlagsDiffer`
   (options with two fields have two flags, or a plugin could not tell them
   apart), and `NamesReturn`; all three are true in the states of the instance.
   That a flag comes back from camel case is a fact about sequences of
   characters, put together by induction, which is out of this prover's reach.
   `NoFunction` says that the value for "no config" is not a function.

TLC checked every one of these inductive invariants on the instance of a run
before it was proved.

What stays with TLC:

* all liveness properties: fairness and ENABLED are outside of what the prover does;
* `NamesReturn`: induction over data;
* `UsableIfAlone`: that an active driver can be used while the startup works, in
  behaviours where no handler works on a plugin that the startup works on. In
  others it is false; for the time after the startup, `UsableTheorem` proves
  `ActiveIsUsable`.

## Not modelled

* Of the drivers: a record whose URL changes with "update" (the files of the old
  URL stay behind); two records with one URL, which share their files; an
  `os.Remove` that fails; goroutines of one driver that come to the lock in
  another order than their events (see `overtake`, where this is modelled for
  hosts); schemas that somebody else removes. Plugins are external: a complete
  one can be asked for its flags, an incomplete one cannot.
* Of the templates: the list that is read for a host without a template. Such a
  host is refused a few lines later (`create.go:102`), whatever the list holds.
* Of the command line: engine options, which are copied one to one, and the
  environment.
* Of the output: lines longer than a scanner takes; what the lines say.
* The agent's image and registration URL: calls whose only effect on the model
  is to fail, within `ReachDocker`. Wording, logging, SSH keys and TLS files.
* The locker goroutine is one atomic step, and the websocket's pings and
  subscription are left out.
* Cattle's own process engine beyond what the replies do; other users of the
  API that change a host behind the service's back.
* A virtual machine that disappears by itself; an `os.RemoveAll` that fails; a
  `docker-machine` child that survives a crash of the service; a
  `docker-machine rm -f` that exits 0 and leaves the machine running.
* A host whose ExtractedConfig is restored but lists no machine: the archive is
  made of a directory that docker-machine has just filled.

## Plan

Done, in this order: the host half with its runs (`HostState` to
`MachineContract`); the proofs of what holds whatever fails, of removal and of
recovery; `ProgressChannel`; the driver half (`DriverState` to
`DriverLifecycle`); `CreateCommand`; the proofs about the schema lock and the
drivers' files; those about the order of messages and errors; those about
managed hosts and the refinement of `MachineContract`; those about active
drivers and what hosts are offered; those about the command line; those about
handlers beside the startup. What is left:

1. `WorkerPool`: the pool and the locker goroutine in full, shown to implement
   `StartGoroutine`, `Lock` and `Finish` of `EventRouter`.
2. Two records with one URL, and a URL that changes, in `DriverFiles`.
