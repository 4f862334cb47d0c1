--------------------------- MODULE DriverLifecycle ---------------------------
(***************************************************************************)
(* The machine driver half of the service: its handlers, and the goroutine *)
(* of main that brings the drivers up to date when the service starts      *)
(* (ReactivateOldDrivers and DownloadAllDrivers, with SyncBuiltin), while  *)
(* the handlers run.                                                       *)
(***************************************************************************)
EXTENDS DriverHandlers

-----------------------------------------------------------------------------
\* A router subscribes to its events, and says that it is ready.
Connect(r) ==
    /\ r \notin connected /\ connected' = connected \cup {r}
    /\ UNCHANGED <<record, pending, requests, schema, disk, schemaLock, pc, local, todo,
                   failures>>

\* What the process has, it loses; what it was writing stays incomplete.
Torn(files) == [x \in DOMAIN files |-> IF files[x] \in Callers THEN "torn" ELSE files[x]]

ProcessStarts ==
    /\ connected' = {} /\ schemaLock' = NoOne
    /\ pc' = [c \in Callers |-> IF c = Startup THEN "ready1" ELSE "idle"]
    /\ job' = [c \in Callers |-> "none"] /\ drv' = [c \in Callers |-> NoDriver]
    /\ src' = [c \in Callers |-> "torn"] /\ listed' = [c \in Callers |-> {}]
    /\ todo' = {}
    /\ pending' = [d \in Drivers |-> <<>>]

\* logger.Fatalf, or a crash, and the service is started again.
Restart ==
    /\ ProcessStarts
    /\ staged' = Torn(staged) /\ tmp' = Torn(tmp) /\ bin' = Torn(bin)
    /\ UNCHANGED <<cache, errFile>>

\* ... in a new container, of the same version or of another.
Replace ==
    /\ ProcessStarts
    /\ cache' = [d \in Drivers |-> FALSE] /\ errFile' = [d \in Drivers |-> FALSE]
    /\ staged' = [d \in Drivers |-> "none"]
    /\ tmp' = [n \in Names |-> "none"] /\ bin' = [n \in Names |-> "none"]
    /\ current' \in {current, [d \in Drivers |-> FALSE]}
    /\ UNCHANGED <<dstate, named, default>>

Crash ==
    /\ \/ "crash" \in Faults /\ Restart /\ UNCHANGED record
       \/ "replace" \in Faults /\ Replace
    /\ Fail
    /\ UNCHANGED <<requests, schema>>

-----------------------------------------------------------------------------
(***************************************************************************)
(* The startup.                                                            *)
(***************************************************************************)
SGoto(a, b) == Step(Startup, a, b)

\* Any call to Cattle may fail; here that is fatal.
Fatal(a) ==
    /\ pc[Startup] = a /\ Fail /\ Restart
    /\ UNCHANGED <<record, requests, schema>>

\* Everything but Cattle's states of drivers, and the startup's own progress.
unmoved == <<named, default, current, pending, requests, schema, disk, connected, schemaLock,
             job, src, listed>>

\* <-ready, twice: each router sends once.
Ready ==
    /\ \/ Cardinality(connected) >= 1 /\ SGoto("ready1", "ready2")
       \/ Cardinality(connected) >= 2 /\ SGoto("ready2", "listOld")
    /\ UNCHANGED <<unmoved, dstate, drv, todo, failures>>

\* Mutant of ListOld: versions are not compared.
ListNone ==
    /\ SGoto("listOld", "reactivateOld") /\ todo' = {}
    /\ UNCHANGED <<unmoved, dstate, drv, failures>>

\* ReactivateOldDrivers: the active drivers whose schemas another version of
\* the service has made.
ListOld ==
    /\ SGoto("listOld", "reactivateOld")
    /\ todo' = {d \in Active : ~current[d]}
    /\ UNCHANGED <<unmoved, dstate, drv, failures>>

\* ActionReactivate of an active driver; of another it is refused.
Reactivate(d) == dstate[d] = "active" /\ dstate' = [dstate EXCEPT ![d] = "reactivating"]

ReactivateOld ==
    \/ \E d \in todo :
           /\ Reactivate(d) /\ todo' = todo \ {d} /\ pc[Startup] = "reactivateOld"
           /\ UNCHANGED <<unmoved, pc, drv, failures>>
    \/ /\ todo = {} /\ SGoto("reactivateOld", "listBuiltin")
       /\ UNCHANGED <<unmoved, dstate, drv, todo, failures>>

\* The driver that the startup works on is one that it may not touch any more.
TooLate(a, d) ==
    /\ pc[Startup] = a /\ dstate[d] # "active" /\ Restart
    /\ UNCHANGED <<record, requests, schema, failures>>

\* SyncBuiltin lists what it will ask of Cattle: to activate, create, delete.
Missing(d)  == d \in Core /\ dstate[d] \in {"absent", "removed"}
Retired(d)  == d \in Builtin \ Core /\ dstate[d] \notin {"absent", "removed"}
Default(d)  == dstate[d] = "inactive" /\ default[d]

ListBuiltin ==
    /\ SGoto("listBuiltin", "sync")
    /\ todo' = {d \in Drivers : Missing(d) \/ Retired(d) \/ Default(d)}
    /\ UNCHANGED <<unmoved, dstate, drv, failures>>

\* What a call to create or to delete d does, if that is still to be done.
Synced(d) ==
    IF Missing(d) THEN "inactive"
    ELSE IF Retired(d) /\ dstate[d] \notin InTransition THEN "removing"
    ELSE dstate[d]

\* Each call on its own, its error ignored.  What is listed may have changed;
\* a retired driver that is to be activated is activated, and then deleted.
Sync ==
    \/ \E d \in todo :
           /\ pc[Startup] = "sync"
           /\ \/ /\ Default(d) /\ dstate' = [dstate EXCEPT ![d] = "activating"] /\ NoFail
                 /\ todo' = IF Retired(d) THEN todo ELSE todo \ {d}
              \/ /\ ~Default(d) /\ dstate' = [dstate EXCEPT ![d] = Synced(d)] /\ NoFail
                 /\ todo' = todo \ {d}
              \/ /\ dstate' \in {dstate, [dstate EXCEPT ![d] = Synced(d)]} /\ Fail
                 /\ todo' = todo \ {d}
           /\ UNCHANGED <<unmoved, pc, drv>>
    \/ /\ todo = {} /\ SGoto("sync", "listAll")
       /\ UNCHANGED <<unmoved, dstate, drv, todo, failures>>

\* DownloadAllDrivers.
ListAll ==
    /\ SGoto("listAll", "nextDriver") /\ todo' = Active
    /\ UNCHANGED <<unmoved, dstate, drv, failures>>

\* Mutant of NextDriver: the list does not get shorter.
SameDriver ==
    \/ \E d \in todo :
           /\ SGoto("nextDriver", "getError") /\ drv' = [drv EXCEPT ![Startup] = d]
           /\ UNCHANGED <<unmoved, dstate, todo, failures>>
    \/ /\ todo = {} /\ SGoto("nextDriver", "done")
       /\ drv' = [drv EXCEPT ![Startup] = NoDriver]
       /\ UNCHANGED <<unmoved, dstate, todo, failures>>

NextDriver ==
    \/ \E d \in todo :
           /\ SGoto("nextDriver", "getError")
           /\ todo' = todo \ {d} /\ drv' = [drv EXCEPT ![Startup] = d]
           /\ UNCHANGED <<unmoved, dstate, failures>>
    \/ /\ todo = {} /\ SGoto("nextDriver", "done")
       /\ drv' = [drv EXCEPT ![Startup] = NoDriver]
       /\ UNCHANGED <<unmoved, dstate, todo, failures>>

\* Mutant of Redo: the error is logged and no more.
RedoNothing ==
    /\ SGoto("redo", "nextDriver")
    /\ UNCHANGED <<unmoved, dstate, drv, todo, failures>>

\* A driver that cannot be downloaded or installed is reactivated, which ends
\* in its error being told.
Redo ==
    /\ SGoto("redo", "nextDriver") /\ Reactivate(drv[Startup])
    /\ UNCHANGED <<unmoved, drv, todo, failures>>

StartupStep ==
    \/ Ready \/ ListOld \/ ReactivateOld \/ ListBuiltin \/ Sync \/ ListAll \/ NextDriver
    \/ \E d \in todo : TooLate("reactivateOld", d)
    \/ \E a \in {"listOld", "reactivateOld", "listBuiltin", "listAll", "redo"} : Fatal(a)
    \/ /\ drv[Startup] # NoDriver
       /\ Stage(Startup) \/ Install(Startup) \/ Redo \/ TooLate("redo", drv[Startup])

-----------------------------------------------------------------------------
Next ==
    \/ \E d \in Drivers : CattleSends(d) \/ User(d)
    \/ \E w \in Workers, d \in Drivers : HandleWork(w, d)
    \/ \E w \in Workers : Handle(w)
    \/ \E r \in Routers : Connect(r)
    \/ StartupStep
    \/ Crash

Spec      == Init /\ [][Next]_vars
ReadySpec == InitReady /\ [][Next]_vars

\* Cattle repeats what is not answered, the routers connect, and every
\* goroutine runs: none of its waits is without an end.
Fairness ==
    /\ \A d \in Drivers : WF_vars(CattleSends(d))
    /\ \A d \in Drivers : WF_vars(\E w \in Workers : HandleWork(w, d))
    /\ \A w \in Workers : WF_vars(Handle(w))
    /\ \A r \in Routers : WF_vars(Connect(r))
    /\ WF_vars(StartupStep)

FairSpec == Spec /\ Fairness

-----------------------------------------------------------------------------
(***************************************************************************)
(* Properties.                                                             *)
(***************************************************************************)
Quiet == /\ \A w \in Workers : pc[w] = "idle"
         /\ \A d \in Drivers : dstate[d] \notin InTransition /\ pending[d] = <<>>

Usable(d) == Runs(d) /\ NameOf[d] \in config

\* A driver becomes active only when its plugin can be run and its flags have
\* been described to Cattle.
ActivatedIsUsable ==
    [][\A d \in Drivers : dstate[d] # "active" /\ dstate'[d] = "active" => Usable(d)']_vars

\* ... and stays so, once the startup is over.
ActiveIsUsable == \A d \in Active : Usable(d)

\* Handlers leave no incomplete plugin where it is run from, whatever fails and
\* however often they try.
InstalledIsWhole == \A n \in Names : bin[n] \in {"none", "whole"}

\* When everything is quiet the hosts may use the active drivers, no others,
\* and there are descriptions of these.
OfferedWhenQuiet ==
    Quiet /\ failures = 0 =>
        /\ \A r \in Roles : host[r] = {IF r = "readonly" THEN {} ELSE NamesIn(Active)}
        /\ config = NamesIn(Active)

\* Between uploads every role has one "host" schema, and the same one, but for
\* those who may only read.
RolesAgree ==
    schemaLock = NoOne /\ failures = 0 =>
        /\ \E S \in SUBSET Names : \A r \in Roles \ {"readonly"} : host[r] = {S}
        /\ host["readonly"] = {{}}

\* A handler whose upload has ended without an error has what it listed offered
\* in every role, whatever has failed before and whoever else uploads.
UploadOffers ==
    [][\A w \in Workers : pc[w] = "readonly" /\ pc'[w] = "publish" =>
           \A r \in Roles : (IF r = "readonly" THEN {} ELSE listed[w]) \in host'[r]]_vars

\* The error of a former attempt is not returned by a new one.
FreshAttempt == \A d \in Drivers : dstate[d] = "error" => ~errFile[d]

\* "An active driver name %s already exists": no two active drivers have the
\* same name.
UniqueActiveName == \A d, e \in Active : NameOf[d] = NameOf[e] => d = e

StartupOver == pc[Startup] = "done" /\ Quiet

\* Once the startup is over and everything is quiet, every active driver has
\* been activated by this version of the service ...
UpgradedWhenReady == StartupOver => \A d \in Active : current[d]

\* "Done downloading all drivers": ... and has its plugin on this disk, but for
\* one that docker-machine had built in and that Cattle did not delete.
DownloadedWhenReady == StartupOver => \A d \in Active : Runs(d) \/ Retired(d)

\* A handler and the startup do not stage or install one plugin at once.  No
\* lock sees to it: what follows is what the files owe to it.
Staging == {"isInstalled", "download", "copyStaged", "nameCache", "nameCheck", "open", "copy",
            "rename"}
StagesAlone ==
    \A w \in Workers : drv[w] = drv[Startup] /\ drv[w] \in Drivers \ Builtin =>
        ~(pc[w] \in Staging /\ pc[Startup] \in Staging)

\* If they never do, every active driver has its plugin once the startup is
\* over, whatever fails, crashes and is repeated ...
RestoredIfAlone == []StagesAlone => []DownloadedWhenReady

\* ... and a driver that is active can be used while the startup runs.
UsableIfAlone == []StagesAlone => []ActiveIsUsable

\* Whatever is asked of a driver is settled.
TransitionEnds ==
    \A d \in Drivers : dstate[d] \in InTransition ~> dstate[d] \notin InTransition

\* However often it is interrupted, the startup comes to its end.
StartupEnds == []<>(pc[Startup] = "done")

=============================================================================
