--------------------------- MODULE DriverHandlers ----------------------------
(***************************************************************************)
(* The handlers of the machineDriver router, ActivateDriver, removeDriver  *)
(* and ErrorDriver, and Cattle's side of them.  A handler is the sequence  *)
(* of the steps of DriverFiles and DriverSchemas, and ends with a reply.   *)
(*                                                                         *)
(* Cattle is modelled from what the handlers ask of it and answer: an      *)
(* event is sent again until it is answered; the answer settles the state; *)
(* an activation that is refused is followed by the "error" event, other   *)
(* refusals by the same event.                                             *)
(***************************************************************************)
EXTENDS DriverFiles, DriverSchemas

\* Goroutines start in the order of their events; those of one driver exclude
\* each other (see EventRouter, where this is modelled).
Waiting(d) == \A w \in Workers : drv[w] # d

-----------------------------------------------------------------------------
(***************************************************************************)
(* Cattle (external).                                                      *)
(***************************************************************************)
MaxPending == 2

\* A driver in transition has its event sent, again if Faults say so.
CattleSends(d) ==
    /\ dstate[d] \in InTransition
    /\ \/ pending[d] = <<>> /\ Waiting(d)
       \/ "repeat" \in Faults /\ Len(pending[d]) < MaxPending
    /\ "machineDriver" \in connected
    /\ pending' = [pending EXCEPT ![d] = Append(@, EventOf[dstate[d]])]
    /\ UNCHANGED <<record, requests, schema, disk, connected, schemaLock, pc, local, todo,
                   failures>>

\* A user asks for another state.
UserAsks(d, from, to) ==
    /\ dstate[d] \in from /\ requests < MaxRequests
    /\ dstate' = [dstate EXCEPT ![d] = to]
    /\ requests' = requests + 1
    /\ UNCHANGED <<named, default, current, pending, schema, disk, connected, schemaLock,
                   pc, local, todo, failures>>

User(d) ==
    \/ UserAsks(d, {"inactive", "error"}, "activating")
    \/ UserAsks(d, {"active"}, "deactivating")
    \/ UserAsks(d, {"inactive", "error", "active"}, "removing")
    \/ "reactivate" \in Faults /\ UserAsks(d, {"active"}, "reactivating")

\* What a reply does, if Cattle waits for it; that of ActivateDriver carries
\* the name, the version and the end of defaultActive.
Awaited(d, e) == dstate[d] \in InTransition /\ EventOf[dstate[d]] = e

Answered(d, e) ==
    IF Awaited(d, e)
    THEN /\ dstate'  = [dstate EXCEPT ![d] = Settled[e]]
         /\ named'   = [named EXCEPT ![d] = @ \/ e = "activate"]
         /\ current' = [current EXCEPT ![d] = @ \/ e = "activate"]
         /\ default' = [default EXCEPT ![d] = @ /\ e # "activate"]
    ELSE UNCHANGED record

Refused(d, e) ==
    IF e = "activate" /\ Awaited(d, e)
    THEN dstate' = [dstate EXCEPT ![d] = "erroring"] /\ UNCHANGED <<named, default, current>>
    ELSE UNCHANGED record

-----------------------------------------------------------------------------
(***************************************************************************)
(* The handlers.                                                           *)
(***************************************************************************)
Finish(w) ==
    /\ Goto(w, "idle")
    /\ job' = [job EXCEPT ![w] = "none"] /\ drv' = [drv EXCEPT ![w] = NoDriver]

HandleWork(w, d) ==
    /\ pending[d] # <<>> /\ Waiting(d)
    /\ Step(w, "idle", "getDriver")
    /\ job' = [job EXCEPT ![w] = Head(pending[d])]
    /\ drv' = [drv EXCEPT ![w] = d]
    /\ pending' = [pending EXCEPT ![d] = Tail(@)]
    /\ UNCHANGED <<record, requests, schema, disk, connected, schemaLock, src, listed, todo,
                   failures>>

\* The step after getDriver.  ErrorDriver masks the error of that call, and
\* returns without a reply.
First == [activate |-> "getError", deactivate |-> "rmSchemas", remove |-> "rmSchemas",
          error |-> "clearError"]

GetDriver(w) ==
    /\ \/ Step(w, "getDriver", First[job[w]]) /\ NoFail /\ UNCHANGED <<job, drv>>
       \/ /\ pc[w] = "getDriver" /\ Fail
          /\ IF job[w] = "error" THEN Finish(w) ELSE Goto(w, "errorReply") /\ UNCHANGED <<job, drv>>
    /\ UNCHANGED <<record, pending, requests, schema, disk, connected, schemaLock, src,
                   listed, todo>>

\* activate: the driver is refused if an active one has its name.
NameCheck(w) ==
    /\ LET taken == \E d \in Active : named[d] /\ NameOf[d] = Name(w) IN
       \/ Step(w, "nameCheck", IF taken THEN "errorReply" ELSE "open") /\ NoFail
       \/ Step(w, "nameCheck", "errorReply") /\ Fail
    /\ UNCHANGED <<others, disk, src>>

\* removeDriver: the driver is read a second time; an error leaves its files.
GetToRemove(w) ==
    /\ \/ Step(w, "getToRemove", "rmBin") /\ NoFail
       \/ Step(w, "getToRemove", "uploadLock") /\ Fail
    /\ UNCHANGED <<others, disk, src>>

\* publishReply: an error may be returned for a reply that was delivered.
PublishReply(w) ==
    /\ pc[w] = "publish"
    /\ \/ Answered(drv[w], job[w]) /\ Finish(w) /\ NoFail
       \/ Answered(drv[w], job[w]) /\ Goto(w, "errorReply") /\ UNCHANGED <<job, drv>> /\ Fail
       \/ UNCHANGED record /\ Goto(w, "errorReply") /\ UNCHANGED <<job, drv>> /\ Fail
    /\ UNCHANGED <<pending, requests, schema, disk, connected, schemaLock, src, listed, todo>>

\* doWork's reply to an error, which may be lost.
ErrorReply(w) ==
    /\ pc[w] = "errorReply" /\ Finish(w)
    /\ \/ Refused(drv[w], job[w]) /\ NoFail
       \/ UNCHANGED record /\ Fail
    /\ UNCHANGED <<pending, requests, schema, disk, connected, schemaLock, src, listed, todo>>

\* ActivateDriver, removeDriver and ErrorDriver.
Handle(w) ==
    /\ drv[w] # NoDriver
    /\ \/ GetDriver(w) \/ Stage(w) \/ NameCheck(w) \/ Install(w)
       \/ GenerateAndUploadSchema(w) \/ GetVersion(w)
       \/ RemoveSchemas(w) \/ GetToRemove(w) \/ Remove(w) \/ ClearError(w)
       \/ UploadMachineSchemas(w) \/ PublishReply(w) \/ ErrorReply(w)

=============================================================================
