----------------------------- MODULE EventRouter -----------------------------
(***************************************************************************)
(* The "host" event router: events read off the websocket, the skipping    *)
(* worker pool, the lock per resource id, the reply that ends an event,    *)
(* and the death of the process.  Cattle's side of the conversation is     *)
(* external: it repeats an event until the host leaves the state that      *)
(* sends it, and moves the host on the first final reply.                  *)
(***************************************************************************)
EXTENDS HostState

\* The event that Cattle sends about a host in state s is e.
Awaits(s, e) == \/ s = "provisioning" /\ e = "provision"
                \/ s = "removing" /\ e = "remove"

\* What a final reply to an event does to the host it is about.
Answered(s, e) ==
    IF ~Awaits(s, e) THEN s
    ELSE IF e = "provision" THEN "active" ELSE "removed"

\* A failed removal is retried by Cattle: the host stays in "removing".
Refused(s, e) == IF Awaits(s, e) /\ e = "provision" THEN "error" ELSE s

\* A reply that Cattle receives moves the host of w.
Deliver(w, s) == state' = [state EXCEPT ![at[w]] = s]
DeliverReply(w) == Deliver(w, Answered(state[at[w]], event[w]))
DeliverError(w) == Deliver(w, Refused(state[at[w]], event[w]))

\* publishReply returns nil (to ok), or an error (to err); the POST behind an
\* error may have reached Cattle.
PublishReply(w, ok, err) ==
    \/ DeliverReply(w) /\ Goto(w, ok) /\ NoFail
    \/ DeliverReply(w) /\ Goto(w, err) /\ Fail
    \/ UNCHANGED state /\ Goto(w, err) /\ Fail

-----------------------------------------------------------------------------
\* Cattle sends, and sends again, the event of a host in transition.
CattleSends(h) ==
    /\ Len(stream[h]) < MaxInFlight
    /\ \E e \in Events : /\ Awaits(state[h], e)
                         /\ stream' = [stream EXCEPT ![h] = Append(@, e)]
    /\ UNCHANGED <<state, saved, agentId, cloud, disk, service, worker, failures>>

\* A host can be removed whatever its provisioning has come to.
UserRemoves(h) ==
    /\ state[h] \in {"provisioning", "active", "error"}
    /\ state' = [state EXCEPT ![h] = "removing"]
    /\ UNCHANGED <<saved, agentId, stream, cloud, disk, service, worker, failures>>

\* Some time after the removal Cattle deletes the record.
RecordDeleted(h) ==
    /\ state[h] = "removed"
    /\ state' = [state EXCEPT ![h] = "gone"]
    /\ UNCHANGED <<saved, agentId, stream, cloud, disk, service, worker, failures>>

-----------------------------------------------------------------------------
\* HandleWork: a free worker gets a goroutine for the event.  Goroutines of a
\* host come to the lock in the order they were started, unless overtaken.
StartGoroutine(w, h, e) ==
    /\ ~Busy(w)
    /\ \/ "overtake" \in Faults
       \/ \A u \in Workers : pc[u] = "lock" => at[u] # h
    /\ Goto(w, "lock")
    /\ event' = [event EXCEPT ![w] = e]
    /\ at' = [at EXCEPT ![w] = h]
    /\ UNCHANGED <<cfg, made>>

\* The router reads the next event; without a free worker it is dropped.
HandleWork(h) ==
    /\ stream[h] # <<>>
    /\ stream' = [stream EXCEPT ![h] = Tail(@)]
    /\ \/ \E w \in Workers : StartGoroutine(w, h, Head(stream[h]))
       \/ (\A w \in Workers : Busy(w)) /\ UNCHANGED worker
    /\ UNCHANGED <<state, saved, agentId, cloud, disk, service, failures>>

\* Mutant of Lock: the answer of the locker is not looked at.
LockWithoutExclusion(w) ==
    /\ pc[w] = "lock"
    /\ locked' = locked \cup {at[w]}
    /\ Goto(w, IF event[w] = "provision" THEN "getHost" ELSE "purge")
    /\ UNCHANGED <<cattle, cloud, disk, removeCache, event, at, cfg, made, failures>>

\* locker.Lock(): the handler is called, or the event is dropped because its
\* resource is locked.
Lock(w) ==
    /\ pc[w] = "lock"
    /\ \/ /\ at[w] \notin locked
          /\ locked' = locked \cup {at[w]}
          /\ Goto(w, IF event[w] = "provision" THEN "getHost" ELSE "purge")
          /\ UNCHANGED <<event, at>>
       \/ /\ at[w] \in locked
          /\ Goto(w, "idle")
          /\ event' = [event EXCEPT ![w] = "none"]
          /\ at' = [at EXCEPT ![w] = NoHost]
          /\ UNCHANGED locked
    /\ UNCHANGED <<cattle, cloud, disk, removeCache, cfg, made, failures>>

\* Mutants of Finish: the deferred Unlock is missing; the worker is not put
\* back where HandleWork finds it.
FinishStillLocked(w) ==
    /\ pc' = [pc EXCEPT ![w] = "idle"]
    /\ event' = [event EXCEPT ![w] = "none"]
    /\ at' = [at EXCEPT ![w] = NoHost]
    /\ cfg' = [cfg EXCEPT ![w] = NoVM]
    /\ made' = [made EXCEPT ![w] = NoVM]
    /\ UNCHANGED locked

FinishStillBusy(w) ==
    /\ locked' = locked \ {at[w]}
    /\ at' = [at EXCEPT ![w] = NoHost]
    /\ UNCHANGED <<pc, event, cfg, made>>

\* doWork returns: unlock, and put the worker back.
Finish(w) ==
    /\ locked' = locked \ {at[w]}
    /\ pc' = [pc EXCEPT ![w] = "idle"]
    /\ event' = [event EXCEPT ![w] = "none"]
    /\ at' = [at EXCEPT ![w] = NoHost]
    /\ cfg' = [cfg EXCEPT ![w] = NoVM]
    /\ made' = [made EXCEPT ![w] = NoVM]

\* Mutant of ErrorReply: doWork only logs the error.
ErrorReplyOnlyLogged(w) ==
    /\ pc[w] = "errorReply"
    /\ Finish(w)
    /\ UNCHANGED <<cattle, cloud, disk, removeCache, failures>>

\* The handler returned an error: doWork publishes it, and only logs a
\* failure to do so.
ErrorReply(w) ==
    /\ pc[w] = "errorReply"
    /\ \/ DeliverError(w) /\ NoFail
       \/ UNCHANGED state /\ Fail
    /\ Finish(w)
    /\ UNCHANGED <<saved, agentId, stream, cloud, disk, removeCache>>

-----------------------------------------------------------------------------
\* The process dies and is started again.  What Cattle had sent is lost with
\* the connection; the directories survive unless the container was replaced.
Restart ==
    /\ locked' = {}
    /\ removeCache' = {}
    /\ pc' = [w \in Workers |-> "idle"]
    /\ event' = [w \in Workers |-> "none"]
    /\ at' = [w \in Workers |-> NoHost]
    /\ cfg' = [w \in Workers |-> NoVM]
    /\ made' = [w \in Workers |-> NoVM]
    /\ stream' = [h \in Hosts |-> <<>>]
    /\ \/ UNCHANGED disk
       \/ /\ store' = [h \in Hosts |-> NoVM]
          /\ stamp' = [h \in Hosts |-> FALSE]
    /\ UNCHANGED <<state, saved, agentId, cloud>>

Crash == "crash" \in Faults /\ Fail /\ Restart

\* A panic in one handler goroutine is recovered by nobody.
PanicKillsProcess ==
    /\ \E w \in Workers : pc[w] = "panic"
    /\ Restart
    /\ UNCHANGED failures

=============================================================================
