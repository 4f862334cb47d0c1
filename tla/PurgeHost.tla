------------------------------ MODULE PurgeHost ------------------------------
(***************************************************************************)
(* The host.remove handler, PurgeMachine: the cache of hosts that were     *)
(* purged, the restore of the saved directory, the removal of the machine, *)
(* the final reply.  FinalReply, HandlerReturns and ErrorReply are shared  *)
(* with the host.provision handler.                                        *)
(***************************************************************************)
EXTENDS ProvisionHost

\* Mutants of CheckRemoveCache: the cache is never asked; a hit returns nil
\* without a reply.
CheckNoCache(w) ==
    /\ pc[w] = "purge"
    /\ Goto(w, "getHostToPurge")
    /\ UNCHANGED <<cattle, cloud, disk, service, event, at, cfg, made, failures>>

CheckCacheInSilence(w) ==
    /\ pc[w] = "purge"
    /\ IF at[w] \in removeCache
         THEN Finish(w) /\ UNCHANGED removeCache
         ELSE Goto(w, "getHostToPurge") /\ UNCHANGED <<service, event, at, cfg, made>>
    /\ UNCHANGED <<cattle, cloud, disk, failures>>

\* A host in removeCache is answered at once.  This return comes before any
\* deferred call: the directory is left alone.
CheckRemoveCache(w) ==
    /\ pc[w] = "purge"
    /\ \/ /\ at[w] \notin removeCache
          /\ Goto(w, "getHostToPurge")
          /\ NoFail
          /\ UNCHANGED <<state, service, event, at, cfg, made>>
       \/ /\ at[w] \in removeCache
          /\ DeliverReply(w) /\ NoFail
          /\ Finish(w)
          /\ UNCHANGED removeCache
       \/ /\ at[w] \in removeCache
          /\ DeliverReply(w) \/ UNCHANGED state
          /\ Fail
          /\ Goto(w, "errorReply")
          /\ UNCHANGED <<service, event, at, cfg, made>>
    /\ UNCHANGED <<saved, agentId, stream, cloud, disk>>

\* Mutant of RestoreToPurge: the machine is looked for on disk only.
RestoreNothingToPurge(w) ==
    /\ pc[w] = "restoreToPurge"
    /\ Goto(w, "delete")
    /\ UNCHANGED <<cattle, cloud, disk, service, event, at, cfg, made, failures>>

\* restoreMachineDir: without an ExtractedConfig what is on disk stays.  An
\* error returns before the deferred removal of the directory.
RestoreToPurge(w) ==
    /\ pc[w] = "restoreToPurge"
    /\ \/ /\ IF cfg[w] = NoVM THEN UNCHANGED disk ELSE Extract(w)
          /\ Goto(w, "delete")
          /\ NoFail
       \/ ExtractInPart(w) /\ Goto(w, "errorReply")
    /\ UNCHANGED <<cattle, cloud, service, event, at, cfg, made>>

\* Mutant of DeleteMachine: the error of deleteMachine is logged and dropped.
DeleteMachineOrNot(w) ==
    /\ pc[w] = "delete"
    /\ \/ RemoveMachine(at[w]) /\ NoFail
       \/ Fail /\ UNCHANGED <<live, boot, agentUp, disk>>
    /\ removeCache' = removeCache \cup {at[w]}
    /\ Goto(w, "reply")
    /\ UNCHANGED <<cattle, owner, locked, event, at, cfg, made>>

\* machineExists, deleteMachine if it does, removeCache.Add.
DeleteMachine(w) ==
    /\ pc[w] = "delete"
    /\ \/ /\ IF Machine(w) = NoVM
               THEN UNCHANGED <<live, boot, agentUp, disk>>
               ELSE RemoveMachine(at[w])
          /\ removeCache' = removeCache \cup {at[w]}
          /\ Goto(w, "reply")
          /\ NoFail
       \/ /\ Fail
          /\ Goto(w, "returnErr")
          /\ UNCHANGED <<live, boot, agentUp, disk, removeCache>>
    /\ UNCHANGED <<cattle, owner, locked, event, at, cfg, made>>

\* An entry lives for five minutes, whatever happens to the host meanwhile.
CacheExpires(h) ==
    /\ "expire" \in Faults
    /\ h \in removeCache
    /\ removeCache' = removeCache \ {h}
    /\ UNCHANGED <<cattle, cloud, disk, locked, worker, failures>>

Purge(w) ==
    \/ CheckRemoveCache(w)
    \/ LoadHost(w, "getHostToPurge", "restoreToPurge")
    \/ RestoreToPurge(w)
    \/ DeleteMachine(w)

=============================================================================
