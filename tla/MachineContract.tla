--------------------------- MODULE MachineContract ---------------------------
(***************************************************************************)
(* What the host handlers promise about virtual machines, with no word of  *)
(* workers, locks, directories, caches or replies: a host has at most one  *)
(* machine at a time; once one is kept for it no other is ever tried; a    *)
(* kept machine is destroyed only when the host is to go; and a host is    *)
(* removed only when nothing of it is left.                                *)
(***************************************************************************)
CONSTANTS Hosts, VMs, NoHost

VARIABLES
    wish,   \* what Cattle wants of a host: "wanted", "leaving", then "removed"
    of,     \* the host a machine was made for
    fate    \* what became of a machine

Fates == {"unborn", "trial", "kept", "discarded", "destroyed"}

contractVars == <<wish, of, fate>>

Init ==
    /\ wish = [h \in Hosts |-> "wanted"]
    /\ of = [v \in VMs |-> NoHost]
    /\ fate = [v \in VMs |-> "unborn"]

Settled(h) == \A v \in VMs : of[v] = h => fate[v] \in {"discarded", "destroyed"}

Becomes(v, from, to) == fate[v] = from /\ fate' = [fate EXCEPT ![v] = to]

\* A machine is tried only for a host that has none and never kept one.
Try(v, h) ==
    /\ wish[h] # "removed"
    /\ \A u \in VMs : of[u] = h => fate[u] = "discarded"
    /\ of' = [of EXCEPT ![v] = h]
    /\ Becomes(v, "unborn", "trial")
    /\ UNCHANGED wish

Keep(v)    == Becomes(v, "trial", "kept") /\ UNCHANGED <<wish, of>>
Discard(v) == Becomes(v, "trial", "discarded") /\ UNCHANGED <<wish, of>>

Destroy(v) ==
    /\ Becomes(v, "kept", "destroyed")
    /\ wish[of[v]] # "wanted"
    /\ UNCHANGED <<wish, of>>

Leave(h) ==
    /\ wish[h] = "wanted"
    /\ wish' = [wish EXCEPT ![h] = "leaving"]
    /\ UNCHANGED <<of, fate>>

Remove(h) ==
    /\ wish[h] = "leaving"
    /\ Settled(h)
    /\ wish' = [wish EXCEPT ![h] = "removed"]
    /\ UNCHANGED <<of, fate>>

Next ==
    \/ \E v \in VMs : Keep(v) \/ Discard(v) \/ Destroy(v)
    \/ \E v \in VMs, h \in Hosts : Try(v, h)
    \/ \E h \in Hosts : Leave(h) \/ Remove(h)

Spec == Init /\ [][Next]_contractVars

=============================================================================
