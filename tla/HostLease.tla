----------------------------- MODULE HostLease -----------------------------
(***************************************************************************)
(* What the lifecycle of the restore servers promises, without state files, *)
(* janitor or API: servers and volumes are rented for a run while it needs  *)
(* them and are given back only once it does not, or once an administrator  *)
(* has waived the run's claim.  Lifecycle implements this specification     *)
(* (see LifecycleLease).                                                    *)
(***************************************************************************)
CONSTANTS Runs, Ids, None

VARIABLES
    need,       \* does the run need its server?
    life,       \* life of every server and volume
    tenant      \* the run a server or volume was rented for

leaseVars == <<need, life, tenant>>

LeaseTypeOK ==
    /\ need \in [Runs -> {"none", "needed", "over", "waived"}]
    /\ life \in [Ids -> {"unrented", "rented", "returned"}]
    /\ tenant \in [Ids -> Runs \cup {None}]

LeaseInit ==
    /\ need = [r \in Runs |-> "none"]
    /\ life = [i \in Ids |-> "unrented"]
    /\ tenant = [i \in Ids |-> None]

Begin(r) ==
    /\ need[r] = "none"
    /\ need' = [need EXCEPT ![r] = "needed"]
    /\ UNCHANGED <<life, tenant>>

(* A run whose need is over rents nothing any more. *)
Rent(r, new) ==
    /\ need[r] \in {"needed", "waived"}
    /\ \A i \in new : life[i] = "unrented"
    /\ life' = [i \in Ids |-> IF i \in new THEN "rented" ELSE life[i]]
    /\ tenant' = [i \in Ids |-> IF i \in new THEN r ELSE tenant[i]]
    /\ UNCHANGED need

(* The run has ended, was interrupted, or its retention ran out: an hour may *)
(* end the retention of several runs.                                        *)
Release(done) ==
    /\ \A r \in done : need[r] = "needed"
    /\ need' = [r \in Runs |-> IF r \in done THEN "over" ELSE need[r]]
    /\ UNCHANGED <<life, tenant>>

Waive(r) ==
    /\ need[r] # "none"
    /\ need' = [need EXCEPT ![r] = "waived"]
    /\ UNCHANGED <<life, tenant>>

Return(i) ==
    /\ life[i] = "rented"
    /\ need[tenant[i]] \in {"over", "waived"}
    /\ life' = [life EXCEPT ![i] = "returned"]
    /\ UNCHANGED <<need, tenant>>

LeaseNext ==
    \/ \E r \in Runs : Begin(r) \/ Waive(r)
    \/ \E r \in Runs, new \in SUBSET Ids : Rent(r, new)
    \/ \E done \in SUBSET Runs : Release(done)
    \/ \E i \in Ids : Return(i)

LeaseSpec == LeaseInit /\ [][LeaseNext]_leaseVars
=============================================================================
