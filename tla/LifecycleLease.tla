-------------------------- MODULE LifecycleLease --------------------------
(***************************************************************************)
(* Lifecycle as an implementation of HostLease: when the need of a run for  *)
(* its server is over, read off the state files and the processes.          *)
(***************************************************************************)
EXTENDS Lifecycle

(* Before its first need to touch the cloud, and while it may use it. *)
EarlyStages == {"inspect", "provision"}
ClosingStages == {"report", "cleanup"}
UsingStages == EarlyStages \cup HostStages \cup ClosingStages

(* An interrupted run with --retain is reported as stale before it is        *)
(* recorded as retained (cleanup.py:119-125): its retention is no promise.    *)
Exempt == Interruptible \cap RetainOption

Over(r) ==
    /\ pc[r] \notin {"idle"} \cup EarlyStages \cup HostStages
    /\ pc[r] \in ClosingStages => mem[r].status = "interrupted"
    /\ r \notin Exempt =>
         /\ disk[r].status = "retained" => disk[r].until <= now
         /\ pc[r] = "finish" /\ mem[r].status = "retained" => mem[r].until <= now

Need ==
    [r \in Runs |-> IF pc[r] = "idle" THEN "none"
                    ELSE IF r \in evicted THEN "waived"
                    ELSE IF Over(r) THEN "over" ELSE "needed"]

Life ==
    [i \in Ids |-> IF st[i] = "unused" THEN "unrented"
                   ELSE IF st[i] = "live" THEN "rented" ELSE "returned"]

Lease == INSTANCE HostLease WITH need <- Need, life <- Life, tenant <- owner

(* Nothing is rented for a run that no longer needs it, and nothing is given *)
(* back while it does: whatever the run, the janitor and the operator do at  *)
(* the same time, with whatever snapshots, crashes and failing API calls.    *)
LeaseKept == Lease!LeaseSpec
=============================================================================
