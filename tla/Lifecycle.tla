----------------------------- MODULE Lifecycle -----------------------------
(***************************************************************************)
(* The life of the temporary restore servers: the check runs that create   *)
(* and destroy them (run/orchestrator.py), the state file of every run     *)
(* (run/state.py), the LifecycleManager (run/cleanup.py) driven by the     *)
(* hourly janitor and by the operator (cli.py), and the cloud API          *)
(* (providers/).                                                           *)
(*                                                                         *)
(* Every run is a process of its own, the janitor and the operator's       *)
(* `destroy` are two more; they share nothing but the state files and the  *)
(* cloud account, and there is no lock.                                    *)
(***************************************************************************)
EXTENDS Integers, FiniteSets

CONSTANTS
    Runs,           \* run ids: timestamps, hence ordered by their start
    ServerIds,      \* ids the provider may hand out for servers
    VolumeIds,      \* ids the provider may hand out for volumes
    None,           \* no resource
    Janitor,        \* `cleanup --yes` of the hourly timer
    Operator,       \* `destroy` typed by an administrator (or scripts/remove)
    Providers,      \* cloud accounts
    ProviderOf,     \* the provider a run was started with (RunState.provider)
    Configured,     \* the provider `cleanup` talks to
    RetainOption,   \* runs started with --retain
    KeepOnFailure,  \* keep_host_on_failure, option or setting
    InspectOnly,    \* runs started with --inspect-only
    WithVolume,     \* runs whose plan needs an extra volume
    Interruptible,  \* runs that may receive SIGINT or SIGTERM
    ManualDestroy,  \* runs the operator may `destroy`
    DryModes,       \* the values of --dry-run `cleanup` is called with
    DiskMayFill,    \* TRUE: writing a report or a state file may fail
    RetainFor,      \* hours a retained server is kept
    StaleAfter,     \* STALE_AFTER: 24 hours
    RunLimit,       \* no run lives longer (TimeoutStartSec of its service)
    KeepRuns,       \* keep_runs
    MaxTime,        \* bound: the clock stops here
    LastStart,      \* bound: no run starts later
    MaxFaults       \* bound: crashes, kills and failed or repeated API calls

Ids == ServerIds \cup VolumeIds
Actors == Runs \cup {Janitor, Operator}

ASSUME ConstantsAssumption ==
    /\ Runs \subseteq Nat /\ IsFiniteSet(Runs) /\ Runs # {}
    /\ ServerIds \cap VolumeIds = {}
    /\ None \notin Ids \cup Runs
    /\ Janitor \notin Runs /\ Operator \notin Runs /\ Janitor # Operator
    /\ ProviderOf \in [Runs -> Providers] /\ Configured \in Providers
    /\ RetainOption \subseteq Runs /\ InspectOnly \subseteq Runs
    /\ WithVolume \subseteq Runs /\ Interruptible \subseteq Runs
    /\ ManualDestroy \subseteq Runs
    /\ KeepOnFailure \in BOOLEAN /\ DiskMayFill \in BOOLEAN
    /\ DryModes \subseteq BOOLEAN
    /\ RetainFor \in Nat \ {0} /\ StaleAfter \in Nat /\ RunLimit \in Nat
    /\ KeepRuns \in Nat \ {0}
    /\ MaxTime \in Nat /\ LastStart \in Nat /\ MaxFaults \in Nat

(* The state file of a run, `status` "absent" when there is none.  `until`  *)
(* is retained_until, 0 when it is not set.  A run adds at most one volume. *)
RunState ==
    [run     : Runs,
     status  : {"absent", "running", "retained", "finished", "failed",
                "interrupted"},
     cleanup : {"pending", "done", "failed", "not_needed"},
     server  : ServerIds \cup {None},
     volume  : VolumeIds \cup {None},
     until   : Nat,
     started : Nat]

NoState(r) ==
    [run |-> r, status |-> "absent", cleanup |-> "pending", server |-> None,
     volume |-> None, until |-> 0, started |-> 0]

HasCloudResources(s) == s.server # None \/ s.volume # None
NeedsCleanup(s) == HasCloudResources(s) /\ s.cleanup \notin {"done", "not_needed"}

VARIABLES
    now,        \* wall clock, in hours
    disk,       \* runs/<run id>/state.json
    mem,        \* the RunState object each process works on
    pc,         \* where each process is
    failed,     \* CleanupReport.failed of the current destroy_run is not empty
    bad,        \* the report of a run says FAIL before its cleanup
    out,        \* what the report of a run says of its cleanup
    st,         \* the cloud: life of every resource
    owner,      \* the cloud: run label of every resource
    born,       \* the cloud: created_at of every resource
    snap,       \* the janitor's last store.list()
    asOf,       \* the janitor's `now`
    todo,       \* expired runs the janitor has still to destroy
    reap,       \* stale resources the janitor has still to destroy
    dry,        \* this `cleanup` was called with --dry-run
    faults,     \* faults that happened so far
    saved,      \* history: resources some state file ever recorded
    evicted     \* history: runs the operator called `destroy` on

cloudVars == <<st, owner, born>>
janitorVars == <<snap, asOf, todo, reap, dry>>
runVars == <<bad, out>>
vars == <<now, disk, mem, pc, failed, bad, out, st, owner, born, snap, asOf,
          todo, reap, dry, faults, saved, evicted>>

(* From creating the server to the last check: the run needs its server.    *)
HostStages == {"record", "boot", "volume", "attach", "work"}
DestroySteps == {"volume1", "server", "volume2", "conclude"}
RunEnds == {"ended", "crashed", "escaped"}
RunStages == {"inspect", "provision", "report", "cleanup", "verify", "finish"}
               \cup HostStages
JanitorStages == {"expire", "list", "reap"}

Alive(r) == pc[r] \notin RunEnds \cup {"idle"}

Exists(i) == st[i] \in {"live", "deleting"}

TypeOK ==
    /\ now \in Nat
    /\ disk \in [Runs -> RunState]
    /\ mem \in [Actors -> RunState]
    /\ pc \in [Actors -> {"idle"} \cup RunStages \cup RunEnds
                           \cup DestroySteps \cup JanitorStages]
    /\ failed \in [Actors -> BOOLEAN]
    /\ bad \in [Runs -> BOOLEAN]
    /\ out \in [Runs -> {"not started", "none", "retained", "destroyed", "error"}]
    /\ st \in [Ids -> {"unused", "live", "deleting", "gone"}]
    /\ owner \in [Ids -> Runs \cup {None}]
    /\ born \in [Ids -> Nat]
    /\ snap \in [Runs -> RunState]
    /\ asOf \in Nat
    /\ todo \subseteq Runs
    /\ reap \subseteq Ids
    /\ dry \in BOOLEAN
    /\ faults \in Nat
    /\ saved \subseteq Ids
    /\ evicted \subseteq Runs

Init ==
    /\ now = 0
    /\ disk = [r \in Runs |-> NoState(r)]
    /\ mem = [a \in Actors |-> NoState(IF a \in Runs THEN a ELSE CHOOSE r \in Runs : TRUE)]
    /\ pc = [a \in Actors |-> "idle"]
    /\ failed = [a \in Actors |-> FALSE]
    /\ bad = [r \in Runs |-> FALSE]
    /\ out = [r \in Runs |-> "not started"]
    /\ st = [i \in Ids |-> "unused"]
    /\ owner = [i \in Ids |-> None]
    /\ born = [i \in Ids |-> 0]
    /\ snap = [r \in Runs |-> NoState(r)]
    /\ asOf = 0
    /\ todo = {}
    /\ reap = {}
    /\ dry = FALSE
    /\ faults = 0
    /\ saved = {}
    /\ evicted = {}

-----------------------------------------------------------------------------
(* Building blocks.                                                         *)

Goto(a, stage) == pc' = [pc EXCEPT ![a] = stage]

Fault == faults < MaxFaults /\ faults' = faults + 1

(* RunStateStore.save: the whole object replaces the file. *)
Save(s) ==
    /\ disk' = [disk EXCEPT ![s.run] = s]
    /\ saved' = saved \cup ({s.server, s.volume} \ {None})

NoSave == UNCHANGED <<disk, saved>>

(* A fatal error of the try block of IntegrityRun.run: on to the report. *)
Fatal(r) == bad' = [bad EXCEPT ![r] = TRUE] /\ Goto(r, "report")

(***************************************************************************)
(* The cloud API.  A creating POST is sent again when its answer is lost   *)
(* (JsonApi.request), and a create call may fail after the resource came   *)
(* into being (a failed attach action, the last retry): `extra` exists     *)
(* without the caller knowing its id.  Bound: one `extra` per call.        *)
(***************************************************************************)
Unused(pool) == {i \in pool : st[i] = "unused"}

Create(r, got, extra) ==
    LET made == {got, extra} \ {None}
    IN  /\ got # None => extra # got
        /\ IF extra = None THEN UNCHANGED faults ELSE Fault
        /\ st' = [i \in Ids |-> IF i \in made THEN "live" ELSE st[i]]
        /\ owner' = [i \in Ids |-> IF i \in made THEN r ELSE owner[i]]
        /\ born' = [i \in Ids |-> IF i \in made THEN now ELSE born[i]]

(* What DELETE does: nothing to an id the account does not know (404 is a   *)
(* success), a server may stay listed for a while after destroy_vm returned. *)
Delete(i, account) ==
    IF ProviderOf[owner[i]] # account \/ ~Exists(i)
      THEN UNCHANGED st
      ELSE \E after \in {"deleting", "gone"} :
             /\ i \in VolumeIds => after = "gone"
             /\ st' = [st EXCEPT ![i] = after]

(* destroy_vm and destroy_volume, returning or raising ProviderError: the   *)
(* request may have been carried out when its answer is an error.           *)
DeleteOk(i, account) == Delete(i, account) /\ UNCHANGED faults
DeleteError(i, account) == (Delete(i, account) \/ UNCHANGED st) /\ Fault

(* A server whose deletion was accepted disappears. *)
ProviderRemoves(i) ==
    /\ st[i] = "deleting"
    /\ st' = [st EXCEPT ![i] = "gone"]
    /\ UNCHANGED <<now, disk, mem, pc, failed, runVars, owner, born,
                   janitorVars, faults, saved, evicted>>

(* list_managed_resources: whatever carries our labels in the account. *)
Listed(account) == {i \in Ids : Exists(i) /\ ProviderOf[owner[i]] = account}

-----------------------------------------------------------------------------
(* One check run: IntegrityRun.run and its stages.                          *)

Start(r) ==
    /\ pc[r] = "idle"
    /\ now <= LastStart
    /\ \A q \in Runs : q < r => pc[q] # "idle"
    /\ LET s == [NoState(r) EXCEPT !.status = "running", !.started = now]
       IN  mem' = [mem EXCEPT ![r] = s] /\ Save(s)
    /\ Goto(r, "inspect")
    /\ UNCHANGED <<now, failed, runVars, cloudVars, janitorVars, faults, evicted>>

Inspect(r) ==
    /\ pc[r] = "inspect"
    /\ Save(mem[r])
    /\ IF r \in InspectOnly
         THEN /\ mem' = [mem EXCEPT ![r].cleanup = "not_needed"]
              /\ \E b \in BOOLEAN : bad' = [bad EXCEPT ![r] = b]
              /\ Goto(r, "report")
         ELSE Goto(r, "provision") /\ UNCHANGED <<mem, bad>>
    /\ UNCHANGED <<now, failed, out, cloudVars, janitorVars, faults, evicted>>

CreateServer(r) ==
    /\ pc[r] = "provision"
    /\ Save(mem[r])
    /\ \E got, extra \in Unused(ServerIds) \cup {None} :
         /\ Create(r, got, extra)
         /\ IF got = None
              THEN Fatal(r) /\ UNCHANGED mem
              ELSE /\ mem' = [mem EXCEPT ![r].server = got]
                   /\ Goto(r, "record")
                   /\ UNCHANGED bad
    /\ UNCHANGED <<now, failed, out, janitorVars, evicted>>

(* The server's id reaches the disk only now. *)
RecordServer(r) ==
    /\ pc[r] = "record"
    /\ Save(mem[r])
    /\ Goto(r, "boot")
    /\ UNCHANGED <<now, mem, failed, runVars, cloudVars, janitorVars, faults, evicted>>

Boot(r) ==
    /\ pc[r] = "boot"
    /\ Save(mem[r])
    /\ Goto(r, IF r \in WithVolume THEN "volume" ELSE "work")
    /\ UNCHANGED <<now, mem, failed, runVars, cloudVars, janitorVars, faults, evicted>>

CreateVolume(r) ==
    /\ pc[r] = "volume"
    /\ NoSave
    /\ \E got, extra \in Unused(VolumeIds) \cup {None} :
         /\ Create(r, got, extra)
         /\ IF got = None
              THEN Fatal(r) /\ UNCHANGED mem
              ELSE /\ mem' = [mem EXCEPT ![r].volume = got]
                   /\ Goto(r, "attach")
                   /\ UNCHANGED bad
    /\ UNCHANGED <<now, failed, out, janitorVars, evicted>>

RecordVolume(r) ==
    /\ pc[r] = "attach"
    /\ Save(mem[r])
    /\ Goto(r, "work")
    /\ UNCHANGED <<now, mem, failed, runVars, cloudVars, janitorVars, faults, evicted>>

(* Bootstrap, core restore, samples and verification save the state when    *)
(* they begin; what they find makes the report PASS or FAIL.                *)
Work(r) ==
    /\ pc[r] = "work"
    /\ Save(mem[r])
    /\ \/ UNCHANGED <<pc, bad>>
       \/ /\ \E b \in BOOLEAN : bad' = [bad EXCEPT ![r] = b]
          /\ Goto(r, "report")
    /\ UNCHANGED <<now, mem, failed, out, cloudVars, janitorVars, faults, evicted>>

(* A BorgError, ProviderError, RestoreHostError or anything else raised. *)
Fail(r) ==
    /\ \/ pc[r] \in {"inspect", "provision", "boot", "volume", "work"}
       \/ DiskMayFill /\ pc[r] \in {"record", "attach"}
    /\ Fatal(r)
    /\ NoSave
    /\ UNCHANGED <<now, mem, failed, out, cloudVars, janitorVars, faults, evicted>>

(* The signal handler only sets a flag; _check_interrupt looks at it between *)
(* two archives, applications or components.                                 *)
Interrupt(r) ==
    /\ r \in Interruptible
    /\ pc[r] \in {"inspect", "work"}
    /\ mem' = [mem EXCEPT ![r].status = "interrupted"]
    /\ Fatal(r)
    /\ NoSave
    /\ UNCHANGED <<now, failed, out, cloudVars, janitorVars, faults, evicted>>

-----------------------------------------------------------------------------
(* The end of a run: the finally block of IntegrityRun.run.                 *)

Leave(r, how) ==
    /\ Goto(r, how)
    /\ mem' = [mem EXCEPT ![r] = NoState(r)]
    /\ failed' = [failed EXCEPT ![r] = FALSE]

(* _retention_hours: --retain wins; a failed run keeps its host unless it   *)
(* was interrupted.                                                         *)
Retains(r) ==
    /\ mem[r].server # None
    /\ \/ r \in RetainOption
       \/ /\ KeepOnFailure
          /\ bad[r]
          /\ mem[r].status # "interrupted"
          /\ r \notin InspectOnly

Report(r) ==
    /\ pc[r] = "report"
    /\ LET s == IF Retains(r) THEN [mem[r] EXCEPT !.until = now + RetainFor]
                              ELSE mem[r]
       IN  mem' = [mem EXCEPT ![r] = s] /\ Save(s)
    /\ Goto(r, "cleanup")
    /\ UNCHANGED <<now, failed, runVars, cloudVars, janitorVars, faults, evicted>>

Cleanup(r) ==
    /\ pc[r] = "cleanup"
    /\ \/ /\ ~HasCloudResources(mem[r])
          /\ mem' = [mem EXCEPT ![r].cleanup = "not_needed"]
          /\ out' = [out EXCEPT ![r] = "none"]
          /\ Goto(r, "finish")
          /\ NoSave
       \/ /\ HasCloudResources(mem[r]) /\ mem[r].until # 0
          /\ LET s == [mem[r] EXCEPT !.status = "retained"]
             IN  mem' = [mem EXCEPT ![r] = s] /\ Save(s)
          /\ out' = [out EXCEPT ![r] = "retained"]
          /\ Goto(r, "finish")
       \/ /\ HasCloudResources(mem[r]) /\ mem[r].until = 0
          /\ Goto(r, "volume1")
          /\ NoSave
          /\ UNCHANGED <<mem, out>>
    /\ UNCHANGED <<now, failed, bad, cloudVars, janitorVars, faults, evicted>>

LeftoversRecorded(r) ==   \* mutant: looks only for the ids the run knows of
    {i \in {mem[r].server, mem[r].volume} \ {None} : Exists(i)}

(* verify_gone asks the provider; a listing error counts as a failed cleanup. *)
Leftovers(r) == {i \in Listed(ProviderOf[r]) : owner[i] = r}

Verify(r) ==
    /\ pc[r] = "verify"
    /\ \/ /\ out' = [out EXCEPT ![r] = IF Leftovers(r) = {} THEN "destroyed" ELSE "error"]
          /\ NoSave
          /\ UNCHANGED <<mem, faults>>
       \/ /\ Fault
          /\ LET s == [mem[r] EXCEPT !.cleanup = "failed"]
             IN  mem' = [mem EXCEPT ![r] = s] /\ Save(s)
          /\ out' = [out EXCEPT ![r] = "error"]
    /\ Goto(r, "finish")
    /\ UNCHANGED <<now, failed, bad, cloudVars, janitorVars, evicted>>

PrunableRegardless(d) ==   \* mutant: forgets needs_cleanup
    {q \in Runs : d[q].status \notin {"absent", "running", "retained"}}

(* RunStateStore.prune: the oldest state files beyond the KeepRuns newest,   *)
(* counting only those that need nothing any more.                           *)
Prunable(d) ==
    {q \in Runs : d[q].status \notin {"absent", "running", "retained"}
                    /\ ~NeedsCleanup(d[q])}
Pruned(d) ==
    {q \in Prunable(d) : Cardinality({x \in Prunable(d) : q < x}) >= KeepRuns}

Finish(r) ==
    /\ pc[r] = "finish"
    /\ LET s == IF mem[r].status \in {"retained", "interrupted"} THEN mem[r]
                ELSE [mem[r] EXCEPT !.status =
                        IF bad[r] \/ out[r] = "error" THEN "failed" ELSE "finished"]
           d == [disk EXCEPT ![r] = s]
       IN  /\ disk' = [q \in Runs |-> IF q \in Pruned(d) THEN NoState(q) ELSE d[q]]
           /\ saved' = saved \cup ({s.server, s.volume} \ {None})
    /\ Leave(r, "ended")
    /\ UNCHANGED <<now, runVars, cloudVars, janitorVars, faults, evicted>>

(* Writing the report or the state raises OSError inside the finally block:  *)
(* nothing catches it, the remaining stages do not happen.                   *)
Escape(r) ==
    /\ DiskMayFill
    /\ \/ pc[r] \in {"report", "conclude", "finish"}
       \/ pc[r] = "cleanup" /\ mem[r].until # 0
    /\ Leave(r, "escaped")
    /\ Fault
    /\ NoSave
    /\ UNCHANGED <<now, runVars, cloudVars, janitorVars, evicted>>

(* SIGKILL, power loss, systemd's timeout. *)
Crash(r) ==
    /\ Alive(r)
    /\ Leave(r, "crashed")
    /\ Fault
    /\ NoSave
    /\ UNCHANGED <<now, runVars, cloudVars, janitorVars, evicted>>

-----------------------------------------------------------------------------
(* LifecycleManager.destroy_run, executed by a run, the janitor or the      *)
(* operator on the RunState object it holds.                                *)

(* A run and `destroy` use the run's provider, `cleanup` the configured one. *)
Account(a) == IF a = Janitor THEN Configured ELSE ProviderOf[mem[a].run]

destroyFrame == <<now, runVars, owner, born, janitorVars, evicted>>

DestroyVolume(a, stage, next) ==
    /\ pc[a] = stage
    /\ \/ mem[a].volume = None /\ UNCHANGED <<mem, failed, st, faults>>
       \/ /\ mem[a].volume # None
          /\ DeleteOk(mem[a].volume, Account(a))
          /\ mem' = [mem EXCEPT ![a].volume = None]
          /\ UNCHANGED failed
       \/ /\ mem[a].volume # None
          /\ DeleteError(mem[a].volume, Account(a))
          /\ failed' = [failed EXCEPT ![a] = TRUE]
          /\ UNCHANGED mem
    /\ Goto(a, next)
    /\ NoSave
    /\ UNCHANGED destroyFrame

DestroyServer(a) ==
    /\ pc[a] = "server"
    /\ \/ mem[a].server = None /\ UNCHANGED <<mem, failed, st, faults>>
       \/ /\ mem[a].server # None
          /\ DeleteOk(mem[a].server, Account(a))
          /\ mem' = [mem EXCEPT ![a].server = None]
          /\ UNCHANGED failed
       \/ /\ mem[a].server # None
          /\ DeleteError(mem[a].server, Account(a))
          /\ failed' = [failed EXCEPT ![a] = TRUE]
          /\ UNCHANGED mem
    /\ Goto(a, "volume2")
    /\ NoSave
    /\ UNCHANGED destroyFrame

ConcludedRegardless(s, ok) ==   \* mutant: says done whatever failed
    [s EXCEPT !.cleanup = "done", !.until = 0,
              !.status = IF @ \in {"running", "retained"} THEN "finished" ELSE @]
ConcludedMixedUp(s, ok) ==   \* mutant: writes the cleanup status into status
    [s EXCEPT !.status = IF ok THEN "done" ELSE "failed"]

(* A failure of the first pass over the volumes stays in the report even    *)
(* when the second pass succeeds.                                           *)
Concluded(s, ok) ==
    IF ok
      THEN [s EXCEPT !.cleanup = "done",
                     !.status = IF @ \in {"running", "retained"} THEN "finished" ELSE @,
                     !.until = 0]
      ELSE [s EXCEPT !.cleanup = "failed"]

Conclude(a) ==
    /\ pc[a] = "conclude"
    /\ LET s == Concluded(mem[a], ~failed[a])
       IN  /\ Save(s)
           /\ mem' = [mem EXCEPT ![a] = IF a \in Runs THEN s ELSE NoState(s.run)]
    /\ \/ a \in Runs /\ ~failed[a] /\ Goto(a, "verify") /\ UNCHANGED out
       \/ a \in Runs /\ failed[a] /\ Goto(a, "finish") /\ out' = [out EXCEPT ![a] = "error"]
       \/ a = Janitor /\ Goto(a, "expire") /\ UNCHANGED out
       \/ a = Operator /\ Goto(a, "idle") /\ UNCHANGED out
    /\ failed' = [failed EXCEPT ![a] = FALSE]
    /\ UNCHANGED <<now, bad, cloudVars, janitorVars, faults, evicted>>

DestroyRun(a) ==
    \/ DestroyVolume(a, "volume1", "server")
    \/ DestroyServer(a)
    \/ DestroyVolume(a, "volume2", "conclude")
    \/ Conclude(a)

(* cmd_destroy: the state as it is on disk, whatever its run is doing.      *)
(* Bound: once per run.                                                     *)
OperatorDestroys(r) ==
    /\ pc[Operator] = "idle"
    /\ r \in ManualDestroy \ evicted
    /\ disk[r].status # "absent"
    /\ mem' = [mem EXCEPT ![Operator] = disk[r]]
    /\ evicted' = evicted \cup {r}
    /\ Goto(Operator, "volume1")
    /\ NoSave
    /\ UNCHANGED <<now, failed, runVars, cloudVars, janitorVars, faults>>

(* Ctrl-C, or an exception in the middle of it. *)
OperatorStops ==
    /\ pc[Operator] # "idle"
    /\ Goto(Operator, "idle")
    /\ Fault
    /\ mem' = [mem EXCEPT ![Operator] = NoState(mem[Operator].run)]
    /\ failed' = [failed EXCEPT ![Operator] = FALSE]
    /\ NoSave
    /\ UNCHANGED <<now, runVars, cloudVars, janitorVars, evicted>>

-----------------------------------------------------------------------------
(* cmd_cleanup: expire_retained, find_stale, destroy_resources.             *)

ExpiredEarly(s, t) ==   \* mutant: does not look at the clock
    s.status = "retained" /\ s.until # 0 /\ HasCloudResources(s)

Expired(s, t) ==
    s.status = "retained" /\ s.until # 0 /\ s.until <= t /\ HasCloudResources(s)

JanitorWakes ==
    /\ pc[Janitor] = "idle"
    /\ dry' \in DryModes
    /\ snap' = disk
    /\ asOf' = now
    /\ todo' = {r \in Runs : Expired(disk[r], now)}
    /\ Goto(Janitor, "expire")
    /\ NoSave
    /\ UNCHANGED <<now, mem, failed, runVars, cloudVars, reap, faults, evicted>>

JanitorExpires(r) ==
    /\ pc[Janitor] = "expire"
    /\ r \in todo /\ \A q \in todo : r <= q
    /\ mem' = [mem EXCEPT ![Janitor] = snap[r]]
    /\ todo' = todo \ {r}
    /\ Goto(Janitor, "volume1")
    /\ NoSave
    /\ UNCHANGED <<now, failed, runVars, cloudVars, snap, asOf, reap, dry, faults, evicted>>

(* find_stale reads the clock and the states first, the cloud second. *)
JanitorLists ==
    /\ pc[Janitor] = "expire"
    /\ todo = {}
    /\ snap' = disk
    /\ asOf' = now
    /\ Goto(Janitor, "list")
    /\ NoSave
    /\ UNCHANGED <<now, mem, failed, runVars, cloudVars, todo, reap, dry, faults, evicted>>

StaleAtOnce(i, d, t) ==   \* mutant: no grace for a resource without a state file
    LET s == d[owner[i]]
    IN  /\ ~(s.status = "retained" /\ s.until > t)
        /\ ~(s.status = "running" /\ t - s.started < StaleAfter)
StaleThoughRunning(i, d, t) ==   \* mutant: ignores that the run is running
    LET s == d[owner[i]]
    IN  IF s.status = "absent" THEN t - born[i] > StaleAfter
        ELSE ~(s.status = "retained" /\ s.until > t)
StaleUnrecorded(i, d, t) ==   \* mutant: only resources without a state file
    d[owner[i]].status = "absent" /\ t - born[i] > StaleAfter

(* The verdict on resource i, given the states d read at time t.            *)
Stale(i, d, t) ==
    LET s == d[owner[i]]
    IN  IF s.status = "absent"
          THEN t - born[i] > StaleAfter
          ELSE /\ ~(s.status = "retained" /\ s.until > t)
               /\ ~(s.status = "running" /\ t - s.started < StaleAfter)

JanitorRests ==
    /\ Goto(Janitor, "idle")
    /\ snap' = [r \in Runs |-> NoState(r)]
    /\ asOf' = 0
    /\ todo' = {}
    /\ reap' = {}
    /\ dry' = FALSE

JanitorFinds ==
    /\ pc[Janitor] = "list"
    /\ LET stale == {i \in Listed(Configured) : Stale(i, snap, asOf)}
       IN  IF stale = {} \/ dry
             THEN JanitorRests
             ELSE /\ reap' = stale
                  /\ Goto(Janitor, "reap")
                  /\ UNCHANGED <<snap, asOf, todo, dry>>
    /\ NoSave
    /\ UNCHANGED <<now, mem, failed, runVars, cloudVars, faults, evicted>>

(* One resource of destroy_resources: the deletion, then the state file is  *)
(* loaded, corrected and saved.                                             *)
Forgotten(s, i) ==
    LET t == [s EXCEPT !.server = IF @ = i THEN None ELSE @,
                       !.volume = IF @ = i THEN None ELSE @]
    IN  IF HasCloudResources(t) THEN t
        ELSE [t EXCEPT !.cleanup = "done",
                       !.status = IF @ \in {"running", "retained"} THEN "finished" ELSE @]

JanitorReaps(i) ==
    /\ pc[Janitor] = "reap"
    /\ i \in reap
    /\ i \in VolumeIds => reap \cap ServerIds = {}
    /\ \/ /\ DeleteOk(i, Configured)
          /\ IF disk[owner[i]].status = "absent" THEN NoSave
             ELSE Save(Forgotten(disk[owner[i]], i))
       \/ DeleteError(i, Configured) /\ NoSave
    /\ reap' = reap \ {i}
    /\ UNCHANGED <<now, mem, pc, failed, runVars, owner, born, snap, asOf,
                   todo, dry, evicted>>

JanitorDone ==
    /\ pc[Janitor] = "reap"
    /\ reap = {}
    /\ JanitorRests
    /\ NoSave
    /\ UNCHANGED <<now, mem, failed, runVars, cloudVars, faults, evicted>>

(* The service's 30 minutes are over, or the provider's listing failed. *)
JanitorStops ==
    /\ pc[Janitor] # "idle"
    /\ JanitorRests
    /\ Fault
    /\ mem' = [mem EXCEPT ![Janitor] = NoState(mem[Janitor].run)]
    /\ failed' = [failed EXCEPT ![Janitor] = FALSE]
    /\ NoSave
    /\ UNCHANGED <<now, runVars, cloudVars, evicted>>

-----------------------------------------------------------------------------
(* An hour passes.  RunLimit: systemd ends a scheduled run after 12 hours.  *)
Tick ==
    /\ now < MaxTime
    /\ \A r \in Runs : Alive(r) => now < mem[r].started + RunLimit
    /\ now' = now + 1
    /\ UNCHANGED <<disk, mem, pc, failed, runVars, cloudVars, janitorVars,
                   faults, saved, evicted>>

RunStep(r) ==
    \/ Start(r) \/ Inspect(r) \/ CreateServer(r) \/ RecordServer(r) \/ Boot(r)
    \/ CreateVolume(r) \/ RecordVolume(r) \/ Work(r) \/ Fail(r) \/ Interrupt(r)
    \/ Report(r) \/ Cleanup(r) \/ Verify(r) \/ Finish(r) \/ Escape(r) \/ Crash(r)

JanitorStep ==
    \/ JanitorWakes \/ JanitorLists \/ JanitorFinds \/ JanitorDone \/ JanitorStops
    \/ \E r \in Runs : JanitorExpires(r)
    \/ \E i \in Ids : JanitorReaps(i)

OperatorStep == OperatorStops \/ \E r \in Runs : OperatorDestroys(r)

Next ==
    \/ \E r \in Runs : RunStep(r)
    \/ \E a \in Actors : DestroyRun(a)
    \/ JanitorStep
    \/ OperatorStep
    \/ \E i \in Ids : ProviderRemoves(i)
    \/ Tick

Spec == Init /\ [][Next]_vars

(***************************************************************************)
(* Fairness.  A run is ended by its own code or by systemd, the janitor's   *)
(* timer is hourly, time passes, and a deletion the provider accepted is    *)
(* carried out.  Nothing forces a run to start, a signal to arrive or the   *)
(* operator to act.  API errors are finite: MaxFaults stands for an outage  *)
(* that ends.                                                               *)
(***************************************************************************)
RunProgress(r) ==
    \/ Inspect(r) \/ CreateServer(r) \/ RecordServer(r) \/ Boot(r)
    \/ CreateVolume(r) \/ RecordVolume(r) \/ Work(r) \/ Report(r)
    \/ Cleanup(r) \/ Verify(r) \/ Finish(r)

JanitorProgress ==
    \/ JanitorWakes \/ JanitorLists \/ JanitorFinds \/ JanitorDone
    \/ \E r \in Runs : JanitorExpires(r)
    \/ \E i \in Ids : JanitorReaps(i)

Fairness ==
    /\ \A r \in Runs : WF_vars(RunProgress(r))
    /\ \A a \in Actors : WF_vars(DestroyRun(a))
    /\ WF_vars(JanitorProgress)
    /\ \A i \in Ids : WF_vars(ProviderRemoves(i))
    /\ WF_vars(Tick)

FairSpec == Spec /\ Fairness

-----------------------------------------------------------------------------
(* Properties.                                                              *)

(* find_stale and destroy_resources, working on an old snapshot, never take  *)
(* the server or the volume away from a run that is still using them.        *)
HostInUseSpared ==
    \A r \in Runs \ evicted : pc[r] \in HostStages =>
        \A i \in {mem[r].server, mem[r].volume} \ {None} : st[i] = "live"

(* A retained server is there until its retention ends or the operator asks  *)
(* for its destruction: neither half of `cleanup` touches it.  (A run with   *)
(* --retain that is interrupted is the exception: while it writes its report *)
(* its state file says neither running nor retained, cleanup.py:119-125.)    *)
RetainedHostSpared ==
    \A r \in Runs \ (evicted \cup (Interruptible \cap RetainOption)) :
        disk[r].status = "retained" /\ now < disk[r].until =>
            \A i \in {disk[r].server, disk[r].volume} \ {None} : st[i] = "live"

(* cleanup_status "done" is the truth about every resource the state file    *)
(* ever recorded, whoever wrote it and whatever failed before.               *)
DoneMeansGone ==
    \A r \in Runs \ evicted : disk[r].cleanup = "done" =>
        \A i \in saved : owner[i] = r => st[i] # "live"

(* The report says "all temporary resources destroyed" only when the         *)
(* provider has nothing of the run any more, servers a repeated POST created *)
(* behind the run's back included.                                           *)
ReportTellsTruth ==
    \A r \in Runs : out[r] = "destroyed" => \A i \in Ids : owner[i] = r => st[i] = "gone"

(* keep_runs never throws away the last record of a billed resource.         *)
PrunedOwnsNothing ==
    \A r \in Runs \ evicted : pc[r] # "idle" /\ disk[r].status = "absent" =>
        \A i \in saved : owner[i] = r => st[i] # "live"

(* Whatever crashes, fails or is created twice: every server and volume is   *)
(* destroyed in the end.                                                     *)
NothingLeaks == \A i \in Ids : st[i] = "live" ~> st[i] = "gone"

(* doc/ADMIN.md: a retained server is destroyed when the retention ends.     *)
RetentionEnds ==
    \A i \in ServerIds :
        (\E r \in Runs : disk[r].status = "retained" /\ disk[r].server = i) ~> st[i] = "gone"
=============================================================================
