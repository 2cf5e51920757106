# Verification of the Borg backup integrity check

`borg_backup_integrity_check` is a YunoHost package that proves a Borg backup
can be restored: a *check run* reads the archives, rents a temporary server from
a cloud provider, restores the system, the applications and a sample of the
large data on it, checks the result, writes a report and destroys the server.
This directory holds TLA+ models of that program, the TLC runs that check them
on small instances, and theorems with machine-checked proofs.

All paths below are relative to `src/`; `S/` stands for
`src/sources/borg_backup_integrity_check/`.

## Inventory

| component | state | operations | interacts with | what makes it correct |
|---|---|---|---|---|
| run life cycle (`S/run/orchestrator.py`) | one `RunState` in memory, the report | 8 stages, the exception paths of `run`, `_retention_hours`, `_stage_cleanup`, `_finish`, signal flag | state store, provider, life-cycle manager, host agent | every path ends in cleanup or retention; the report says what happened |
| run state store (`S/run/state.py`) | `runs/<id>/state.json` | save (whole object, temporary file and rename), load, list, unfinished, prune | runs, janitor, `destroy`, `status` | no record of a billed resource is dropped |
| life-cycle manager (`S/run/cleanup.py`) | none of its own | `destroy_run`, `expire_retained`, `find_stale`, `destroy_resources`, `verify_gone` | state store, provider | destroys everything, and nothing that is in use |
| command line (`S/cli.py`) | none | `run`, `destroy`, `cleanup`, reading commands | all of the above | the right provider, the right runs |
| services (`conf/`) | timers | hourly janitor (30 min limit), scheduled run (12 h limit) | command line | a run ends before the janitor takes it for dead |
| providers (`S/providers/`) | the cloud account | create, wait, destroy, list; retries of `JsonApi.request` | life cycle | labels on everything that is created |
| ssh session, host agent (`S/restore/ssh.py`, `agent.py`) | retry counter, time waited | `run`, `wait_ready`, `call` | host helper | a command that may have run is never repeated |
| host helper (`S/restore/host_helper.py`) | the restore host: quarantine, apt sources, apps, staged data | one process per command | YunoHost, Borg | a failed step leaves nothing behind for the next; the host is isolated |
| restore engine, planner, payload, bootstrap (`S/restore/`) | plan, outcomes | selection, disk estimate, order of restores, payload, health checks | agent, report | PASS is only said of what was restored and checked; the server is large enough |
| Borg client and archives (`S/borg/`) | cached listings, `.part` files, one Borg process | commands with retries, streamed listings, grouping of archives into generations | Borg, inspection | a listing is whole or absent, every command ends; one generation is compared with the previous one |
| discovery (`S/discovery/`) | none | components, large data, profiles | planner | nothing a restore script needs is left out |
| manifest and history (`S/manifest/`) | `manifests/*.json` | build, compare, save, prune, known components | inspection | a component that disappears is reported |
| sampler (`S/sampling/`) | heaps per category | select | planner | every category is represented |
| evidence, report (`S/evidence/`, `S/report/`) | report | finalize, overall | life cycle | statuses are monotone in the findings |
| configuration, secrets (`S/config.py`, `secrets.py`) | settings files | read, read-modify-write of the secrets | command line | no update is lost, no secret lies about |
| price catalog (`S/providers/catalog.py`) | a cached answer of the provider | read, refresh | configuration panel | the cache is whole or ignored |
| packaging (`scripts/`) | installed files | `remove` calls `destroy --all` | command line | nothing billed survives removal |

**Hard behaviours.** Runs, the janitor and an administrator's `destroy` are
separate processes without a lock; they share the state files and the account.
Each can die at any point. Creating requests are repeated after lost answers.
Commands over ssh may be interrupted while they go on running on the host. Borg
writes to two pipes of which the program reads one at a time. Files are replaced
while other processes read them.
`PROJECT.json` lists each of these hazards with its line and the property that
would catch it.

## Modules

| module | content |
|---|---|
| `Lifecycle` | runs, state files, life-cycle manager, janitor, operator, provider account |
| `HostLease` | what the life cycle promises, without files, janitor or API |
| `LifecycleLease` | the refinement mapping from `Lifecycle` to `HostLease` |
| `MCLifecycle` | values and symmetry for TLC |
| `LifecycleTypes` | `TypeCorrect`, and what each process's step does to the others (frame lemmas) |
| `LifecycleProofs` | the inductive invariant, `HostSafe`, `RetainedSafe`, `ReportTrue`; the state files name what still runs: `DoneIsGone`, `PrunedIsGone`; the refinement `LeaseImplemented` |
| `RestoreHost` | the temporary server, and what each helper command leaves on it |
| `RestoreSession` | the commands of a check run, the ssh session, the report |
| `MCRestoreSession` | plans and sets of commands for TLC |
| `RestoreProofs` | `SessionTyped`, the invariant of the session, `StartedOnce`, `ChangesAlone`; the history of the judgements, `SamplesWhereRestored`, `PassIsRestored`, `RestoredAlone`; the isolation, `KeysHarmless`, `IsolatedFromUse` |
| `Generations` | how the archives of a repository form backup generations |
| `Comparison` | how a manifest is compared with earlier ones: every anomaly |
| `Inspection` | one check after another on a changing repository: generation, manifest, history, report |
| `MCInspection` | sizes and scopes for TLC |
| `InspectionProofs` | `InspectionTypes`, `GenerationsRight`, `SettledIsNotSaid`, `ChangesAreTold`, `RepeatsAreSame` |
| `LargeData` | which directories are large data, what is kept of them |
| `Sampler` | the one-pass choice of the newest objects |
| `Selection` | one pass over a cached listing: large roots, sample, kept plumbing |
| `BorgClient` | Borg commands with their retries; a listing that Borg writes and the program reads |
| `Planning` | one component from `read_layout` to the last file of its restore, with `BorgClient` and `Selection` as its parts |
| `MCPlanning` | ten components of a few files, settings and server sizes for TLC |
| `SelectionProofs` | lemmas about what the operators of `LargeData` and `Sampler` return: sums, roots, kept plumbing, heaps and their merge |
| `PlanningProofs` | the invariants of a run up to the restore: `ListingsWhole`, `RestoredWasListed`, `CommandsBounded`, `SaidIsChecked`, `FilesCountedOnce`, `KeptIsPaid`, `SampleIsRight`, `DiskSuffices`, `PlanningTypes` |
| `FiniteInduction` | the smallest counterexample over finite sets and numbers, and sums as counts |
| `FileRegister` | what a file that is replaced as a whole promises |
| `Storage` | files written to a temporary name and renamed, chunk by chunk; refines `FileRegister` |
| `MCStorage` | symmetry for TLC |
| `StorageProofs` | `StorageTyped`, `ReadersSeeWholeFiles`, the refinement `FileIsRegister`, `UpdatesKeptAlways`, `NoSecretsLeftBehind` |

### `Lifecycle`: state and actions

`disk` is the directory of state files, `mem[a]` the `RunState` object of process
`a` (a run, `Janitor` or `Operator`), `pc[a]` its position, `failed[a]` whether
`CleanupReport.failed` is non-empty. `st`, `owner` and `born` are the cloud
account: life, run label and creation time of every id. `snap`, `asOf`, `todo`
and `reap` are the janitor's local variables (the result of `store.list()`, its
clock, the expired runs and the stale resources still to be destroyed). `bad`
and `out` abstract the report: whether it says FAIL, and what it says of the
cleanup. `faults` counts faults; `saved` and `evicted` are history.

A run passes `Start`, `Inspect`, `CreateServer`, `RecordServer`, `Boot`,
`CreateVolume`, `RecordVolume`, `Work`, then `Report`, `Cleanup`, `Verify`,
`Finish`. Each action is the code between two points where another process can
see or change something: a state file is saved or a request is answered. `Fail`
and `Interrupt` are the exception paths to the `finally` block, `Escape` an
exception inside it, `Crash` the death of the process. `DestroyVolume`,
`DestroyServer` and `Conclude` are `destroy_run`, executed by whoever called it
on the object it holds. `JanitorWakes`, `JanitorExpires`, `JanitorLists`,
`JanitorFinds`, `JanitorReaps`, `JanitorDone` are `cmd_cleanup`.

Abstractions: a run adds at most one volume; the static provider, which creates
and destroys nothing, is left out; ssh keys, which cost nothing and are skipped
by `find_stale`, are left out; a save is one step; `JanitorReaps` joins the
deletion of one resource and the correction of its state file (a crash in
between is covered by a deletion that was carried out but reported an error).
A run killed before it created anything stays `running` on disk for ever: it
owns nothing.

The cloud is external: a DELETE of an id the account does not know succeeds
(`hetzner.py:196`, `digitalocean.py:191`), a deletion may be accepted, stay
visible and complete later, any request may fail after it was carried out, and a
creating request may leave an `extra` resource the caller never hears of.

### `RestoreHost` and `RestoreSession`: state and actions

`Lifecycle` treats the work of a run as one stage (`Work`); `RestoreSession` is
the inside of that stage. `Script` is the sequence of commands the stages
`_stage_bootstrap`, `_stage_restore_core`, `_stage_samples` and `_stage_verify`
send to the server, computed from the plan; `at` is the position in it. `call`,
`attempt`, `waited` and `reply` are one ssh command: being dialed, refused
connections, seconds slept, answer. `known`, `payload`, `checks`, `samples` and
`warned` are what the orchestrator remembers, `fatal`, `asked` and `ended` how
the run ends. `procs` are the helper processes on the server, which outlive the
session that started them; `started` is history; `host` is the server, a record
described in `RestoreHost`.

`Skip` and `Dial` enter a step; `NoticeSignal` is `_check_interrupt`. `Refuse`
is a connection that failed before the session existed, `Connect` one that
starts the helper, `Break` a session that drops or times out. `HelperEnds` is
the end of a helper: it changes the server as `Outcomes` says (success, failure,
exception) and answers if its session still listens. The actions `Answer...` are
what the orchestrator makes of an answer, `Report` the verdict and the decision
to retain the server.

`RestoreHost` keeps of the server what the properties speak of: is the DynDNS
service blocked, are production's DynDNS keys there, is outbound mail disabled,
which domains it serves and maps to itself, which components left apt sources,
which were restored and which got their large data.

Abstractions: every application has one domain and every component at most one
large root; the parts of the system configuration are one component; the samples
of a component are all readable, partly readable or unreadable; several ssh
commands of one deployment are one step; the mail directories, which
`mail-verify` makes and resyncs, are not part of the server's record. Which
message of OpenSSH means that the session never existed
(`S/restore/ssh.py:21-35`) is taken as the code has it. What YunoHost's own
restore does to the server (`Unpacked`, `WithSources`, `Restorable`) is external
and modelled as the code's comments and quarantine describe it: the system
restore brings keys, domains and mail configuration of production; a failed one
may bring them too.

### `Generations`, `Comparison`, `Inspection`: state and actions

These are the first stage of a run, over many runs. `live` is what the
components of the production server contain, `repo` the archives, `history` the
directory of manifests; `pc`, `gen`, `scope` and `found` are the run under way:
its position, the generation it took, the components whose archives it lists
(`--component`), and the comparison it made. `said` is the last report; `died`
(history) says that since then a run died between saving its manifest and
reporting.

`Backup` makes an archive of one component; components are backed up at
different times, some not at all. `Change` and `Remove` (`borg prune`) are the
other things that happen to production and repository, at any moment of a run.
`Inspect` is the listing and `latest_generation`, `ReadFails` an archive that is
gone when it is read, `Compare` is `_build_manifest_and_compare` with the
comparison of `Comparison!Anomalies`, the saving and the pruning, `Report` the
end of the run, `Die` its death.

Abstractions: an archive has one manifest component (the parts of the system
archive are one); a listed archive has the size `borg info` says and `borg info`
always answers; `_build_manifest_and_compare` is one step, since nobody else
writes the history while one run is at work; settings switch the manifest
comparison and the rolling baselines on; warnings of stale components and names
that do not parse are left out; the thresholds are numbers of the same small
scale as the sizes, and percentages are compared by multiplication, exact where
the code rounds to floating point.

### `BorgClient`, `LargeData`, `Sampler`, `Selection`, `Planning`: state and actions

`Planning` follows one component through a run, up to the last file of its
restore; `stage` is the position. `ReadLayout`, `ListArchive` or `SkipListing`,
`Select` and `Inspected` are `_stage_inspect`; `StartChecks`, `Check`, `Checked`,
`StartDryRun`, `EndDryRun` are `_borg_level_checks` and `_deep_dry_run`;
`Provision` is `build_plan`, the disk estimate and the choice of size and
volume; `RestoreStep` are the steps of `restore-core` and `extract-payload` on
the server, each of which fills or empties a directory (`used`).

Three modules are parts of it. `BorgClient` (by INSTANCE, its variables are
those of `Planning`) holds a command that runs and is repeated (`Call`,
`Returns`, `Again`: `client`, `attempt`, `result`), and the listing, where Borg
(`borg`, `code`, `unsent`, `unsaid`) writes to its two pipes (`out`, `err`),
which block it when they are full, and the program reads stdout to its end
before it looks at stderr (`ReadsLine`, `EndOfListing`), into a `.part` file
(`part`) that becomes the `listing`. `Selection` is one component's
selection: `Discover` finds its large roots, `Sample` reads one line of the
listing into the heaps, `Merge` ends that pass and picks the plumbing
directories, `Keep` reads one line in the second pass. Both passes read in the
order of the archive. `LargeData` and `Sampler` are the operators: the
aggregates and the descent of the size heuristic, the removal of nested roots,
the kept directories and files; the candidates, the bounded heaps and the round
robin. A sample is the set of what the round robin takes: `Merges` are the
samples that its order (`Earlier`) allows. `CoreFiles` and `PayloadFiles` are
what the host helper's Borg patterns let through.

Abstractions: a path is a sequence of names, and names belong to sets (dumps,
code, hidden, excluded) instead of matching patterns; a listing has files only,
and every line of it parses; Borg writes its lines in any order; which
directories of the archive the settings, the manifest and a profile name is an
input; groups that are equally new are merged in any order, and the order of a
sample, which nothing depends on, is left out; the plan has one
component, since the estimate adds them up, and the restores of several follow
each other; image, region and ssh key of the server are left out; what YunoHost
does with the tar (unpack it, put files and databases in place) is external;
what is extracted of the large data is counted in /home, whatever its path.
An application that is named by `never_restore` and selected by `all` is listed,
though never planned: `InScope` has it as the code does.

### `Storage`, `FileRegister`: state and actions

A `Storage` is one file that several processes read and replace; `target` is the
inode that has its name, `tmp` those with a temporary name, `content` their
chunks. The program has two disciplines (`unique`): the state of a run, a
manifest and the cached catalogue are written from memory to a temporary file of
a fixed name, which a second writer truncates (`Truncate`) and renames away from
the first (`RenameFails`); the secrets are read, changed and written to a file
of a name of its own (`NewFile`). `OpenFile`, `ReadChunk`, `CloseFile` are
`load` and `_read`; `OpenTemporary`, `WriteChunk`, `Rename`, `WriteFails` are
`save` and `_write`; `Die` is the death of a process anywhere. `docs[v]` says
from which save every key in version v comes; `last` and `overlapped` are
history.

Abstractions: a version is written and read in chunks of the same number; what a
document says is left out, only which save it is from; a failed write is noticed
at any chunk; a file that survives a power loss without its data (the program
never calls `fsync`) is left out; inodes are used again when nobody has them.

## Runs

| run | what it asks | bounds |
|---|---|---|
| `one_run` | one run against the janitor: safety; everything is destroyed in the end; `Lifecycle` implements `HostLease` | 2 servers, 1 volume, 2 faults, 4 hours with `StaleAfter` 2, `RunLimit` 1 and `RetainFor` 2, fairness |
| `two_runs` | two overlapping runs, pruning with `keep_runs` 1, `--dry-run` | 2 servers, 1 fault, 2 hours, the second run with `--retain` |
| `leaks_with_operator` | the last two questions with `destroy` at any moment and a full disk | 1 server, 1 fault, fairness |
| `other_provider` | a statement of the documentation, which the code contradicts | 1 server |
| `restore_one` | safety of a sampled check | sampled mode, system configuration, 1 application with large data and mail, every command may break, fail or raise (the quarantine and the listing of domains excepted), signals, a full local disk |
| `restore_apps` | two applications judged one after the other; the session ends | full mode, no system configuration, 2 applications, 1 with a third-party apt source and a large root, every command may break or fail, no exception of `restore-core` and `extract-payload`, fairness |
| `retain_unisolated`, `full_fails` | one statement of the documentation each, which the code contradicts | only the failure it needs |
| `inspection` | are changes reported, once, and by every repetition alike? | 2 components of 2 sizes, times 0 to 3, window 1, retention 3, 1 change or removal |
| `planning` | is what is listed, sampled, kept, checked and bought right? does every command end? (183009 states) | 10 components of 1 to 8 files, samples of 2, 2 retries, 6 exit codes of Borg, pipes of 1 and 2 lines, 3 complaints, 3 sizes, fairness of Borg |
| `deep_dry_run` | does a full dry run read all large data? | the same, safety only |
| `storage` | do readers see whole files, are updates kept? is the file a register? | 3 processes, 3 inodes, 3 saves of 2 chunks, 2 secrets, both disciplines |

**Bounds.** `MaxTime`, `LastStart` and `MaxFaults` bound the clock, the start of
runs and the faults; a create call makes at most one `extra` resource; the
operator destroys each run once. The clock has to pass `StaleAfter` after the
latest start for the janitor to reach its last verdicts: `MaxTime` is at least
`StaleAfter` + 1 in every run about leaks. One hour of the model stands for a
longer time in reality; only the order `RunLimit < StaleAfter` (12 h and 24 h)
and the relation of `RetainFor` to both matter. Two server ids are needed for a
server behind the run's back; one volume id suffices since a run adds at most
one.

**Fairness** (`FairSpec`). Weak fairness of each run's own progress (systemd
ends what hangs), of `destroy_run`, of the janitor (`conf/janitor.timer` starts
it every hour), of the provider carrying out accepted deletions, and of the
clock. Nothing forces a run to start, a signal to arrive, a fault to happen or
an administrator to act. Faults are finite in number: an outage ends.
Deadlock is checked in every run of the life cycle and of the inspection: the
janitor and the checks never stop.

**The restore session.** The retry budget is 5 to 20 seconds (one or two delays
of 5 and 15 seconds) instead of 600 and `wait_ready` polls twice: what matters
is that there is at least one retry and then an end. One application beside the
system configuration is enough for the order of quarantine, system restore and
applications; two are needed where one is judged after another. `restore_one`
and `restore_apps` leave the exceptions out that nobody notices (of the
quarantine, of the listing of domains, and in `restore_apps` of the restore
itself and of `extract-payload`; see the findings): with them the isolation, the
apt sources and the verdict of a full restore are wrong. `CHECK_DEADLOCK` is
off: a session ends with its report.
Fairness (`FairSpec`) is weak fairness of the orchestrator alone: it is a
sequential program, and ssh ends by its answer, its keep-alive
(`ServerAliveCountMax`) or the local timeout, which is `Break`. Helpers need not
end.

**The inspection.** Times are those of the archives: four of them hold two full
generations and a partial one, in any overlap of the window, and a baseline that
reaches the retention. One change or removal is enough for every property, which
compare two reports; sizes 100 and 60 differ by more than both thresholds.
`SettledRuns` is 1 instead of 3 and the rolling window 3 instead of 7 and 30
days: four manifests make a median of three and a backup after it. The
inspection runs check safety only and assume no fairness.

**The planning.** The ten components have, between them, nested and separate
roots, roots found by size and by kind, files of the same age, excluded,
unhealthy and hidden files, repositories, plumbing that fits, that does not, and
that exceeds the budget together, a second copy of an application, one without
settings, system configuration that is planned and that is skipped. The size
`small` lies between what the components need, so that its disk suffices, does
not, or does with a volume. A sample of two out of three groups shows
every decision of the heaps and of the round robin. Of stdout's pipe one line
and two retries suffice: what matters is that Borg can be blocked and that there
is a second attempt and then an end. Not every setting is tried on every
component (`SettingsOf`): the large ones are there for the selection and the
disk, a small one gets all names that may select it, all servers and all checks.
Fairness (`FairSpec`) is weak fairness of `BorgStep` alone: Borg goes on as long
as it can write and ends, its reader reads what there is. `Complaints` is larger
than `ErrCapacity`, so that Borg does come to a full stderr, which the code
reads only after the end of stdout: the listing stalls, and `CommandsEnd` leaves
that state (`Stalled`) out; see the findings. The run ends (deadlock is not
checked).

**The storage.** Two processes overlap, and the third reads meanwhile; a third
save is needed for a reader that still has the first version open when the
second is replaced. Two chunks make a document that can be torn. Processes do
not start again once dead; `MaxVersion` bounds the saves, so the run ends
(deadlock is not checked).

## What the passing runs show

* `HostInUseSpared`: between creation and the end of its work a run keeps its
  server and volume. The janitor's snapshot may be older than the run, and it
  lists the cloud after reading the states: the grace for resources without a
  state file and the `running` guard are both needed (a mutant without either
  breaks it). `RunLimit < StaleAfter` is needed too: a run started by hand has
  no time limit, and one that lasts longer than 24 hours loses its server.
* `RetainedHostSpared`: neither half of `cleanup` touches a retained server
  early.
* `DoneMeansGone`, `ReportTellsTruth`: `cleanup_status` "done" and the sentence
  "all temporary resources destroyed" are true, also after failed and repeated
  deletions, and also of servers the run never learnt of.
* `PrunedOwnsNothing`: pruning never removes the last record of a live resource.
* `NothingLeaks`: every resource is destroyed in the end.
* `LeaseKept`: `Lifecycle` implements `HostLease`.
* `AtMostOnce`: no restore, quarantine, formatting or installation is started
  twice: only refusals before the session existed are dialed again, and the
  `echo` of `wait_ready`.
* `NothingBeside`: a broken session leaves its helper running, and still, up to
  the verification, nothing overlaps with a command that changes the server,
  since errors end the run in every stage but the verification. There,
  `mail-verify` may run beside a check that was abandoned; what was started
  before the verification is over by then.
* `ProductionDnsSafe`, `IsolatedInUse`: the first quarantine is there for the
  minutes of the system restore, the second for everything the restore brought
  back; either one left out breaks a property.
* `JudgedAlone`, `SampledWhereRestored`: a failed application leaves nothing to
  the next, and gets no samples.
* `PassMeansRestored`: a report that is not FAIL describes a server on which the
  core of everything planned was restored, the samples (`restore_one`) or the
  large roots (`restore_apps`) were extracted, and nothing that changes it is
  running. In full mode this needs that `extract-payload` does not end in an
  exception: the report would say PASS without the root (see the findings).
* `Terminates`: the session always comes to its report.
* `GenerationsSound`: however backups of the components overlap, fail or are
  pruned, generations share no archive, lose none, and the one before is older
  in every component.
* `ChangesTold`: whatever is different between two generations that were
  reported on is in the second report, with failed runs in between, partial
  generations and removed archives. A mutant that prunes too early breaks it.
* `RepeatTellsTheSame`: a second check of the same generation finds what the
  first one found, although the first one has saved that generation's manifest.
* `SettledIsSilent`: a change that has settled raises no alarm.
* `CountedOnce`: every file counts once, in the core or in one root.
* `SampleRight`: the sample is the newest of every group, evenly, and full, in
  every order of the listing; of repositories at the same place in several roots
  exactly one is a candidate.
* `KeptIsCosted`: what is kept of the large data is within its budget and counts
  in the estimate for no less than it is.
* `ListingWhole`: whatever Borg's end, a broken listing is never used. A mutant
  that does not look at the exit code breaks it.
* `PlannedIsListed`: the two rules, of the inspection and of the plan, agree for
  every combination of names, so that nothing is restored whose large data is
  unknown.
* `ChecksTrue`: "pass" is said when every command passed in the end.
* `DiskNeverFull`: in sampled mode the estimate covers every step of the restore
  of one component, the copies that exist at the same time included: on the disk
  of a server without a volume (`DiskHolds`), or on the volume (`VolumeHolds`).
  It says nothing of the server's own disk beside a volume, which may be too
  small (see the findings).
* `CommandsEnd`: a command ends, however often it is repeated, and a listing
  ends unless it stalls at a full stderr: there is no other way for Borg and the
  reader to wait for each other.
* `ReadersSeeWhole`, `RegisterKept`: a process that reads a state file or the
  secrets reads one version of it from beginning to end, whatever writers do,
  fail or die meanwhile; with a fixed temporary name this needs that saves do
  not overlap, which `Sound` says.
* `UpdatesKept`: changes of different secrets do not undo each other, unless
  they overlap.
* `NothingLeftBehind`: only a writer that was killed leaves secrets in a
  temporary file.

## Findings

Each of the four is a run that expects a violation; `PROJECT.json` quotes the
sentence.

1. `other_provider`: `cleanup` uses the configured provider for every expired
   run. After `run --provider X --retain`, or after the configured provider was
   changed, the deletion goes to the wrong account, whose 404 counts as success:
   the state file forgets the server and nothing ever destroys it.
2. `retain_unisolated`: an error right after the system restore, with
   `keep_host_on_failure`, retains a server that was isolated before the restore
   only: it holds production's DynDNS keys and its mail is not disabled.
3. `full_fails`: in full mode every sample is "not extracted", because the
   helper names the root and the retriever looks for the objects; a full check
   of an application with samples cannot pass.
4. `deep_dry_run`: a full dry run hands the large directories to a function for
   exact paths (`S/borg/client.py:289`). Borg reads nothing below them, and the
   report says that all large data was read and verified.

Met while modelling, without a run of their own:

* An extraction that ended in an exception is a full restore that passed:
  `retrieve` looks for errors in the list of roots, which is empty then
  (`S/restore/payload.py:71`), although "Reports never overstate success"
  (`doc/ADMIN.md:42`). TLC finds `FullMeansRestored` violated with
  `FullFails.cfg` when `MayRaise = {"extract-payload"}` and `HasObjects = {}`.
  `PassMeansRestored` and `PassIsRestored` leave the case out in full mode.
* Unless volumes are forbidden, the server is picked with a disk of any size
  (`S/run/orchestrator.py:463`), and a volume makes up for it. But the volume
  carries /home and /var/mail alone (`S/restore/host_helper.py:1073`); YunoHost
  itself, the code and the databases of applications stay on the server's own
  disk, as `DEVELOPMENT.md:116` says, and nothing checks that they fit, although
  'auto' is said to pick a type "with enough RAM and disk"
  (`config_panel.toml:140`). TLC finds `BootDiskNeverFull` violated with
  `Planning.cfg` when `Components <- OneSite`.
* `iter_items` reads stderr after the end of stdout (`S/borg/client.py:214`). A
  Borg that writes more to stderr than a pipe holds (64 KiB: a warning for each
  of some hundred files) blocks, its stdout never ends, and the run hangs until
  systemd ends it. TLC finds it in the run `planning` without the disjunct
  `Stalled` of `CommandsEnd`.
* A health check whose session broke is caught (`S/run/orchestrator.py:756`)
  and its helper may go on; `mail-verify`, which makes directories, changes the
  owner of maildirs and resyncs them (`S/restore/host_helper.py:1017`), is then
  started beside it. TLC finds `NothingBeside` violated with `Restore.cfg`
  without its exemption of the verification (`Verifying`).
* A run restricted to one application does not list the archives of the others,
  records dumps of size 0 for them and then reports their dumps as lost
  (`S/manifest/compare.py:228`). The next full run compares with those zeros and
  cannot notice a dump that is really gone. TLC finds `DumpAlarmTrue` violated
  with `Inspection.cfg` when `Scopes <- OnlyOne`, `MaxTime = 2`, `MaxEvents = 0`.
* Two processes that save the state of the same run at the same time (a run, and
  `destroy` or the janitor) share `state.json.tmp` (`S/run/state.py:92`): one
  may truncate what the other is about to rename, so that a torn file gets the
  name and `load` ignores the run, or one fails with `FileNotFoundError`. TLC
  finds both without `Sound` in `ReadersSeeWhole`.
* Two changes of secrets at the same time lose one (`S/secrets.py:57`):
  `UpdatesKept` without `~overlapped`.
* Full mode costs the large data 1.2 times (`S/restore/planner.py:55`), but
  `extract-payload` stages all of it before copying it into place
  (`S/restore/host_helper.py:656`), so that it is on the disk twice.
  `DiskNeverFull` is about sampled mode.
* With `restore_volume = never` and a preferred size the size is taken whatever
  its disk (`S/providers/base.py:234`), though 'never' is to pick one that is
  large enough.
* The helper takes every exit code of Borg from 100 on for a warning
  (`S/restore/host_helper.py:489`), the client only those below 128
  (`S/borg/client.py:38`).
* An exception while the report is written skips `_stage_cleanup`
  (`S/run/orchestrator.py:161`); the janitor destroys the server 24 hours after
  the start.
* An exception (a YunoHost call that times out) between the snapshot of the apt
  sources and its revert leaves the failed application's sources to the next one
  (`S/restore/host_helper.py:541`).
* A run that dies after `history.save` and before its report, which may be hours
  later, swallows a change: the next run compares with the manifest it saved
  (`S/run/orchestrator.py:333`). Without `~died`, `ChangesTold` is violated.
* A first run lists the repository twice (`S/run/orchestrator.py:311`). A
  backup made in between changes how the archives cluster, and the "previous"
  generation may hold archives of the current one.
* The size heuristic compares a directory with itself
  (`S/discovery/large_data.py:195`): it descends as long as a child holds half
  of the application, not "while a single child holds this share" of 80 %
  (`large_data.py:62`), and leaves the siblings in the core. TLC finds it with
  the component `Unknown`.
* `seen_git_roots` holds paths relative to a root and is shared by all roots
  (`S/sampling/sampler.py:227`): of two repositories with the same relative path
  in two roots only the first is a candidate. `SampleRight` says which may be
  lost (`LostTwins`); without that TLC finds it violated with the component
  `Forge`.
* The estimate counts of a sampled repository its HEAD alone
  (`S/restore/planner.py:26`), but its refs, logs and packed refs are extracted
  too (`S/restore/host_helper.py:785`). `DiskSuffices` needs that twice their
  size fits into `MIN_HEADROOM_GB`, 3 GB (`MetadataFits`): a repository with
  some gigabytes of refs is not expected, and nothing checks it.
* The configuration panel allows a `backup_max_age_hours` of a year and a
  `history_retention_days` of 30 (`config_panel.toml:304`, `:313`). A generation
  that is older than the retention and not too old is pruned in the step that
  saves its manifest (`S/run/orchestrator.py:333`), so the next run compares with
  an older one and no report warns. `ChangesAreTold` assumes `MaxAge <=
  Retention`, as in the defaults (36 hours, 400 days).
* Slow drift is taken for a settled change (`S/manifest/compare.py:268`): with
  the default thresholds a component that loses about 1.5 % with every daily
  backup is within 5 % of each of the last three, so that nothing is said when
  it has fallen by more than 20 % below its 30-day median.
* `destroy_run` keeps the failure of its first pass (`S/run/cleanup.py:44`): a
  volume that can only be destroyed after its server, the case the second pass
  is for, makes the cleanup `failed` although nothing is left.
* Between `_stage_report` and `_stage_cleanup` an interrupted run with `--retain`
  is neither running nor retained on disk (`S/run/cleanup.py:119`); a janitor at
  that moment takes the server that is about to be retained.
  `RetainedHostSpared` and `LeaseKept` leave this window out.
* `cleanup --dry-run` destroys expired servers: they are expired before the
  option is looked at (`S/cli.py:215`).
* Nobody looks at the `ok` of the quarantine (`S/restore/engine.py:95`).
* A health command that raised leaves all its checks skipped and the application
  PASS (`S/restore/health.py:55`).
* `_save_restore_log` guards the writing of the log against a full disk, not the
  making of its directory (`S/run/orchestrator.py:655`).

## Proofs

`tlapm` checks every leaf. The theorems hold for all values of the constants.

* `TypeCorrect` (`LifecycleTypes`): `Spec => []TypeOK`. `TypeOK` is not
  inductive: the janitor indexes the state files by the label of a resource, so
  `TypeInv` adds `Labelled` (what exists or is to be reaped has a label).
* `InductiveInvariant`, `HostSafe`, `RetainedSafe` (`LifecycleProofs`), under
  the assumption `RunLimit < StaleAfter`. The argument: call a run *over* when
  it no longer needs its server (`Over` in `LifecycleLease`). *Over* is stable,
  and everything the janitor holds belongs to runs that are over or evicted: an
  expired retention stays expired; a resource found stale belongs to a run whose
  snapshot did not protect it (`SnapProtects`), and a run that is not over was
  protected by every snapshot since it started, because its state file says
  `running` with the same start and the clock cannot have passed start +
  `RunLimit`. `IInv` states this for every process, together with what relates
  a run's memory, its state file and the cloud (`OwnInv`, `MemInv`, `DiskInv`,
  `HostInv`, `JanitorInv`).
  The frame lemmas of `LifecycleTypes` say what a step of one process leaves
  alone of another's.
* `LeaseImplemented` (`LifecycleProofs`), under the same assumption: every step of
  `Lifecycle` is a step of `HostLease` or none. A step that rents or returns
  changes no need, so it is a `Rent` (`RentStep`) or a `Return` (`ReturnStep`)
  alone; any other step of a run that has started can only end needs
  (`NeedSteps`, which is the stability of *over*), which is a `Release`.
* `ReportTrue` (`LifecycleProofs`): when `verify_gone` finds nothing, a run whose
  report says "destroyed" is past the stages that create anything, and what is
  gone stays gone (`TruthInv`). It needs no assumption: servers that a repeated
  POST made are in the listing whether or not the run knows of them.
* `RecordsComplete`, `DoneIsGone`, `PrunedIsGone` (`LifecycleProofs`), under
  `RunLimit < StaleAfter` and `AccountKept`, that every run was started in the
  account `cleanup` talks to (the run `other_provider` shows what happens
  otherwise). `DoneMeansGone` is not inductive, because four parties write a
  state file from copies of different age: the run's memory, the janitor's
  snapshot, the copy destroy_run works on and the file itself. `RecordInv` says
  that each copy that may still be written names everything *outstanding*, what
  was recorded once and still runs (`Known`); that a copy that says "done" or is
  absent names nothing (`Settled`); and that destroy_run without a failure has
  cleared what it has passed (`Cleared`). A janitor's snapshot of an expired run
  stays complete because such a run is finishing or over (`IInv`) and has
  nothing left to record (`StageInv`). Runs the operator called `destroy` on are
  left out, as in the properties: `destroy` reads the file of a run at work.

* `SessionTyped`, `StartedOnce`, `ChangesAlone` (`RestoreProofs`), for every
  plan, retry budget and set of commands that fail, raise or break. `Script` is
  typed first (`FrontTyped`, `VerifyTyped`): the steps whose errors are caught
  are those of the verification, and they come last (`ScriptOrder`).
  `NothingBeside` is not inductive: the invariant adds that steps to come were
  never started (`Counted`) and that a helper of an earlier stage runs only
  under the session that waits for it until an error ends the run (`Attended`).
  So `mail-verify`, the one command of the verification that changes the server,
  meets at most other helpers of the verification, which `NothingBeside` leaves
  out.
  `Kinds` reduces every action to what it does to the position, so that the
  preservation is proved for six kinds of steps instead of twenty actions.
* `SamplesWhereRestored`, `PassIsRestored` (`RestoreProofs`), likewise for every
  plan and failure. What the report says is compared with the server at every
  position of `Script` (`Judged`): what the last answer tells is so (`Told`);
  what the steps behind the position were to restore and place is there or
  failed in the report (`Passed`); a command is only sent for a step that is not
  skipped (`Committed`); a helper before the verification belongs to the current
  step, also after an error (`Behind`); and a session that has ended has done
  every step or has failed (`Over`). It rests on the order of `Script`: the
  restore of an application comes before its payload (`RestoredBeforeSampled`),
  and every planned component has its steps (`ScriptPlaces`). What is to be
  placed is, in full mode, the large roots: behind the position they are on the
  server or the extraction failed in the report (`ExtractedOrFailed`), if it
  does not end in an exception (the assumption
  `"extract-payload" \notin MayRaise`). A helper of the verification that was
  abandoned left its component unreachable in the report (`Abandoned`), so that
  a report that is not FAIL has none.
* `RestoredAlone` (`RestoreProofs`), if no exception leaves `restore-core` in its
  middle (`"restore-core" \notin MayRaise`): a restore that fails reverts its
  sources (`SourcesReverted`). With such an exception it is false; that is among
  the findings.
* `KeysHarmless`, `IsolatedFromUse` (`RestoreProofs`), under `IsolationWorks`: a
  quarantine and a listing of the domains neither fail nor raise. The
  orchestrator looks at neither answer (see the findings), so without the
  assumption they are false. `IsolationInv` adds that the DynDNS service stays
  blocked from the first quarantine on (`Blocked`), that the orchestrator knows
  every domain of the server after it asked (`Listed`), and that nothing undoes
  the second quarantine (`SealedInUse`); the order facts are that the system
  restore lies between the two (`SystemAfterQuarantine`) and that no domain
  comes after the listing (`DomainsListedLast`).

* `InspectionTypes`, `GenerationsRight`, `SettledIsNotSaid`, `ChangesAreTold`,
  `RepeatsAreSame` (`InspectionProofs`), for any number of components, archives,
  sizes and runs. `Clusters` is a recursive function; that it splits a repository
  into sound generations is proved for the smallest repository for which it does
  not (`ClustersSound`). `InspectInv` says that the newest archive is never
  removed, so that nothing that was reported or saved is ahead of the repository,
  and that the history has one manifest for every generation time. A comparison
  therefore reads only earlier manifests. `ToldInv` adds that the manifest of the
  last report is the newest of the history until another run has compared with
  it, which needs `MaxAge <= Retention` (see the findings); `RepeatInv` adds that
  what the next comparison of the same generation would read is what the last one
  read: saving and pruning change nothing of it (`SavingHarmless`,
  `SameWindows`).

* `ListingsWhole`, `RestoredWasListed`, `CommandsBounded` (`PlanningProofs`), for
  every component, setting, exit code and capacity. The invariant `RunInv` says
  of a listing under way that what was read, what is in the pipe and what Borg
  has yet to write are together the archive (`Reads`), that outside of it there
  is no Borg (`Alone`), how often a command was sent in which state of the
  client (`Counted`), and what was listed in which stage (`StageInv`).
  `PlannedInScope` is the agreement of the two rules. From them it follows that
  at the end of stdout an exit code that is fine means that everything was read.
  Two lemmas, `CallKeeps` and `StageKeeps`, cover all steps between commands.
* `SaidIsChecked` (`PlanningProofs`): the checks that passed, those that failed
  and those still to come are together the ones that were wished for
  (`ChecksInv`), and a sampled dry run names some of the large files, if there
  are any, and claims as many as it named (`DryRunInv`).
* `FilesCountedOnce`, `KeptIsPaid`. A sum over a set is a recursive function in
  the community modules. `TotalIsCount` proves that it is the number of the pairs
  of an element and a unit of its value, so that disjoint unions, subsets and
  covers follow from the library's theorems on cardinality (`SizeOfTwo`,
  `SizeOfPart`, `SizeOfParts`, `SizeOfCover`). The roots are then separate
  (`RootsApart`), the descent of the size heuristic ends in a directory of the
  archive (`ContentIsDir`), and each round of `KeepDirs` and each line that
  `KeptFile` reads adds to the budget what it adds to the files (`DirsCosted`,
  `ListedFileCosted`).
* `SampleIsRight`, for every archive, sample size and order of the listing.
  While a listing is read, the heaps of a root are a choice, among the objects
  read, of the newest of each group, up to the size of the sample (`Covers`,
  `InsertCovers`), and the repositories left out are those whose place was seen
  in another root (`SeenTwins`, `TakenHead`, `LostHead`). `Merge` then takes
  whole rounds: an entry whose round is smaller is not left out for one whose
  round is larger (`LeftOutRound`, `ChosenRound`), the entry that leads a group
  is its newest (`LeadIsNewest`), and from that evenness and preference follow
  (`ChosenWell`). Times may be equal; the order of arrival breaks the tie, and
  with it the heap's oldest entry is unique.
* `DiskSuffices`, under `MetadataFits` (see the findings). Every directory is
  bounded by its share of the estimate: the core and what is kept
  (`CoreEstimated`), the sample and the metadata of its repositories
  (`PayloadEstimated`); `DiskInv` says which of them are on the disk at the same
  time after each step, and `RequiredCovers`, `OffersSuffice`, joined in
  `Bought`, that the size bought without a volume, or the volume, holds them.
  Of the server's own disk beside a volume nothing is proved, since it may be
  too small.
* `PlanningTypes`: `TypeOK` is not inductive either; it needs the heaps
  (`HeapsInv`), the pipes, whose lines are finite in number (`PipesInv`), and
  that what the steps put on the disk are numbers (`DiskTypes`).

* `StorageTyped`, `ReadersSeeWholeFiles`, `FileIsRegister`, `UpdatesKeptAlways`
  (`StorageProofs`), for any number of processes, inodes, chunks and secrets.
  The invariant `FileSafe` holds as long as `Sound` does: the file's inode holds
  a whole version, nobody writes to it or to what a reader has open, two writers
  have different inodes, what was written so far is the writer's version, and
  what was read so far is the version of the inode that is open. A rename then
  puts a whole version in place, which is `Replace` of `FileRegister`; opening
  is `Open`; every other step stutters. `Sound` is stable backwards
  (`SoundBefore`), so that the refinement may assume it before a step and takes
  `Spoil` otherwise. For `UpdatesKept` the invariant `ChangesInv` adds, while
  nothing overlapped, that one process at most is at a change, that what it read
  is still what is in the file, and that what it writes is that with its change.
* `NoSecretsLeftBehind` (`StorageProofs`), for any number of processes: a step
  adds a temporary file together with its writer, removes both, or leaves the
  files alone (`FilesAndOwners`), so that there are never more files than
  processes that write or are dead (`OwnedFiles`).

**Assumptions.** The constants have the assumptions of their modules, which TLC
evaluates in every run; beyond them a theorem assumes only what it names:
`RunLimit < StaleAfter` (12 and 24 hours in `conf/`), `AccountKept`,
`IsolationWorks`, `"restore-core" \notin MayRaise`, in full mode
`"extract-payload" \notin MayRaise`, `MaxAge <= Retention`, `MetadataFits`. TLC
runs with values for which they hold, except where a finding shows what happens
without.

**Induction.** The library's induction theorems take a formula as a parameter,
which the installed provers cannot instantiate. `FiniteInduction` replaces them:
it names the smallest set (`SmallestSubset`), the set of smallest value
(`SmallestValue`) or the smallest number (`SmallestNumber`) that has a property
that is given as a set, so that a proof by induction becomes one by the smallest
counterexample. The operators it is used for are recursive functions and the
folds of the community modules, whose sums `TotalIsCount` characterises;
`RECURSIVE` operators occur nowhere in these modules.

**Only model-checked.** Liveness: `NothingLeaks`, `Terminates`, `CommandsEnd`.
The prover has no rule for fairness (`WF_` hides an `ENABLED`), so what the
janitor destroys in the end, that a session comes to its report and that every
command ends is checked by TLC on the bounds above. Every safety property of a
passing run, invariant or action property, is also a theorem.

## Plan

Done: every module above, and the proofs above. What would come next:

1. Several components in `Planning`, so that `DiskNeverFull` also speaks of what
   one restore leaves behind for the next.
2. The hazards without a property in `PROJECT.json`: health probes, a quarantine
   that stops in its middle, the interrupted run with `--retain`, and the
   manifests of restricted runs.
3. The ranking arguments of the liveness properties as safety theorems: that
   retries and the time waited only grow (`CommandsBounded` is the first).

## Not modelled

The evidence extractors and the rendering of reports (parsing and formatting, no
state), the reading of settings, the display of prices, logging and redaction,
the static provider (owns nothing), the rendering of systemd units, the
development tools. Parts of modelled components that are left out are named
under their abstractions and in `PROJECT.json`.
