------------------------------- MODULE Planning -------------------------------
(* A check run up to the restore, and the disk it takes (S/run/orchestrator. *)
(* py, S/restore/planner.py): an archive is listed by Borg, the listing      *)
(* sampled, the archive checked, a server of the right size bought, and the  *)
(* component restored on it. BorgClient and Selection are parts of it.       *)
EXTENDS Selection

CONSTANTS
    SkipParts,                  \* SYSTEM_PARTS_SKIPPED_BY_DEFAULT
    Settings,                   \* those tried on each component
    DryRunLimit,                \* objects of a sampled dry run
    Sizes, MinMemory,           \* [name, disk, memory, price]
    VolumesOffered,             \* capabilities.volumes
    BaseDisk, Headroom,         \* BASE_DISK_GB, MIN_HEADROOM_GB
    VolumeLess, VolumeMin,      \* 4 and 10: volume_gb = max(need_disk - 4, 10)
    Retries, ExitCodes, Complaints, OutCapacity, ErrCapacity

ASSUME PlanningAssumption ==
    /\ {DryRunLimit, MinMemory, BaseDisk, Headroom, VolumeLess, VolumeMin} \subseteq Nat
    /\ DryRunLimit > 0 /\ VolumeLess <= BaseDisk /\ VolumeMin > 0
    /\ {Retries, Complaints, OutCapacity, ErrCapacity} \subseteq Nat /\ OutCapacity > 0
    /\ ExitCodes \subseteq Int
    /\ \A c \in Components : \A o \in Settings[c] :
         /\ o.mode \in {"sampled", "full"} /\ o.restore_volume \in {"always", "auto", "never"}
         /\ o.level \in {"off", "archives", "repository"}
         /\ o.deep_check \in {"off", "sampled_dry_run", "full_dry_run"}
    /\ VolumesOffered \in BOOLEAN
    /\ \A s \in Sizes : s.disk \in Nat
    /\ \A s, t \in Sizes : s.name = t.name \/ s.price = t.price => s = t

VARIABLES
    client, attempt, result, borg, code, unsent, out, unsaid, err, part,  \* of BorgClient
    stage,          \* of the run
    order,          \* the settings: selected, never, level, deep_check, mode,
                    \* restore_volume and preferred (a size's name, or "auto")
    asked,          \* the commands of _borg_level_checks still to be sent
    failures,       \* the commands that failed
    verified,       \* history: the commands that did not
    says,           \* the report: borg_check and deep_check
    dryRun,         \* [paths, claims]: what is dry-run, how much is said to be
    need,           \* of the plan: required_disk_gb
    server,         \* what was bought: [disk, volume]
    step, used      \* the step of the restore; what is on the server's disk

B == INSTANCE BorgClient

clientVars == <<client, attempt, result, borg, code, unsent, out, unsaid, err, part, listing>>
checkVars == <<asked, failures, verified, says, dryRun>>
serverVars == <<need, server, step, used>>
planVars == <<stage, order, checkVars, serverVars>>
vars == <<clientVars, selectionVars, planVars>>

Empty == [work |-> 0, tar |-> 0, tmp |-> 0, core |-> 0, staged |-> 0, placed |-> 0]

Init ==
    /\ B!ClientInit /\ SelectionInit
    /\ order \in Settings[comp]
    /\ stage = "start" /\ asked = <<>> /\ failures = {} /\ verified = {}
    /\ says = [borg |-> "none", deep |-> "none"] /\ dryRun = [paths |-> {}, claims |-> 0]
    /\ need = 0 /\ step = 0 /\ used = Empty
    /\ server = [disk |-> 0, volume |-> 0]

-----------------------------------------------------------------------------
(* Which components are listed, and which are restored.                    *)

Named(c) == {c.id, c.manifest} \cap order.selected # {}
Banned(c) == {c.id, c.manifest} \cap order.never # {}
All == "all" \in order.selected

(* Bug: a component is listed by its own name only. *)
InScopeById(c) == c.kind = "app" => All \/ (c.id \in order.selected /\ ~Banned(c))

(* _app_selected; the archives of the system are always listed. *)
InScope(c) == c.kind = "app" => All \/ (Named(c) /\ ~Banned(c))

(* build_plan *)
Planned(c) ==
    CASE c.kind = "app" -> ~Banned(c) /\ (All \/ Named(c)) /\ c.described
      [] c.kind = "system_conf" ->
            c.id \notin SkipParts /\ (All \/ {c.id, "system"} \cap order.selected # {})
      [] OTHER -> All \/ {c.id, "system"} \cap order.selected # {}

-----------------------------------------------------------------------------
(* _stage_inspect                                                          *)

(* Borg or its listing goes on.                                              *)
BorgStep == B!ClientStep /\ UNCHANGED <<selectionVars, planVars>>

(* read_layout extracts the metadata of the archive.                         *)
ReadLayout ==
    /\ stage = "start" /\ stage' = "layout"
    /\ B!Call
    /\ UNCHANGED <<selectionVars, order, checkVars, serverVars>>

ListArchive ==
    /\ stage = "layout" /\ client = "idle" /\ result = "ok" /\ InScope(comp)
    /\ stage' = "listing"
    /\ B!List(comp.files)
    /\ UNCHANGED <<selectionVars, order, checkVars, serverVars>>

SkipListing ==
    /\ stage = "layout" /\ client = "idle" /\ result = "ok" /\ ~InScope(comp)
    /\ stage' = "inspected" /\ pc' = "keeping"
    /\ UNCHANGED <<clientVars, comp, roots, passVars, samples, keep, order, checkVars, serverVars>>

(* A BorgError, or a full disk, ends the run.                                *)
GiveUp ==
    /\ stage \in {"layout", "listing"} /\ client = "idle" /\ result = "failed"
    /\ stage' = "ended"
    /\ UNCHANGED <<clientVars, selectionVars, order, checkVars, serverVars>>

Select ==
    /\ stage = "listing" /\ client = "idle" /\ result = "ok"
    /\ SelectionStep
    /\ UNCHANGED <<clientVars, planVars>>

Inspected ==
    /\ stage = "listing" /\ client = "idle" /\ result = "ok" /\ Selected
    /\ stage' = "inspected"
    /\ UNCHANGED <<clientVars, selectionVars, order, checkVars, serverVars>>

-----------------------------------------------------------------------------
(* _borg_level_checks and _deep_dry_run                                    *)

Wanted ==
    CASE order.level = "off" -> <<>>
      [] order.level = "archives" -> <<"archive">>
      [] OTHER -> <<"archive", "repository">>

StartChecks ==
    /\ stage = "inspected" /\ stage' = "checks"
    /\ asked' = Wanted
    /\ UNCHANGED <<clientVars, selectionVars, order, failures, verified, says, dryRun, serverVars>>

(* `check` for the next archive, or for the repository.                      *)
Check ==
    /\ stage = "checks" /\ asked # <<>>
    /\ stage' = "checking"
    /\ B!Call
    /\ UNCHANGED <<selectionVars, order, checkVars, serverVars>>

(* Bug: only the last check counts. *)
CheckedLast ==
    /\ stage = "checking" /\ client = "idle"
    /\ stage' = "checks" /\ asked' = Tail(asked)
    /\ IF result = "failed" THEN failures' = {Head(asked)} /\ UNCHANGED verified
       ELSE failures' = {} /\ verified' = verified \cup {Head(asked)}
    /\ UNCHANGED <<clientVars, selectionVars, order, says, dryRun, serverVars>>

Checked ==
    /\ stage = "checking" /\ client = "idle"
    /\ stage' = "checks" /\ asked' = Tail(asked)
    /\ IF result = "failed" THEN failures' = failures \cup {Head(asked)} /\ UNCHANGED verified
       ELSE verified' = verified \cup {Head(asked)} /\ UNCHANGED failures
    /\ UNCHANGED <<clientVars, selectionVars, order, says, dryRun, serverVars>>

(* What may be read without being written: of a sample the files of the      *)
(* large roots, by lot; in full mode the roots themselves.                   *)
DryRunPaths ==
    LET candidates == {i.path : i \in {j \in listing : IsLarge(roots, j.path) /\ j.size > 0}}
    IN CASE order.deep_check = "full_dry_run" -> {roots}
         [] order.deep_check = "sampled_dry_run" ->
               {P \in SUBSET candidates :
                   Cardinality(P) = Min({DryRunLimit, Cardinality(candidates)})}
         [] OTHER -> {{}}

StartDryRun ==
    /\ stage = "checks" /\ asked = <<>>
    /\ \E P \in DryRunPaths :
         /\ says' = [borg |-> IF order.level = "off" THEN "skipped"
                              ELSE IF failures = {} THEN "pass" ELSE "fail",
                     deep |-> IF order.deep_check = "off" THEN "skipped" ELSE "pass"]
         /\ dryRun' = [paths |-> P, claims |-> 0]
         /\ IF P = {} THEN stage' = "checked" /\ UNCHANGED clientVars
            ELSE stage' = "dryrun" /\ B!Call
    /\ UNCHANGED <<selectionVars, order, asked, failures, verified, serverVars>>

EndDryRun ==
    /\ stage = "dryrun" /\ client = "idle"
    /\ stage' = "checked"
    /\ IF result = "ok"
       THEN dryRun' = [dryRun EXCEPT !.claims = Cardinality(dryRun.paths)] /\ UNCHANGED says
       ELSE says' = [says EXCEPT !.deep = "fail"] /\ UNCHANGED dryRun
    /\ UNCHANGED <<clientVars, selectionVars, order, asked, failures, verified, serverVars>>

(* extract_from_list: its patterns are exact, a directory stands for itself. *)
DryRunReads == {i \in listing : i.path \in dryRun.paths}

-----------------------------------------------------------------------------
(* The plan and the server it is restored on.                              *)

(* sampled_bytes: a repository counts for its HEAD. *)
SampledSize(sample) == Size({o.item : o \in sample})

KeptBytes == Total([r \in roots |-> keep[r].bytes])
SampledBytes == Total([r \in roots |-> SampledSize(samples[r])])

(* Bug: what is kept of the large data is forgotten. *)
CoreDiskWithoutKept(core, kept, dumps) == core * 3 + dumps * 2

(* The core is on the disk three times: as a tar file, unpacked, restored.   *)
CoreDisk(core, kept, dumps) == (core + kept) * 3 + dumps * 2

(* disk_estimate_bytes, in thousandths: the shares are 1.2, 2.5 and 1.15.    *)
DiskEstimate ==
    LET core == IF comp.kind = "system_data" THEN 0
                ELSE CoreDisk(CoreSize(listing, roots), KeptBytes, Size(Dumps(listing, roots)))
        payload == IF roots = {} THEN 0
                   ELSE IF order.mode = "full" THEN 12 * LargeSize(listing, roots)
                   ELSE 25 * SampledBytes
    IN (10 * (BaseDisk + IF Planned(comp) THEN core ELSE 0)
        + IF Planned(comp) THEN payload ELSE 0) * 115

(* required_disk_gb: rounded up. *)
Required == (DiskEstimate + 999) \div 1000 + Headroom

(* choose_size without a preference. *)
Cheapest(disk) ==
    LET fitting == {s \in Sizes : s.memory >= MinMemory /\ s.disk >= disk}
    IN {s \in fitting : \A t \in fitting : s.price <= t.price}

(* choose_size: a preferred size is taken as it is. *)
ChosenSize(disk) ==
    IF order.preferred = "auto" THEN Cheapest(disk)
    ELSE {s \in Sizes : s.name = order.preferred}

NeedsVolume(size, gb) ==
    \/ order.restore_volume = "always"
    \/ order.restore_volume = "auto" /\ size.disk < gb

VolumeGb(size, gb) == Max({gb - VolumeLess, VolumeMin})

(* The servers and volumes that may be bought, none if that is an error.     *)
Offers(gb) ==
    {[disk |-> s.disk,
      volume |-> IF NeedsVolume(s, gb) THEN VolumeGb(s, gb) ELSE 0] :
        s \in {t \in ChosenSize(IF order.restore_volume = "never" THEN gb ELSE 0) :
                  VolumesOffered \/ ~NeedsVolume(t, gb)}}

Provision ==
    /\ stage = "checked"
    /\ need' = Required
    /\ IF Offers(need') = {} THEN stage' = "ended" /\ UNCHANGED server
       ELSE /\ server' \in Offers(need')
            /\ stage' = IF Planned(comp) THEN "restoring" ELSE "ended"
    /\ step' = IF comp.kind = "system_data" THEN 7 ELSE 0
    /\ UNCHANGED <<clientVars, selectionVars, order, checkVars, used>>

-----------------------------------------------------------------------------
(* The disk of the server, while the component is restored.                *)

(* core_patterns *)
CoreFiles ==
    {i \in listing :
        \/ ~IsLarge(roots, i.path)
        \/ \E r \in roots : i.path \in keep[r].files \/ IsLarge(keep[r].dirs, i.path)}

(* What is extracted of a repository beside its HEAD. *)
GitFiles == {<<"logs", "HEAD">>, <<"packed-refs">>, <<"config">>, <<"description">>}
Beside(head, i) ==
    LET git == SubSeq(head.path, 1, Len(head.path) - 1)
    IN IsStrictPrefix(git \o <<"refs">>, i.path) \/ \E f \in GitFiles : i.path = git \o f

(* payload_patterns *)
PayloadFiles ==
    IF order.mode = "full" THEN {i \in listing : IsLarge(roots, i.path)}
    ELSE {i \in listing : \E r \in roots : \E o \in samples[r] :
             i = o.item \/ (o.repo /\ Beside(o.item, i))}

(* cmd_restore_core (its steps 1 to 5, between which YunoHost unpacks the    *)
(* tar and puts the files and databases in place), then cmd_extract_payload. *)
AfterStep(n, u) ==
    LET core == Size(CoreFiles)
        payload == Size(PayloadFiles)
    IN CASE n = 1 -> [u EXCEPT !.work = core]
         [] n = 2 -> [u EXCEPT !.tar = core]
         [] n = 3 -> [u EXCEPT !.work = 0]
         [] n = 4 -> [u EXCEPT !.tmp = core]
         [] n = 5 -> [u EXCEPT !.core = core + Size(Dumps(listing, roots))]
         [] n = 6 -> [u EXCEPT !.tmp = 0]
         [] n = 7 -> [u EXCEPT !.tar = 0]
         [] n = 8 -> [u EXCEPT !.staged = payload]
         [] n = 9 -> [u EXCEPT !.placed = payload]
         [] OTHER -> [u EXCEPT !.staged = 0]

LastStep == IF roots = {} THEN 7 ELSE 10

RestoreStep ==
    /\ stage = "restoring" /\ step < LastStep
    /\ step' = step + 1 /\ used' = AfterStep(step', used)
    /\ UNCHANGED <<clientVars, selectionVars, stage, order, checkVars, need, server>>

(* A step that raises leaves what is there; a core that was not restored     *)
(* gets no samples.                                                          *)
Breaks ==
    /\ stage = "restoring" /\ stage' = "ended"
    /\ UNCHANGED <<clientVars, selectionVars, order, checkVars, serverVars>>

Restored ==
    /\ stage = "restoring" /\ step = LastStep /\ stage' = "ended"
    /\ UNCHANGED <<clientVars, selectionVars, order, checkVars, serverVars>>

Next ==
    \/ BorgStep
    \/ ReadLayout \/ ListArchive \/ SkipListing \/ GiveUp \/ Select \/ Inspected
    \/ StartChecks \/ Check \/ Checked \/ StartDryRun \/ EndDryRun
    \/ Provision \/ RestoreStep \/ Breaks \/ Restored

Spec == Init /\ [][Next]_vars

(* Borg goes on as long as it can write, and its reader as long as it finds  *)
(* something to read.                                                        *)
FairSpec == Spec /\ WF_vars(BorgStep)

-----------------------------------------------------------------------------
(* Correctness.                                                            *)

OnHome == used.work + used.tar + used.tmp + used.staged + used.placed

(* Every variable keeps its type; a command is not repeated for ever.        *)
TypeOK ==
    /\ SelectionType
    /\ client \in {"idle", "waiting", "sleeping", "reading"} /\ result \in {"none", "ok", "failed"}
    /\ attempt \in 0 .. Retries + 1
    /\ out \subseteq comp.files /\ Cardinality(out) <= OutCapacity
    /\ err \in 0 .. ErrCapacity
    /\ stage \in {"start", "layout", "listing", "inspected", "checks", "checking", "dryrun",
                  "checked", "restoring", "ended"}
    /\ need \in Nat
    /\ step \in 0 .. 10 /\ used \in [DOMAIN Empty -> Nat]

(* What is read as the listing is the whole archive: a listing that broke    *)
(* off stays a .part file (client.py:233-246).                               *)
ListingWhole == listing \in {{}, comp.files}

(* Whatever is restored was listed before, so that its large data is known:  *)
(* the rules of the inspection and of the plan agree (orchestrator.py:       *)
(* 214-217, planner.py:85-116).                                              *)
PlannedIsListed == stage = "restoring" => listing = comp.files

(* "pass" is said when every check that was asked for passed, however often  *)
(* it was repeated, and a sampled dry run read what it claims (orchestrator. *)
(* py:338-421).                                                              *)
ChecksTrue ==
    /\ says.borg = "pass" => verified = {Wanted[k] : k \in DOMAIN Wanted}
    /\ order.deep_check = "sampled_dry_run" /\ says.deep = "pass" /\ stage = "checked" =>
         /\ dryRun.claims = Cardinality(DryRunReads)
         /\ dryRun.claims = 0 => \A i \in listing : IsLarge(roots, i.path) => i.size = 0

(* What the estimate leaves out of the repositories, and a restore writes    *)
(* twice: the headroom is to be larger.                                      *)
Metadata(F) == {i \in F : \E head \in F : Last(head.path) = "HEAD" /\ Beside(head, i)}
MetadataFits == \A c \in Components : 2 * Size(Metadata(c.files)) <= Headroom

(* Without a volume the disk of the server holds what is extracted. A        *)
(* preferred size is bought unseen where volumes are forbidden.              *)
DiskHolds ==
    LET unseen == order.restore_volume = "never" /\ order.preferred # "auto"
    IN server.volume = 0 /\ ~unseen => BaseDisk + used.core + OnHome <= server.disk

(* A volume holds what is in /home and /var/mail.                            *)
VolumeHolds == server.volume > 0 => OnHome <= server.volume

(* In sampled mode no step of the restore fills the disk of a server without *)
(* a volume, nor a volume: what the estimate asks for is what all copies     *)
(* need together. Of the server's own disk beside a volume it says nothing,  *)
(* see BootDiskNeverFull (planner.py:46-62, orchestrator.py:453-473,         *)
(* host_helper.py:462-686, 1073-1103).                                       *)
DiskNeverFull ==
    stage = "restoring" /\ order.mode = "sampled" => DiskHolds /\ VolumeHolds

(* The disk of a server that was picked for the restore has room for what    *)
(* YunoHost puts there beside a volume: itself, the code and the databases   *)
(* of applications (config_panel.toml:140). It need not: the size is chosen  *)
(* without regard to its disk (orchestrator.py:460-473).                     *)
BootDiskNeverFull ==
    stage = "restoring" /\ server.volume > 0 /\ order.preferred = "auto" =>
        BaseDisk + used.core <= server.disk

(* Borg waits for somebody to read its stderr, of which the reader of its    *)
(* stdout thinks only when that has ended (client.py:211-231).               *)
Stalled == borg = "running" /\ err = ErrCapacity /\ unsaid > 0

(* A command that is retried ends (client.py:119-171), and so does a         *)
(* listing, unless it stalls at a full stderr: Borg and its reader do not    *)
(* wait for each other in any other way.                                     *)
CommandsEnd == client # "idle" ~> client = "idle" \/ Stalled

(* A full dry run that passed has read all large data (orchestrator.py:419). *)
FullDryRunReadsAll ==
    stage = "checked" /\ order.deep_check = "full_dry_run" /\ says.deep = "pass" =>
        \A i \in listing : IsLarge(roots, i.path) => i \in DryRunReads
=============================================================================
