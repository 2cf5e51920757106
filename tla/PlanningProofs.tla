---------------------------- MODULE PlanningProofs ----------------------------
(* Theorems about Planning, for all components, settings, exit codes of Borg  *)
(* and capacities of its pipes: what is read as a listing is the whole        *)
(* archive, whatever is restored was listed, commands are repeated a bounded  *)
(* number of times, what is said of the checks is what they showed, every     *)
(* file is counted once, what is kept of the large data is accounted for, the *)
(* samples are the newest and the oldest entries in their order, their copies *)
(* find room on the disk of a server without a volume, or on the volume, and  *)
(* every variable has its type.                                               *)
EXTENDS Planning, SelectionProofs

-----------------------------------------------------------------------------
(* The client.                                                             *)

(* While a listing is read, Borg has written what is neither to come nor in  *)
(* the pipe, and has written everything if it ended well.                    *)
Reads ==
    client = "reading" =>
        /\ part \cup out \cup unsent = comp.files
        /\ borg = "ended" /\ B!Fine(code) => unsent = {}
        /\ result = "none"

(* Outside of a listing there is no Borg that writes to a pipe.              *)
Alone == client # "reading" => borg = "none"

Counted ==
    /\ client \in {"idle", "waiting", "sleeping", "reading"} /\ attempt \in Nat
    /\ client \in {"idle", "reading"} => attempt = 0
    /\ client = "waiting" => attempt <= Retries + 1
    /\ client = "sleeping" => attempt <= Retries

ClientInv == Reads /\ Alone /\ Counted /\ ListingWhole

LEMMA ClientKept ==
    ASSUME ClientInv, UNCHANGED <<clientVars, comp>>
    PROVE  ClientInv'
BY DEF ClientInv, Reads, Alone, Counted, ListingWhole, clientVars, B!Fine, B!Category

(* Borg and the reader of its listing.                                       *)
LEMMA ClientGoesOn ==
    ASSUME ClientInv, B!ClientStep, comp' = comp
    PROVE  ClientInv'
<1> USE DEF ClientInv, Reads, Alone, Counted, ListingWhole
<1>1. Retries \in Nat
  BY PlanningAssumption
<1>2. ASSUME NEW rc \in ExitCodes, B!Returns(rc) PROVE ClientInv'
  BY <1>1, <1>2 DEF B!Returns, B!listVars, B!Fine, B!Category
<1>3. ASSUME NEW rc \in ExitCodes, B!BorgEnds(rc) PROVE ClientInv'
  <2>1. /\ borg = "running" /\ borg' = "ended" /\ code' = rc
        /\ UNCHANGED <<client, attempt, result, unsent, out, part, listing>>
        /\ B!Fine(rc) => unsent = {}
    BY <1>3 DEF B!BorgEnds
  <2>2. QED
    BY <2>1
<1>4. CASE B!Again
  BY <1>1, <1>4 DEF B!Again, B!listVars
<1>5. CASE B!BorgComplains
  BY <1>5 DEF B!BorgComplains
<1>6. CASE B!EndOfListing
  BY <1>6 DEF B!EndOfListing
<1>7. CASE B!WriteFails
  BY <1>7 DEF B!WriteFails
<1>8. ASSUME NEW i \in unsent, B!BorgWrites(i) PROVE ClientInv'
  BY <1>8 DEF B!BorgWrites
<1>9. ASSUME NEW i \in out, B!ReadsLine(i) PROVE ClientInv'
  BY <1>9 DEF B!ReadsLine
<1>10. QED
  BY <1>2, <1>3, <1>4, <1>5, <1>6, <1>7, <1>8, <1>9 DEF B!ClientStep

-----------------------------------------------------------------------------
(* The run.                                                                *)

Early == {"start", "layout"}
Later == {"inspected", "checks", "checking", "dryrun", "checked", "restoring"}

(* A listing is read in its stage only, where nothing else is done; behind   *)
(* it the archive of a component in scope was listed. A component that is    *)
(* restored is planned.                                                      *)
StageInv ==
    /\ stage \in Early \cup {"listing", "ended"} \cup Later
    /\ client = "reading" => stage = "listing"
    /\ stage = "listing" => client \in {"reading", "idle"} /\ InScope(comp)
    /\ stage = "listing" /\ client = "idle" /\ result = "ok" => listing = comp.files
    /\ stage \in Later /\ InScope(comp) => listing = comp.files
    /\ stage = "restoring" => Planned(comp)

RunInv == comp \in Components /\ ClientInv /\ StageInv

(* Whatever is planned is in scope.                                          *)
LEMMA PlannedInScope == Planned(comp) => InScope(comp)
BY DEF Planned, InScope

LEMMA RunInit == Init => RunInv
<1> SUFFICES ASSUME Init PROVE RunInv
  OBVIOUS
<1>1. /\ comp \in Components /\ client = "idle" /\ attempt = 0 /\ borg = "none"
      /\ listing = {} /\ stage = "start"
  BY DEF Init, SelectionInit, B!ClientInit
<1>2. ClientInv
  BY <1>1, PlanningAssumption DEF ClientInv, Reads, Alone, Counted, ListingWhole
<1>3. StageInv
  BY <1>1 DEF StageInv, Early, Later
<1>4. QED
  BY <1>1, <1>2, <1>3 DEF RunInv

(* The selection reads the listing of one component.                         *)
LEMMA SelectionFrame == SelectionStep => comp' = comp
BY DEF SelectionStep, Discover, Merge, Sample, Keep

LEMMA BorgStepKeeps ==
    ASSUME RunInv, BorgStep
    PROVE  RunInv'
<1>1. B!ClientStep /\ UNCHANGED <<comp, stage, order>>
  BY DEF BorgStep, selectionVars, planVars
<1>2. ClientInv'
  BY <1>1, ClientGoesOn DEF RunInv
<1>3. /\ client # "reading" => client' # "reading" /\ listing' = listing
      /\ client = "idle" => client' = "idle" /\ result' = result
      /\ client = "reading" => client' \in {"reading", "idle"}
      /\ client = "reading" /\ client' = "idle" /\ result' = "ok" => listing' = comp.files
  BY <1>1 DEF B!ClientStep, B!Returns, B!BorgEnds, B!Again, B!BorgComplains, B!EndOfListing,
              B!WriteFails, B!BorgWrites, B!ReadsLine, B!listVars, RunInv, ClientInv, Alone, Reads
<1>4. StageInv'
  BY <1>1, <1>3 DEF RunInv, StageInv, Early, Later, InScope, Planned, Named, Banned, All
<1>5. QED
  BY <1>1, <1>2, <1>4 DEF RunInv

(* A command is sent from a stage that is not the listing.                   *)
LEMMA CallKeeps ==
    ASSUME RunInv, B!Call, UNCHANGED <<comp, order>>, stage' \in Early \cup Later,
           stage \in Early => stage' \in Early, stage' # "restoring",
           stage \notin {"listing", "ended"}
    PROVE  RunInv'
<1>1. /\ client = "idle" /\ client' = "waiting" /\ attempt' = 1 /\ result' = "none"
      /\ UNCHANGED <<borg, code, unsent, out, unsaid, err, part, listing>>
  BY DEF B!Call, B!listVars
<1>2. ClientInv'
  BY <1>1, PlanningAssumption DEF RunInv, ClientInv, Reads, Alone, Counted, ListingWhole
<1>3. StageInv'
  <2>1. InScope(comp)' <=> InScope(comp)
    BY DEF InScope, Named, Banned, All
  <2>2. stage \in Early \cup Later
    BY DEF RunInv, StageInv
  <2>3. stage' \in Later => stage \in Later
    BY <2>2 DEF Early, Later
  <2>4. stage' \in Later /\ InScope(comp)' => listing' = comp'.files
    <3>1. stage \in Later /\ InScope(comp) => listing = comp.files
      BY DEF RunInv, StageInv
    <3>2. QED
      BY <1>1, <2>1, <2>3, <3>1
  <2>5. stage' \notin {"listing", "restoring"} /\ client' # "reading"
    BY <1>1 DEF Early, Later
  <2>6. QED
    BY <2>4, <2>5 DEF StageInv
<1>4. QED
  BY <1>2, <1>3 DEF RunInv

(* The steps between the commands.                                           *)
LEMMA StageKeeps ==
    ASSUME RunInv, UNCHANGED <<clientVars, comp, order>>, stage' \in Later \cup {"ended"},
           stage = "ended" => stage' = "ended",
           stage \in Early => stage' = "ended" \/ ~InScope(comp),
           stage = "listing" => client = "idle" /\ (stage' # "ended" => result = "ok"),
           stage' = "restoring" => stage = "restoring" \/ Planned(comp)
    PROVE  RunInv'
<1>1. ClientInv'
  BY ClientKept DEF RunInv
<1>2. client' = client /\ result' = result /\ listing' = listing
  BY DEF clientVars
<1>3. (InScope(comp)' <=> InScope(comp)) /\ (Planned(comp)' <=> Planned(comp))
  BY DEF InScope, Planned, Named, Banned, All
<1>4. client' # "reading"
  BY <1>2 DEF RunInv, StageInv
<1>5. stage' \in Later /\ InScope(comp) => listing = comp.files
  BY DEF RunInv, StageInv, Early, Later
<1>6. stage' = "restoring" => Planned(comp)
  BY DEF RunInv, StageInv
<1>7. StageInv'
  BY <1>2, <1>3, <1>4, <1>5, <1>6 DEF StageInv, Early, Later
<1>8. QED
  BY <1>1, <1>7 DEF RunInv

LEMMA RunNext == RunInv /\ [Next]_vars => RunInv'
<1> SUFFICES ASSUME RunInv, [Next]_vars PROVE RunInv'
  OBVIOUS
<1> USE DEF Early, Later
<1>1. CASE BorgStep
  BY <1>1, BorgStepKeeps
<1>2. CASE ReadLayout
  <2>1. stage = "start" /\ stage' = "layout" /\ B!Call /\ UNCHANGED <<comp, order>>
    BY <1>2 DEF ReadLayout, selectionVars
  <2>2. QED
    BY <2>1, CallKeeps
<1>3. CASE ListArchive
  <2>1. /\ stage = "layout" /\ stage' = "listing" /\ InScope(comp) /\ UNCHANGED <<comp, order>>
        /\ client = "idle" /\ client' = "reading" /\ result' = "none"
        /\ borg' = "running" /\ unsent' = comp.files /\ out' = {} /\ part' = {}
        /\ UNCHANGED <<attempt, listing>>
    BY <1>3 DEF ListArchive, B!List, selectionVars
  <2>2. ClientInv'
    BY <2>1 DEF RunInv, ClientInv, Reads, Alone, Counted, ListingWhole
  <2>3. StageInv'
    BY <2>1 DEF StageInv, InScope, Named, Banned, All
  <2>4. QED
    BY <2>1, <2>2, <2>3 DEF RunInv
<1>4. CASE SkipListing
  <2>1. /\ stage = "layout" /\ stage' = "inspected" /\ ~InScope(comp)
        /\ UNCHANGED <<clientVars, comp, order>>
    BY <1>4 DEF SkipListing
  <2>2. QED
    BY <2>1, StageKeeps
<1>5. CASE GiveUp
  <2>1. /\ client = "idle" /\ stage' = "ended" /\ UNCHANGED <<clientVars, comp, order>>
    BY <1>5 DEF GiveUp, selectionVars
  <2>2. QED
    BY <2>1, StageKeeps
<1>6. CASE Select
  <2>1. UNCHANGED <<clientVars, comp, stage, order>> /\ stage = "listing"
        /\ client = "idle" /\ result = "ok"
    BY <1>6, SelectionFrame DEF Select, planVars
  <2>2. ClientInv'
    BY <2>1, ClientKept DEF RunInv
  <2>3. StageInv'
    BY <2>1 DEF RunInv, StageInv, clientVars, InScope, Named, Banned, All
  <2>4. QED
    BY <2>1, <2>2, <2>3 DEF RunInv
<1>7. CASE Inspected
  <2>1. /\ stage = "listing" /\ stage' = "inspected" /\ client = "idle" /\ result = "ok"
        /\ UNCHANGED <<clientVars, comp, order>>
    BY <1>7 DEF Inspected, selectionVars
  <2>2. QED
    BY <2>1, StageKeeps
<1>8. CASE StartChecks \/ Checked \/ EndDryRun
  <2>1. /\ stage \in {"inspected", "checking", "dryrun"} /\ stage' \in {"checks", "checked"}
        /\ UNCHANGED <<clientVars, comp, order>>
    BY <1>8 DEF StartChecks, Checked, EndDryRun, selectionVars
  <2>2. QED
    BY <2>1, StageKeeps
<1>9. CASE Check
  <2>1. stage = "checks" /\ stage' = "checking" /\ B!Call /\ UNCHANGED <<comp, order>>
    BY <1>9 DEF Check, selectionVars
  <2>2. QED
    BY <2>1, CallKeeps
<1>10. CASE StartDryRun
  <2>1. /\ stage = "checks" /\ UNCHANGED <<comp, order>>
        /\ \/ stage' = "checked" /\ UNCHANGED clientVars
           \/ stage' = "dryrun" /\ B!Call
    BY <1>10 DEF StartDryRun, selectionVars
  <2>2. QED
    BY <2>1, CallKeeps, StageKeeps
<1>11. CASE Provision
  <2>1. /\ stage = "checked" /\ UNCHANGED <<clientVars, comp, order>>
        /\ stage' = "ended" \/ (stage' = "restoring" /\ Planned(comp))
    BY <1>11 DEF Provision, selectionVars
  <2>2. QED
    BY <2>1, StageKeeps
<1>12. CASE RestoreStep \/ Breaks \/ Restored
  <2>1. /\ stage = "restoring" /\ stage' \in {"restoring", "ended"}
        /\ UNCHANGED <<clientVars, comp, order>>
    BY <1>12 DEF RestoreStep, Breaks, Restored, selectionVars
  <2>2. QED
    BY <2>1, StageKeeps
<1>13. CASE UNCHANGED vars
  <2>1. UNCHANGED <<clientVars, comp, stage, order>>
    BY <1>13 DEF vars, selectionVars, planVars
  <2>2. ClientInv'
    BY <2>1, ClientKept DEF RunInv
  <2>3. StageInv'
    BY <2>1 DEF RunInv, StageInv, clientVars, InScope, Planned, Named, Banned, All
  <2>4. QED
    BY <2>1, <2>2, <2>3 DEF RunInv
<1>14. QED
  BY <1>1, <1>2, <1>3, <1>4, <1>5, <1>6, <1>7, <1>8, <1>9, <1>10, <1>11, <1>12, <1>13
     DEF Next

(* The invariant of a run: the client, the listing and the stage agree.      *)
THEOREM RunInvariant == Spec => []RunInv
BY RunInit, RunNext, PTL DEF Spec

(* What is read as the listing is the whole archive: a listing that broke    *)
(* off stays a .part file (client.py:233-246).                               *)
THEOREM ListingsWhole == Spec => []ListingWhole
<1>1. RunInv => ListingWhole
  BY DEF RunInv, ClientInv
<1>2. QED
  BY <1>1, RunInvariant, PTL

(* Whatever is restored was listed before, so that its large data is known:  *)
(* the rules of the inspection and of the plan agree (orchestrator.py:       *)
(* 214-217, planner.py:85-116).                                              *)
THEOREM RestoredWasListed == Spec => []PlannedIsListed
<1>1. RunInv => PlannedIsListed
  BY PlannedInScope DEF RunInv, StageInv, PlannedIsListed, Later
<1>2. QED
  BY <1>1, RunInvariant, PTL

(* No command is sent more often than once and its retries (client.py:       *)
(* 119-171).                                                                 *)
THEOREM CommandsBounded == Spec => [](attempt \in 0 .. Retries + 1)
<1>1. RunInv => attempt \in 0 .. Retries + 1
  BY PlanningAssumption DEF RunInv, ClientInv, Counted
<1>2. QED
  BY <1>1, RunInvariant, PTL

-----------------------------------------------------------------------------
(* The checks that Borg makes, and what is said of them.                   *)

Wished == {Wanted[k] : k \in DOMAIN Wanted}
Queued == {asked[k] : k \in DOMAIN asked}
CheckLists == {<<>>, <<"archive">>, <<"repository">>, <<"archive", "repository">>}

(* Every check that was wished for passed, failed or is still to come, and   *)
(* nothing is said before the last of them.                                  *)
ChecksInv ==
    /\ asked \in CheckLists
    /\ says \in [borg : {"none", "skipped", "pass", "fail"}, deep : {"none", "skipped", "pass", "fail"}]
    /\ stage \in {"start", "layout", "listing", "inspected"} => verified = {} /\ failures = {}
    /\ stage \in {"checks", "checking"} => Wished = verified \cup failures \cup Queued
    /\ stage = "checking" => asked # <<>>
    /\ stage \in {"start", "layout", "listing", "inspected", "checks", "checking"} =>
          says = [borg |-> "none", deep |-> "none"]
    /\ says.borg = "pass" => verified = Wished

(* Taking the first of a list of checks.                                     *)
LEMMA CheckListTail ==
    ASSUME NEW s \in CheckLists, s # <<>>
    PROVE  /\ Tail(s) \in CheckLists
           /\ {s[k] : k \in DOMAIN s} = {Head(s)} \cup {Tail(s)[k] : k \in DOMAIN Tail(s)}
<1>1. ASSUME NEW x, s = <<x>>
      PROVE  Tail(s) = <<>> /\ DOMAIN s = {1} /\ Head(s) = x /\ s[1] = x
  <2>1. <<x>> \in Seq({x}) /\ <<x>> # <<>> /\ Len(<<x>>) = 1
    OBVIOUS
  <2>2. Tail(<<x>>) \in Seq({x}) /\ Len(Tail(<<x>>)) = Len(<<x>>) - 1
    BY <2>1, HeadTailProperties
  <2>3. Len(Tail(<<x>>)) = 0
    BY <2>1, <2>2, SMT
  <2>4. Tail(<<x>>) = <<>>
    BY <2>2, <2>3, EmptySeq
  <2>5. DOMAIN <<x>> = {1} /\ Head(<<x>>) = x /\ <<x>>[1] = x
    OBVIOUS
  <2>6. QED
    BY <1>1, <2>4, <2>5
<1>2. CASE s = <<"archive", "repository">>
  <2>1. Tail(s) = <<"repository">> /\ DOMAIN s = {1, 2} /\ Head(s) = "archive"
    BY <1>2
  <2>2. DOMAIN <<"repository">> = {1} /\ s[1] = "archive" /\ s[2] = "repository"
    BY <1>2
  <2>3. QED
    BY <2>1, <2>2 DEF CheckLists
<1>3. ASSUME NEW x \in {"archive", "repository"}, s = <<x>>
      PROVE  /\ Tail(s) \in CheckLists
             /\ {s[k] : k \in DOMAIN s} = {Head(s)} \cup {Tail(s)[k] : k \in DOMAIN Tail(s)}
  BY <1>1, <1>3 DEF CheckLists
<1>4. QED
  BY <1>2, <1>3 DEF CheckLists

(* The checks that are wished for depend on the settings alone.              *)
LEMMA WishedKept ==
    ASSUME order' = order
    PROVE  Wished' = Wished
BY DEF Wished, Wanted

LEMMA ChecksInit == Init => ChecksInv
BY DEF Init, ChecksInv, CheckLists

LEMMA ChecksNext == RunInv /\ ChecksInv /\ [Next]_vars => ChecksInv'
<1> SUFFICES ASSUME RunInv, ChecksInv, [Next]_vars PROVE ChecksInv'
  OBVIOUS
<1>1. order' = order
  BY DEF Next, vars, planVars, BorgStep, ReadLayout, ListArchive, SkipListing, GiveUp, Select,
         Inspected, StartChecks, Check, Checked, StartDryRun, EndDryRun, Provision,
         RestoreStep, Breaks, Restored
<1>2. Wished' = Wished
  BY <1>1, WishedKept
<1>3. CASE UNCHANGED <<stage, checkVars>>
  BY <1>2, <1>3 DEF checkVars, ChecksInv, Queued
<1>4. CASE ReadLayout \/ ListArchive \/ SkipListing \/ GiveUp \/ Inspected
  <2>1. /\ stage \in {"start", "layout", "listing"} /\ UNCHANGED checkVars
        /\ stage' \in {"layout", "listing", "inspected", "ended"}
    BY <1>4 DEF ReadLayout, ListArchive, SkipListing, GiveUp, Inspected
  <2>2. QED
    BY <1>2, <2>1 DEF checkVars, ChecksInv
<1>5. CASE StartChecks
  <2>1. /\ stage = "inspected" /\ stage' = "checks" /\ asked' = Wanted
        /\ UNCHANGED <<failures, verified, says>>
    BY <1>5 DEF StartChecks
  <2>2. Wanted \in CheckLists /\ Queued' = Wished
    BY <2>1 DEF Wanted, CheckLists, Queued, Wished
  <2>3. QED
    BY <1>2, <2>1, <2>2 DEF ChecksInv
<1>6. CASE Check
  BY <1>2, <1>6 DEF Check, checkVars, ChecksInv, Queued
<1>7. CASE Checked
  <2>1. /\ stage = "checking" /\ stage' = "checks" /\ asked' = Tail(asked) /\ says' = says
        /\ verified' \cup failures' = verified \cup failures \cup {Head(asked)}
    BY <1>7 DEF Checked
  <2>2. asked \in CheckLists /\ asked # <<>> /\ Wished = verified \cup failures \cup Queued
        /\ says = [borg |-> "none", deep |-> "none"]
    BY <2>1 DEF ChecksInv
  <2>3. Tail(asked) \in CheckLists /\ Queued = {Head(asked)} \cup Queued'
    BY <2>1, <2>2, CheckListTail DEF Queued
  <2>4. QED
    BY <1>2, <2>1, <2>2, <2>3 DEF ChecksInv
<1>8. CASE StartDryRun
  <2>1. /\ stage = "checks" /\ asked = <<>> /\ stage' \in {"checked", "dryrun"}
        /\ UNCHANGED <<asked, failures, verified>>
        /\ says'.borg = "pass" => failures = {}
        /\ says' \in [borg : {"none", "skipped", "pass", "fail"},
                      deep : {"none", "skipped", "pass", "fail"}]
    BY <1>8 DEF StartDryRun
  <2>2. Wished = verified \cup failures
    BY <2>1 DEF ChecksInv, Queued
  <2>3. QED
    BY <1>2, <2>1, <2>2 DEF ChecksInv
<1>9. CASE EndDryRun
  <2>1. /\ stage = "dryrun" /\ stage' = "checked" /\ UNCHANGED <<asked, failures, verified>>
        /\ says' = says \/ says' = [says EXCEPT !.deep = "fail"]
    BY <1>9 DEF EndDryRun
  <2>2. says' \in [borg : {"none", "skipped", "pass", "fail"},
                   deep : {"none", "skipped", "pass", "fail"}] /\ says'.borg = says.borg
    BY <2>1 DEF ChecksInv
  <2>3. QED
    BY <1>2, <2>1, <2>2 DEF ChecksInv
<1>10. CASE Provision \/ RestoreStep \/ Breaks \/ Restored
  <2>1. /\ stage \in {"checked", "restoring"} /\ stage' \in {"restoring", "ended"}
        /\ UNCHANGED checkVars
    BY <1>10 DEF Provision, RestoreStep, Breaks, Restored
  <2>2. QED
    BY <1>2, <2>1 DEF checkVars, ChecksInv
<1>11. CASE BorgStep \/ Select \/ UNCHANGED vars
  BY <1>3, <1>11 DEF BorgStep, Select, vars, planVars
<1>12. QED
  BY <1>4, <1>5, <1>6, <1>7, <1>8, <1>9, <1>10, <1>11 DEF Next

(* The large files that are not empty, by their paths.                       *)
LargePaths == {i.path : i \in {j \in listing : IsLarge(roots, j.path) /\ j.size > 0}}

(* A sampled dry run reads large files, and claims those it was to read; it  *)
(* reads nothing only if there is nothing.                                   *)
DryRunInv ==
    /\ dryRun = [paths |-> dryRun.paths, claims |-> dryRun.claims]
    /\ order.deep_check = "sampled_dry_run" =>
         /\ stage = "dryrun" =>
              dryRun.paths \subseteq LargePaths /\ dryRun.paths # {} /\ dryRun.claims = 0
         /\ stage = "checked" /\ says.deep = "pass" =>
              /\ dryRun.paths \subseteq LargePaths
              /\ dryRun.paths = {} => LargePaths = {}
              /\ dryRun.claims = Cardinality(dryRun.paths)

(* A listing is a finite set of files with paths of their own.               *)
LEMMA ListingFinite ==
    ASSUME RunInv
    PROVE  /\ comp \in Components /\ listing \subseteq comp.files
           /\ IsFiniteSet(listing) /\ IsFiniteSet(comp.files)
           /\ \A i \in comp.files : i.path \in Seq(STRING) /\ i.size \in Nat
           /\ \A i, j \in comp.files : i.path = j.path => i = j
<1>1. comp \in Components /\ listing \in {{}, comp.files}
  BY DEF RunInv, ClientInv, ListingWhole
<1>2. /\ IsFiniteSet(comp.files)
      /\ \A i \in comp.files : i.path \in Seq(STRING) /\ i.size \in Nat
      /\ \A i, j \in comp.files : i.path = j.path => i = j
  BY <1>1, SelectionAssumption
<1>3. QED
  BY <1>1, <1>2, FS_EmptySet

(* Outside of its stage the listing stays as it is, and so do the roots.     *)
LEMMA LargeKept ==
    ASSUME RunInv, [Next]_vars, stage # "listing", stage # "layout", stage # "start"
    PROVE  listing' = listing /\ roots' = roots /\ comp' = comp /\ order' = order
<1>1. client # "reading"
  BY DEF RunInv, StageInv
<1>2. CASE BorgStep
  <2>1. B!ClientStep /\ UNCHANGED <<roots, comp, order>>
    BY <1>2 DEF BorgStep, selectionVars, planVars
  <2>2. borg = "none"
    BY <1>1 DEF RunInv, ClientInv, Alone
  <2>3. listing' = listing
    BY <1>1, <2>1, <2>2 DEF B!ClientStep, B!Returns, B!BorgEnds, B!Again, B!BorgComplains,
          B!EndOfListing, B!WriteFails, B!BorgWrites, B!ReadsLine, B!listVars
  <2>4. QED
    BY <2>1, <2>3
<1>3. CASE ReadLayout \/ ListArchive \/ SkipListing \/ Select \/ Inspected
  BY <1>3 DEF ReadLayout, ListArchive, SkipListing, Select, Inspected
<1>4. CASE Check \/ StartDryRun
  BY <1>4 DEF Check, StartDryRun, B!Call, B!listVars, selectionVars, clientVars
<1>5. CASE \/ GiveUp \/ StartChecks \/ Checked \/ EndDryRun \/ Provision
           \/ RestoreStep \/ Breaks \/ Restored
  BY <1>5 DEF GiveUp, StartChecks, Checked, EndDryRun, Provision, RestoreStep, Breaks,
              Restored, selectionVars, clientVars
<1>6. CASE UNCHANGED vars
  BY <1>6 DEF vars, clientVars, selectionVars, planVars
<1>7. QED
  BY <1>2, <1>3, <1>4, <1>5, <1>6 DEF Next

(* Of a sample nothing is taken only if there is nothing.                    *)
LEMMA LotOfNothing ==
    ASSUME NEW C, IsFiniteSet(C), Cardinality({}) = Min({DryRunLimit, Cardinality(C)})
    PROVE  C = {}
<1>1. DryRunLimit \in Nat /\ DryRunLimit > 0
  BY PlanningAssumption
<1>2. Cardinality(C) \in Nat /\ Cardinality({}) = 0
  BY FS_CardinalityType, FS_EmptySet
<1>3. Cardinality(C) = 0
  <2>1. \E x \in {DryRunLimit, Cardinality(C)} : \A y \in {DryRunLimit, Cardinality(C)} : x <= y
    BY <1>1, <1>2
  <2>2. /\ Min({DryRunLimit, Cardinality(C)}) \in {DryRunLimit, Cardinality(C)}
        /\ Min({DryRunLimit, Cardinality(C)}) <= DryRunLimit
        /\ Min({DryRunLimit, Cardinality(C)}) <= Cardinality(C)
    BY <2>1 DEF Min
  <2>3. QED
    BY <1>1, <1>2, <2>2
<1>4. QED
  BY <1>3, FS_EmptySet

LEMMA DryRunInit == Init => DryRunInv
BY DEF Init, DryRunInv

LEMMA DryRunNext == RunInv /\ ChecksInv /\ DryRunInv /\ [Next]_vars => DryRunInv'
<1> SUFFICES ASSUME RunInv, ChecksInv, DryRunInv, [Next]_vars PROVE DryRunInv'
  OBVIOUS
<1>1. CASE StartDryRun
  <2>1. PICK P \in DryRunPaths :
          /\ dryRun' = [paths |-> P, claims |-> 0]
          /\ IF P = {} THEN stage' = "checked" ELSE stage' = "dryrun"
    BY <1>1 DEF StartDryRun
  <2>2. stage = "checks" /\ LargePaths' = LargePaths /\ order' = order
    <3>1. stage = "checks"
      BY <1>1 DEF StartDryRun
    <3>2. QED
      BY <3>1, LargeKept DEF LargePaths, IsLarge
  <2>3. order.deep_check = "sampled_dry_run" =>
          /\ P \subseteq LargePaths
          /\ Cardinality(P) = Min({DryRunLimit, Cardinality(LargePaths)})
    BY DEF DryRunPaths, LargePaths
  <2>4. IsFiniteSet(LargePaths)
    <3>1. IsFiniteSet({j \in listing : IsLarge(roots, j.path) /\ j.size > 0})
      BY ListingFinite, FS_Subset
    <3> DEFINE L == {j \in listing : IsLarge(roots, j.path) /\ j.size > 0}
               f == [j \in L |-> j.path]
    <3>2. f \in Surjection(L, LargePaths)
      BY DEF Surjection, LargePaths
    <3> HIDE DEF f, L
    <3>3. QED
      BY <3>1, <3>2, FS_Surjection DEF L
  <2>5. order.deep_check = "sampled_dry_run" /\ P = {} => LargePaths = {} /\ Cardinality(P) = 0
    BY <2>3, <2>4, LotOfNothing, FS_EmptySet
  <2>6. QED
    BY <2>1, <2>2, <2>3, <2>5 DEF DryRunInv
<1>2. CASE EndDryRun
  <2>1. /\ stage = "dryrun" /\ stage' = "checked"
        /\ \/ dryRun' = [dryRun EXCEPT !.claims = Cardinality(dryRun.paths)]
           \/ says' = [says EXCEPT !.deep = "fail"] /\ dryRun' = dryRun
    BY <1>2 DEF EndDryRun
  <2>2. LargePaths' = LargePaths /\ order' = order
    BY <2>1, LargeKept DEF LargePaths, IsLarge
  <2>3. CASE dryRun' = [dryRun EXCEPT !.claims = Cardinality(dryRun.paths)]
    <3>1. dryRun' = [paths |-> dryRun.paths, claims |-> Cardinality(dryRun.paths)]
      BY <2>3 DEF DryRunInv
    <3>2. QED
      BY <2>1, <2>2, <3>1 DEF DryRunInv
  <2>4. CASE says' = [says EXCEPT !.deep = "fail"] /\ dryRun' = dryRun
    <3>1. says'.deep = "fail"
      BY <2>4 DEF ChecksInv
    <3>2. QED
      BY <2>1, <2>4, <3>1 DEF DryRunInv
  <2>5. QED
    BY <2>1, <2>3, <2>4
<1>3. CASE UNCHANGED <<stage, dryRun, says>>
  <2>1. CASE stage \in {"dryrun", "checked"}
    <3>1. LargePaths' = LargePaths /\ order' = order
      BY <2>1, LargeKept DEF LargePaths, IsLarge
    <3>2. QED
      BY <1>3, <3>1 DEF DryRunInv
  <2>2. CASE stage \notin {"dryrun", "checked"}
    BY <1>3, <2>2 DEF DryRunInv
  <2>3. QED
    BY <2>1, <2>2
<1>4. CASE stage' \notin {"dryrun", "checked"} /\ dryRun' = dryRun
  BY <1>4 DEF DryRunInv
<1>5. CASE \/ ReadLayout \/ ListArchive \/ SkipListing \/ GiveUp \/ Inspected
           \/ StartChecks \/ Check \/ Checked \/ Breaks \/ Restored
  <2>1. stage' \notin {"dryrun", "checked"} /\ dryRun' = dryRun
    BY <1>5 DEF ReadLayout, ListArchive, SkipListing, GiveUp, Inspected, StartChecks, Check,
                Checked, Breaks, Restored, checkVars
  <2>2. QED
    BY <1>4, <2>1
<1>6. CASE Provision \/ RestoreStep
  <2>1. stage' \notin {"dryrun", "checked"} /\ dryRun' = dryRun
    BY <1>6 DEF Provision, RestoreStep, checkVars
  <2>2. QED
    BY <1>4, <2>1
<1>7. CASE BorgStep \/ Select \/ UNCHANGED vars
  <2>1. UNCHANGED <<stage, dryRun, says>>
    BY <1>7 DEF BorgStep, Select, vars, planVars, checkVars
  <2>2. QED
    BY <1>3, <2>1
<1>8. QED
  BY <1>1, <1>2, <1>5, <1>6, <1>7 DEF Next

(* "pass" is said when every check that was asked for passed, however often  *)
(* it was repeated, and a sampled dry run read what it claims (orchestrator. *)
(* py:338-421).                                                              *)
THEOREM SaidIsChecked == Spec => []ChecksTrue
<1>1. Init => RunInv /\ ChecksInv /\ DryRunInv
  BY RunInit, ChecksInit, DryRunInit
<1>2. RunInv /\ ChecksInv /\ DryRunInv /\ [Next]_vars => (RunInv /\ ChecksInv /\ DryRunInv)'
  BY RunNext, ChecksNext, DryRunNext
<1>3. RunInv /\ ChecksInv /\ DryRunInv => ChecksTrue
  <2>1. SUFFICES ASSUME RunInv, ChecksInv, DryRunInv, order.deep_check = "sampled_dry_run",
                        says.deep = "pass", stage = "checked"
                 PROVE  /\ dryRun.claims = Cardinality(DryRunReads)
                        /\ dryRun.claims = 0 => \A i \in listing : IsLarge(roots, i.path) => i.size = 0
    BY DEF ChecksTrue, ChecksInv, Wished
  <2>2. /\ dryRun.paths \subseteq LargePaths /\ (dryRun.paths = {} => LargePaths = {})
        /\ dryRun.claims = Cardinality(dryRun.paths)
    BY <2>1 DEF DryRunInv
  <2> DEFINE f == [i \in DryRunReads |-> i.path]
  <2>3. DryRunReads \subseteq listing /\ IsFiniteSet(DryRunReads)
    BY <2>1, ListingFinite, FS_Subset DEF DryRunReads
  <2>4. f \in Bijection(DryRunReads, dryRun.paths)
    <3>1. f \in [DryRunReads -> dryRun.paths]
      BY DEF DryRunReads
    <3>2. \A i, j \in DryRunReads : f[i] = f[j] => i = j
      BY <2>1, <2>3, ListingFinite
    <3>3. \A p \in dryRun.paths : \E i \in DryRunReads : f[i] = p
      BY <2>2 DEF LargePaths, DryRunReads
    <3> HIDE DEF f
    <3>4. QED
      BY <3>1, <3>2, <3>3 DEF Bijection, Injection, Surjection, IsInjective
  <2> HIDE DEF f
  <2>5. IsFiniteSet(dryRun.paths) /\ Cardinality(dryRun.paths) = Cardinality(DryRunReads)
    BY <2>3, <2>4, FS_Bijection DEF ExistsBijection
  <2>6. dryRun.claims = 0 => LargePaths = {}
    BY <2>2, <2>5, FS_EmptySet
  <2>7. LargePaths = {} => \A i \in listing : IsLarge(roots, i.path) => i.size = 0
    <3>1. SUFFICES ASSUME NEW i \in listing, IsLarge(roots, i.path), LargePaths = {}
                   PROVE  i.size = 0
      OBVIOUS
    <3>2. ~(i.size > 0)
      BY <3>1 DEF LargePaths
    <3>3. i.size \in Nat
      BY <2>1, ListingFinite
    <3>4. QED
      BY <3>2, <3>3
  <2>8. QED
    BY <2>2, <2>5, <2>6, <2>7
<1>4. QED
  BY <1>1, <1>2, <1>3, PTL DEF Spec

-----------------------------------------------------------------------------
(* The large roots, found with the listing.                                  *)

(* The roots of an archive are found in its whole listing, and not before.   *)
RootsInv ==
    /\ stage \in Early \/ client = "reading" => pc = "listed"
    /\ pc = "listed" => roots = {}
    /\ roots # {} => listing = comp.files /\ roots = LargeRoots(comp.files, comp.kind, comp.declared)

LEMMA RootsInit == Init => RootsInv
BY DEF Init, SelectionInit, RootsInv

LEMMA RootsNext == RunInv /\ RootsInv /\ [Next]_vars => RootsInv'
<1> SUFFICES ASSUME RunInv, RootsInv, [Next]_vars PROVE RootsInv'
  OBVIOUS
<1>1. CASE BorgStep
  <2>1. B!ClientStep /\ UNCHANGED <<stage, pc, roots, comp>>
    BY <1>1 DEF BorgStep, selectionVars, planVars
  <2>2. client' = "reading" => client = "reading"
    BY <2>1 DEF B!ClientStep, B!Returns, B!BorgEnds, B!Again, B!BorgComplains, B!EndOfListing,
                B!WriteFails, B!BorgWrites, B!ReadsLine, RunInv, ClientInv, Alone
  <2>3. client = "reading" \/ listing' = listing
    BY <2>1 DEF B!ClientStep, B!Returns, B!BorgEnds, B!Again, B!BorgComplains, B!EndOfListing,
                B!WriteFails, B!BorgWrites, B!ReadsLine, B!listVars, RunInv, ClientInv, Alone
  <2>4. QED
    BY <2>1, <2>2, <2>3 DEF RootsInv
<1>2. CASE ReadLayout \/ Check \/ StartDryRun
  <2>1. /\ UNCHANGED <<pc, roots, comp>>
        /\ stage' \in Early => stage \in Early
        /\ client' = "reading" => client = "reading"
        /\ listing' = listing
    BY <1>2 DEF ReadLayout, Check, StartDryRun, B!Call, B!listVars, selectionVars, clientVars, Early
  <2>2. QED
    BY <2>1 DEF RootsInv
<1>3. CASE ListArchive
  <2>1. /\ stage = "layout" /\ UNCHANGED <<pc, roots, comp, listing>>
    BY <1>3 DEF ListArchive, B!List, selectionVars
  <2>2. QED
    BY <2>1 DEF RootsInv, Early
<1>4. CASE SkipListing
  <2>1. /\ stage = "layout" /\ stage' = "inspected" /\ UNCHANGED <<client, roots, comp, listing>>
        /\ pc' = "keeping" /\ client = "idle"
    BY <1>4 DEF SkipListing, clientVars
  <2>2. QED
    BY <2>1 DEF RootsInv, Early
<1>5. CASE Select
  <2>1. /\ stage = "listing" /\ client = "idle" /\ listing = comp.files
        /\ UNCHANGED <<stage, client, listing, comp>>
    BY <1>5, SelectionFrame DEF Select, clientVars, planVars, RunInv, StageInv
  <2>2. CASE Discover
    BY <2>1, <2>2 DEF Discover, RootsInv, Early
  <2>3. CASE Merge \/ \E i \in todo : Sample(i) \/ Keep(i)
    <3>1. pc # "listed" /\ pc' # "listed" /\ roots' = roots
      BY <2>3 DEF Merge, Sample, Keep
    <3>2. QED
      BY <2>1, <3>1 DEF RootsInv, Early
  <2>4. QED
    BY <1>5, <2>2, <2>3 DEF Select, SelectionStep
<1>6. CASE \/ GiveUp \/ Inspected \/ StartChecks \/ Checked \/ EndDryRun \/ Provision
           \/ RestoreStep \/ Breaks \/ Restored \/ UNCHANGED vars
  <2>1. /\ UNCHANGED <<pc, roots, comp, listing, client>>
        /\ stage' \in Early => stage \in Early
    BY <1>6 DEF GiveUp, Inspected, StartChecks, Checked, EndDryRun, Provision, RestoreStep, Breaks,
                Restored, selectionVars, clientVars, planVars, vars, Early
  <2>2. QED
    BY <2>1 DEF RootsInv
<1>7. QED
  BY <1>1, <1>2, <1>3, <1>4, <1>5, <1>6 DEF Next

(* Every file is counted once, in the core or in one large root, whatever    *)
(* nested directories the settings, the manifest and a profile name          *)
(* (large_data.py:245-253, 271-278).                                         *)
THEOREM FilesCountedOnce == Spec => []CountedOnce
<1>1. Init => RunInv /\ RootsInv
  BY RunInit, RootsInit
<1>2. RunInv /\ RootsInv /\ [Next]_vars => (RunInv /\ RootsInv)'
  BY RunNext, RootsNext
<1>3. RunInv /\ RootsInv => CountedOnce
  <2>1. SUFFICES ASSUME RunInv, RootsInv, roots # {}
                 PROVE  LET large == {i \in comp.files : IsLarge(roots, i.path)}
                        IN /\ LargeSize(listing, roots) = Size(large)
                           /\ CoreSize(listing, roots) = Size(comp.files \ large)
    BY DEF CountedOnce, Archive
  <2>2. comp \in Components /\ listing = comp.files /\ Sized(comp.files)
    BY <2>1, ListingFinite DEF RootsInv, Sized
  <2>3. /\ IsFiniteSet(roots)
        /\ \A r, s \in roots : r # s => Under(comp.files, r) \cap Under(comp.files, s) = {}
    <3>1. roots = LargeRoots(comp.files, comp.kind, comp.declared)
      BY <2>1 DEF RootsInv
    <3>2. QED
      BY <2>2, <3>1, RootsApart
  <2>4. QED
    BY <2>2, <2>3, CountedApart
<1>4. QED
  BY <1>1, <1>2, <1>3, PTL DEF Spec

-----------------------------------------------------------------------------
(* What is kept of the roots, while the selection goes on.                   *)

KeepInv ==
    /\ todo # {} => pc # "listed" /\ todo \subseteq listing
    /\ \A r \in DOMAIN keep : Costed(comp.files, keep[r])

LEMMA KeepInit == Init => KeepInv
BY DEF Init, SelectionInit, KeepInv

LEMMA KeepNext == RunInv /\ RootsInv /\ KeepInv /\ [Next]_vars => KeepInv'
<1> SUFFICES ASSUME RunInv, RootsInv, KeepInv, [Next]_vars PROVE KeepInv'
  OBVIOUS
<1> USE DEF KeepInv
<1>1. CASE BorgStep
  <2>1. B!ClientStep /\ UNCHANGED <<pc, todo, keep, comp>>
    BY <1>1 DEF BorgStep, selectionVars, passVars, planVars
  <2>2. client = "reading" \/ listing' = listing
    BY <2>1 DEF B!ClientStep, B!Returns, B!BorgEnds, B!Again, B!BorgComplains, B!EndOfListing,
                B!WriteFails, B!BorgWrites, B!ReadsLine, B!listVars, RunInv, ClientInv, Alone
  <2>3. QED
    BY <2>1, <2>2 DEF RootsInv
<1>2. CASE ReadLayout \/ Check \/ StartDryRun \/ ListArchive
  <2>1. UNCHANGED <<pc, todo, keep, comp, listing>>
    BY <1>2 DEF ReadLayout, Check, StartDryRun, ListArchive, B!Call, B!List, B!listVars,
                selectionVars, passVars, clientVars
  <2>2. QED
    BY <2>1
<1>3. CASE SkipListing
  BY <1>3 DEF SkipListing, clientVars, passVars
<1>4. CASE Select
  <2>1. listing = comp.files /\ UNCHANGED <<listing, comp>>
    BY <1>4, SelectionFrame DEF Select, clientVars, RunInv, StageInv
  <2>2. Sized(listing) /\ \A i, j \in listing : i.path = j.path => i = j
    BY <2>1, ListingFinite DEF Sized
  <2>3. CASE Discover
    BY <2>1, <2>3 DEF Discover
  <2>4. CASE Merge
    <3>1. /\ keep' = [r \in roots |-> IF comp.kind = "app" THEN KeepDirs(listing, r)
                                      ELSE NothingKept]
          /\ pc' = "keeping" /\ todo' \in {listing, {}}
      BY <2>4 DEF Merge
    <3>2. \A r \in roots : Costed(listing, KeepDirs(listing, r)) /\ Costed(listing, NothingKept)
      BY <2>2, DirsCosted, NothingCosted
    <3>3. QED
      BY <2>1, <3>1, <3>2
  <2>5. ASSUME NEW i \in todo, Sample(i) PROVE KeepInv'
    BY <2>1, <2>5 DEF Sample
  <2>6. ASSUME NEW i \in todo, Keep(i) PROVE KeepInv'
    <3>1. /\ keep' = KeptFile(keep, i) /\ pc' = pc /\ todo' = todo \ {i} /\ i \in listing
      <4>1. keep' = KeptFile(keep, i) /\ pc' = pc /\ todo' = todo \ {i}
        BY <2>6, Zenon DEF Keep
      <4>2. QED
        BY <4>1
    <3>2. DOMAIN keep' = DOMAIN keep
      BY <3>1, KeptFileDomain
    <3>3. ASSUME NEW r \in DOMAIN keep PROVE Costed(listing, keep'[r])
      <4>1. Costed(listing, keep[r])
        BY <2>1
      <4>2. QED
        BY <2>2, <3>1, <4>1, ListedFileCosted
    <3>4. QED
      BY <2>1, <3>1, <3>2, <3>3
  <2>7. QED
    BY <1>4, <2>3, <2>4, <2>5, <2>6 DEF Select, SelectionStep
<1>5. CASE \/ GiveUp \/ Inspected \/ StartChecks \/ Checked \/ EndDryRun \/ Provision
           \/ RestoreStep \/ Breaks \/ Restored \/ UNCHANGED vars
  <2>1. UNCHANGED <<pc, todo, keep, comp, listing>>
    BY <1>5 DEF GiveUp, Inspected, StartChecks, Checked, EndDryRun, Provision, RestoreStep, Breaks,
                Restored, selectionVars, passVars, clientVars, planVars, vars
  <2>2. QED
    BY <2>1
<1>6. QED
  BY <1>1, <1>2, <1>3, <1>4, <1>5 DEF Next

(* What is kept of a root is accounted for and within its budget, whatever   *)
(* the two passes keep of it (large_data.py:286-298).                        *)
THEOREM KeptIsPaid == Spec => []KeptIsCosted
<1>1. Init => RunInv /\ RootsInv /\ KeepInv
  BY RunInit, RootsInit, KeepInit
<1>2. RunInv /\ RootsInv /\ KeepInv /\ [Next]_vars => (RunInv /\ RootsInv /\ KeepInv)'
  BY RunNext, RootsNext, KeepNext
<1>3. KeepInv => KeptIsCosted
  <2>1. SUFFICES ASSUME KeepInv, NEW r \in DOMAIN keep
                 PROVE  /\ Size({i \in comp.files : i.path \in keep[r].files \/ IsLarge(keep[r].dirs, i.path)})
                             <= keep[r].bytes
                        /\ keep[r].bytes <= KeepPerRoot
    BY DEF KeptIsCosted, Archive
  <2>2. Costed(comp.files, keep[r])
    BY <2>1 DEF KeepInv
  <2>3. KeepPerRoot \in Nat
    BY LargeDataAssumption
  <2>4. QED
    BY <2>2, <2>3 DEF Costed, KeptOf
<1>4. QED
  BY <1>1, <1>2, <1>3, PTL DEF Spec

-----------------------------------------------------------------------------
(* The selection.                                                          *)

(* What the passes over the listing may rely on.                             *)
LEMMA RootsKnown ==
    ASSUME RunInv, RootsInv
    PROVE  /\ roots \subseteq Dirs(listing) \cup {<<>>} /\ roots \subseteq Seq(STRING)
           /\ ApartRoots
           /\ \A r \in roots : Objects(r) \subseteq comp.files /\ IsFiniteSet(Objects(r))
           /\ \A i \in comp.files : i.mtime \in Int /\ i.path \in Seq(STRING)
<1>1. /\ comp \in Components /\ IsFiniteSet(comp.files)
      /\ \A i \in comp.files : i.mtime \in Int /\ i.path \in Seq(STRING)
      /\ \A i, j \in comp.files : i.path = j.path => i = j
  BY SelectionAssumption DEF RunInv
<1>2. \A r \in roots : Objects(r) \subseteq comp.files /\ IsFiniteSet(Objects(r))
  <2>1. \A r \in roots : Objects(r) \subseteq comp.files
    BY DEF Objects, Under, Archive
  <2>2. QED
    BY <1>1, <2>1, FS_Subset
<1>3. CASE roots = {}
  BY <1>1, <1>2, <1>3 DEF ApartRoots
<1>4. CASE roots # {}
  <2>1. listing = comp.files /\ roots = LargeRoots(comp.files, comp.kind, comp.declared)
    BY <1>4 DEF RootsInv
  <2>2. roots \subseteq Dirs(listing) \cup {<<>>} /\ roots \subseteq Seq(STRING)
    <3>1. roots \subseteq Dirs(comp.files) \cup {<<>>}
      BY <1>1, <2>1, RootsAreDirs
    <3>2. Dirs(comp.files) \subseteq Seq(STRING) /\ <<>> \in Seq(STRING)
      BY <1>1, DirsFinite
    <3>3. QED
      BY <2>1, <3>1, <3>2
  <2>3. \A r, s \in roots : r # s => Under(comp.files, r) \cap Under(comp.files, s) = {}
    BY <1>1, <2>1, RootsApart
  <2>4. \A r, s \in roots : r # s => Objects(r) \cap Objects(s) = {}
    BY <2>3 DEF Objects, Archive
  <2>5. ASSUME NEW r \in roots, NEW i \in Heads(r), NEW j \in Heads(r), Place(r, i) = Place(r, j)
        PROVE  i = j
    <3>1. /\ i \in comp.files /\ IsPrefix(r, i.path) /\ IsHead(Rel(r, i.path))
          /\ j \in comp.files /\ IsPrefix(r, j.path) /\ IsHead(Rel(r, j.path))
      BY DEF Heads, Objects, Under, Archive
    <3>2. r \in Seq(STRING) /\ i.path \in Seq(STRING) /\ j.path \in Seq(STRING)
      BY <1>1, <2>2, <3>1
    <3>3. i.path = j.path
      BY <2>5, <3>1, <3>2, PlaceUnique
    <3>4. QED
      BY <1>1, <3>1, <3>3
  <2>6. QED
    BY <1>1, <1>2, <2>2, <2>4, <2>5 DEF ApartRoots
<1>5. QED
  BY <1>3, <1>4

(* The heaps hold the newest of the objects seen so far but for those of     *)
(* lost repositories.                                                        *)
HeapsInv ==
    IF pc = "sampling"
    THEN /\ DOMAIN heaps = roots /\ seq \in Nat
         /\ \A r \in roots : \A e \in Entries(heaps[r]) :
               e.seq \in 1 .. seq /\ e.repo = InGit(Rel(r, e.item.path))
         /\ \E lost : /\ SeenTwins(lost, todo, seenGit)
                      /\ \A r \in roots : Covers(r, Objects(r) \ (lost \cup todo), heaps[r])
    ELSE heaps = <<>> /\ seenGit = {} /\ seq = 0

SampledInv ==
    IF pc = "keeping"
    THEN /\ DOMAIN samples = roots
         /\ \A r \in roots : /\ IsFiniteSet(samples[r]) /\ Cardinality(samples[r]) <= SampleSize
                             /\ \A o \in samples[r] : o.repo = InGit(Rel(r, o.item.path))
         /\ \E lost : /\ lost \subseteq UNION {Heads(r) : r \in roots} /\ LostTwins(lost)
                      /\ \A r \in roots : WellChosen(r, Objects(r) \ lost, ItemsOf(samples[r]))
    ELSE samples = <<>>

SelectInv == pc \in {"listed", "sampling", "keeping"} /\ HeapsInv /\ SampledInv

LEMMA SelectInit == Init => SelectInv
BY DEF Init, SelectionInit, SelectInv, HeapsInv, SampledInv

(* Nothing else than the selection touches its variables, but for an archive *)
(* that is not listed.                                                       *)
LEMMA SelectionOnly ==
    ASSUME [Next]_vars, ~Select, ~SkipListing
    PROVE  UNCHANGED selectionVars
<1>1. CASE BorgStep \/ ReadLayout \/ ListArchive \/ GiveUp \/ Inspected
  BY <1>1 DEF BorgStep, ReadLayout, ListArchive, GiveUp, Inspected
<1>2. CASE StartChecks \/ Check \/ Checked \/ StartDryRun \/ EndDryRun
  BY <1>2 DEF StartChecks, Check, Checked, StartDryRun, EndDryRun
<1>3. CASE Provision \/ RestoreStep \/ Breaks \/ Restored \/ UNCHANGED vars
  BY <1>3 DEF Provision, RestoreStep, Breaks, Restored, vars
<1>4. QED
  BY <1>1, <1>2, <1>3 DEF Next

LEMMA SelectionKept ==
    ASSUME SelectInv, UNCHANGED <<comp, pc, roots, todo, heaps, seenGit, seq, samples>>
    PROVE  SelectInv'
<1>1. \A r : Objects(r)' = Objects(r)
  BY DEF Objects, Archive
<1>2. \A r : Heads(r)' = Heads(r)
  BY <1>1 DEF Heads
<1>3. \A lost : /\ SeenTwins(lost, todo, seenGit)' <=> SeenTwins(lost, todo, seenGit)
                /\ LostTwins(lost)' <=> LostTwins(lost)
  BY <1>2 DEF SeenTwins, LostTwins
<1>4. HeapsInv'
  BY <1>1, <1>3 DEF SelectInv, HeapsInv
<1>5. SampledInv'
  BY <1>1, <1>2, <1>3 DEF SelectInv, SampledInv
<1>6. QED
  BY <1>4, <1>5 DEF SelectInv

(* One file more of the listing.                                             *)
LEMMA SampleKeeps ==
    ASSUME RunInv, RootsInv, SelectInv, NEW i \in todo, todo \subseteq comp.files,
           Sample(i)
    PROVE  SelectInv'
<1>1. /\ pc = "sampling" /\ todo' = todo \ {i} /\ UNCHANGED <<comp, pc, roots, samples>>
      /\ i \in comp.files
  BY DEF Sample
<1>2. /\ DOMAIN heaps = roots /\ seq \in Nat
      /\ \A r \in roots : \A e \in Entries(heaps[r]) :
            e.seq \in 1 .. seq /\ e.repo = InGit(Rel(r, e.item.path))
  BY <1>1 DEF SelectInv, HeapsInv
<1>3. PICK lost : /\ SeenTwins(lost, todo, seenGit)
                  /\ \A r \in roots : Covers(r, Objects(r) \ (lost \cup todo), heaps[r])
  BY <1>1 DEF SelectInv, HeapsInv
<1>4. /\ ApartRoots
      /\ \A r \in roots : Objects(r) \subseteq comp.files
      /\ \A j \in comp.files : j.mtime \in Int /\ j.path \in Seq(STRING)
  BY RootsKnown
<1>5. i \notin lost
  BY <1>3 DEF SeenTwins
<1>6. \A r \in roots : i \in Objects(r) <=>
         IsPrefix(r, i.path) /\ IF InGit(Rel(r, i.path)) THEN IsHead(Rel(r, i.path)) ELSE Passes(Rel(r, i.path), i)
  BY <1>1 DEF Objects, Under, Archive
<1>7. /\ \A r : Objects(r)' = Objects(r) /\ Heads(r)' = Heads(r)
      /\ \A l, u, s : SeenTwins(l, u, s) => SeenTwins(l, u, s)'
  <2>1. \A r : Objects(r)' = Objects(r)
    BY <1>1 DEF Objects, Archive
  <2>2. \A r : Heads(r)' = Heads(r)
    BY <2>1 DEF Heads
  <2>3. QED
    BY <1>1, <2>1, <2>2 DEF SeenTwins
<1>8. SampledInv'
  BY <1>1 DEF SelectInv, SampledInv
<1>9. SUFFICES HeapsInv'
  BY <1>1, <1>8 DEF SelectInv
<1>10. CASE /\ ~ \E r \in roots : IsPrefix(r, i.path) /\ Candidate(Rel(r, i.path), i, seenGit)
            /\ UNCHANGED <<heaps, seenGit, seq>>
  <2>1. CASE \E r \in roots : i \in Heads(r)
    <3>1. PICK r \in roots : i \in Heads(r)
      BY <2>1
    <3>2. Place(r, i) \in seenGit
      BY <1>6, <1>10, <3>1 DEF Heads, Candidate, Place
    <3>3. SeenTwins(lost \cup {i}, todo', seenGit)
      BY <1>1, <1>3, <1>4, <3>1, <3>2, LostHead
    <3>4. \A s \in roots : Objects(s) \ ((lost \cup {i}) \cup todo') = Objects(s) \ (lost \cup todo)
      BY <1>1
    <3>5. QED
      BY <1>1, <1>2, <1>3, <1>7, <1>10, <3>3, <3>4 DEF HeapsInv
  <2>2. CASE \A r \in roots : i \notin Heads(r)
    <3>1. \A r \in roots : i \notin Objects(r)
      BY <1>6, <1>10, <2>2 DEF Heads, Candidate
    <3>2. SeenTwins(lost, todo', seenGit)
      BY <1>1, <1>3, <2>2, OtherFile
    <3>3. \A s \in roots : Objects(s) \ (lost \cup todo') = Objects(s) \ (lost \cup todo)
      BY <1>1, <3>1
    <3>4. QED
      BY <1>1, <1>2, <1>3, <1>7, <1>10, <3>2, <3>3 DEF HeapsInv
  <2>3. QED
    BY <2>1, <2>2
<1>11. ASSUME NEW r \in roots,
              IsPrefix(r, i.path), Candidate(Rel(r, i.path), i, seenGit),
              NEW e, e = [item |-> i, repo |-> InGit(Rel(r, i.path)), seq |-> seq + 1],
              seenGit' = IF InGit(Rel(r, i.path)) THEN seenGit \cup {Repo(Rel(r, i.path))} ELSE seenGit,
              seq' = seq + 1,
              heaps' = [heaps EXCEPT ![r] = Insert(@, Group(Rel(r, i.path)), e)]
       PROVE  HeapsInv'
  <2> DEFINE O == Objects(r) \ (lost \cup todo)
             new == Insert(heaps[r], Group(Rel(r, i.path)), e)
  <2>1. i \in Objects(r) /\ \A s \in roots : s # r => i \notin Objects(s)
    BY <1>4, <1>6, <1>11 DEF Candidate, ApartRoots
  <2>2. SeenTwins(lost, todo', seenGit')
    <3>1. CASE InGit(Rel(r, i.path))
      <4>1. i \in Heads(r) /\ Place(r, i) \notin seenGit /\ seenGit' = seenGit \cup {Place(r, i)}
        BY <1>11, <2>1, <3>1 DEF Heads, Candidate, Place
      <4>2. QED
        BY <1>1, <1>3, <1>4, <4>1, TakenHead
    <3>2. CASE ~InGit(Rel(r, i.path))
      <4>1. seenGit' = seenGit /\ \A s \in roots : i \notin Heads(s)
        BY <1>11, <2>1, <3>2 DEF Heads
      <4>2. QED
        BY <1>1, <1>3, <4>1, OtherFile
    <3>3. QED
      BY <3>1, <3>2
  <2>3. Covers(r, O \cup {i}, new) /\ Entries(new) \subseteq Entries(heaps[r]) \cup {e}
    <3>1. Covers(r, O, heaps[r]) /\ (\A u \in O : u.mtime \in Int) /\ i \notin O /\ i.mtime \in Int
      BY <1>1, <1>3, <1>4
    <3>2. (\A f \in Entries(heaps[r]) : f.seq \in 1 .. seq) /\ e.item = i /\ e.seq = seq + 1
      BY <1>2, <1>11
    <3> DEFINE groups == heaps[r]
    <3> HIDE DEF O, groups
    <3>3. /\ Covers(r, O, groups) /\ i \notin O /\ i.mtime \in Int /\ e.item = i /\ e.seq = seq + 1
          /\ \A u \in O : u.mtime \in Int
          /\ \A f \in Entries(groups) : f.seq \in 1 .. seq
          /\ seq \in Nat
      BY <1>2, <3>1, <3>2 DEF groups
    <3>4. /\ Covers(r, O \cup {i}, Insert(groups, Group(Rel(r, i.path)), e))
          /\ Entries(Insert(groups, Group(Rel(r, i.path)), e)) \subseteq Entries(groups) \cup {e}
      BY <3>3, InsertCovers, SMTT(20)
    <3>5. QED
      BY <3>4 DEF groups
  <2>4. /\ DOMAIN heaps' = roots /\ heaps'[r] = new
        /\ \A s \in roots : s # r => heaps'[s] = heaps[s]
    <3> HIDE DEF new
    <3>1. heaps' = [heaps EXCEPT ![r] = new]
      BY <1>11 DEF new
    <3>2. QED
      BY <1>2, <3>1
  <2>5. O \cup {i} = Objects(r) \ (lost \cup todo')
    BY <1>1, <1>5, <2>1
  <2>6. \A s \in roots : s # r => Objects(s) \ (lost \cup todo') = Objects(s) \ (lost \cup todo)
    BY <1>1, <2>1
  <2> HIDE DEF O, new
  <2>7. \A s \in roots : Covers(s, Objects(s) \ (lost \cup todo'), heaps'[s])
    BY <1>3, <2>3, <2>4, <2>5, <2>6
  <2>8. ASSUME NEW s \in roots, NEW f \in Entries(heaps'[s])
        PROVE  f.seq \in 1 .. seq' /\ f.repo = InGit(Rel(s, f.item.path))
    <3>1. CASE f = e
      <4>1. s = r
        <5>1. SUFFICES ASSUME s # r PROVE FALSE
          OBVIOUS
        <5>2. e \in Entries(heaps[s])
          BY <2>4, <2>8, <3>1, <5>1
        <5>3. e.seq \in 1 .. seq
          BY <1>2, <5>2
        <5>4. QED
          BY <1>2, <1>11, <5>3
      <4>2. QED
        BY <1>2, <1>11, <3>1, <4>1
    <3>2. CASE f # e
      <4>1. f \in Entries(heaps[s])
        <5>1. CASE s = r
          BY <2>3, <2>4, <2>8, <3>2, <5>1
        <5>2. CASE s # r
          BY <2>4, <2>8, <5>2
        <5>3. QED
          BY <5>1, <5>2
      <4>2. f.seq \in 1 .. seq /\ f.repo = InGit(Rel(s, f.item.path))
        BY <1>2, <4>1
      <4>3. QED
        BY <1>2, <1>11, <4>2
    <3>3. QED
      BY <3>1, <3>2
  <2>9. SeenTwins(lost, todo, seenGit)'
    BY <1>1, <1>7, <2>2 DEF SeenTwins
  <2>10. (\A s \in roots : Covers(s, Objects(s) \ (lost \cup todo), heaps[s]))'
    BY <1>1, <1>7, <2>7
  <2>11. (\A s \in roots : \A f \in Entries(heaps[s]) : f.seq \in 1 .. seq /\ f.repo = InGit(Rel(s, f.item.path)))'
    BY <1>1, <2>8
  <2>12. (\E l : /\ SeenTwins(l, todo, seenGit)
                /\ \A s \in roots : Covers(s, Objects(s) \ (l \cup todo), heaps[s]))'
    BY <2>9, <2>10
  <2>13. (pc = "sampling" /\ DOMAIN heaps = roots /\ seq \in Nat)'
    BY <1>1, <1>2, <1>11, <2>4
  <2>14. QED
    BY <2>11, <2>12, <2>13 DEF HeapsInv
<1>12. QED
  BY <1>10, <1>11 DEF Sample

(* The end of the first pass.                                                *)
LEMMA MergeKeeps ==
    ASSUME RunInv, RootsInv, SelectInv, Merge
    PROVE  SelectInv'
<1>1. PICK chosen \in [roots -> UNION {Merges(heaps[r]) : r \in roots}] :
         (\A r \in roots : chosen[r] \in Merges(heaps[r])) /\ samples' = chosen
  BY DEF Merge
<1>2. /\ pc = "sampling" /\ todo = {} /\ pc' = "keeping" /\ UNCHANGED <<comp, roots>>
      /\ heaps' = <<>> /\ seenGit' = {} /\ seq' = 0
  BY DEF Merge
<1>3. \A r \in roots : \A e \in Entries(heaps[r]) : e.repo = InGit(Rel(r, e.item.path))
  BY <1>2 DEF SelectInv, HeapsInv
<1>4. PICK lost : /\ SeenTwins(lost, todo, seenGit)
                  /\ \A r \in roots : Covers(r, Objects(r) \ (lost \cup todo), heaps[r])
  BY <1>2 DEF SelectInv, HeapsInv
<1>5. \A r \in roots : Objects(r) \ (lost \cup todo) = Objects(r) \ lost
  BY <1>2
<1>6. lost \subseteq UNION {Heads(r) : r \in roots} /\ LostTwins(lost)
  BY <1>2, <1>4 DEF SeenTwins, LostTwins
<1>7. ASSUME NEW r \in roots
      PROVE  /\ WellChosen(r, Objects(r) \ lost, ItemsOf(samples'[r]))
             /\ IsFiniteSet(samples'[r]) /\ Cardinality(samples'[r]) <= SampleSize
             /\ \A o \in samples'[r] : o.repo = InGit(Rel(r, o.item.path))
  <2> DEFINE O == Objects(r) \ lost
             groups == heaps[r]
             S == samples'[r]
  <2>1. IsFiniteSet(O) /\ \A i \in O : i.mtime \in Int
    <3>1. Objects(r) \subseteq comp.files /\ IsFiniteSet(Objects(r)) /\ \A i \in comp.files : i.mtime \in Int
      BY RootsKnown
    <3>2. IsFiniteSet(Objects(r) \ lost)
      BY <3>1, FS_Subset
    <3>3. QED
      BY <3>1, <3>2
  <2>2. Covers(r, O, groups) /\ S \in Merges(groups)
    BY <1>1, <1>4, <1>5
  <2>3. \A e \in Entries(groups) : e.repo = InGit(Rel(r, e.item.path))
    BY <1>3
  <2> HIDE DEF O, groups, S
  <2>4. WellChosen(r, O, ItemsOf(S)) /\ S \subseteq Entries(groups) /\ IsFiniteSet(S)
        /\ Cardinality(S) <= SampleSize
    BY <2>1, <2>2, ChosenWell
  <2>5. QED
    BY <2>3, <2>4 DEF O, S
<1>8. DOMAIN samples' = roots
  BY <1>1
<1>9. /\ \A r : Objects(r)' = Objects(r)
      /\ \A r : Heads(r)' = Heads(r)
  BY <1>2 DEF Heads, Objects, Archive
<1>10. LostTwins(lost)' /\ (lost \subseteq UNION {Heads(r) : r \in roots})'
  BY <1>2, <1>6, <1>9 DEF LostTwins
<1>11. (\A r \in roots : WellChosen(r, Objects(r) \ lost, ItemsOf(samples[r])))'
  BY <1>2, <1>7, <1>9
<1>12. (\A r \in roots : /\ IsFiniteSet(samples[r]) /\ Cardinality(samples[r]) <= SampleSize
                         /\ \A o \in samples[r] : o.repo = InGit(Rel(r, o.item.path)))'
  BY <1>2, <1>7
<1>13. (DOMAIN samples = roots)'
  BY <1>2, <1>8
<1>14. (\E l : /\ l \subseteq UNION {Heads(r) : r \in roots} /\ LostTwins(l)
              /\ \A r \in roots : WellChosen(r, Objects(r) \ l, ItemsOf(samples[r])))'
  BY <1>10, <1>11
<1>15. SampledInv'
  BY <1>2, <1>12, <1>13, <1>14 DEF SampledInv
<1>16. HeapsInv'
  BY <1>2 DEF HeapsInv
<1>17. QED
  BY <1>2, <1>15, <1>16 DEF SelectInv

LEMMA SelectNext == RunInv /\ RootsInv /\ KeepInv /\ SelectInv /\ [Next]_vars => SelectInv'
<1> SUFFICES ASSUME RunInv, RootsInv, KeepInv, SelectInv, [Next]_vars PROVE SelectInv'
  OBVIOUS
<1>1. CASE ~Select /\ ~SkipListing
  BY <1>1, SelectionOnly, SelectionKept DEF selectionVars, passVars
<1>2. CASE SkipListing
  <2>1. /\ pc = "listed" /\ pc' = "keeping" /\ UNCHANGED <<comp, roots, heaps, seenGit, seq, samples>>
        /\ roots = {}
    BY <1>2 DEF SkipListing, passVars, RootsInv, Early
  <2>2. HeapsInv'
    BY <2>1 DEF SelectInv, HeapsInv
  <2>3. samples' = <<>> /\ roots' = {} /\ pc' = "keeping"
    BY <2>1 DEF SelectInv, SampledInv
  <2>4. SampledInv'
    <3>1. (LostTwins({}))' /\ (\A r \in roots : WellChosen(r, Objects(r) \ {}, ItemsOf(samples[r])))'
          /\ ({} \subseteq UNION {Heads(r) : r \in roots})'
      BY <2>3 DEF LostTwins
    <3>2. (\E lost : /\ lost \subseteq UNION {Heads(r) : r \in roots} /\ LostTwins(lost)
                     /\ \A r \in roots : WellChosen(r, Objects(r) \ lost, ItemsOf(samples[r])))'
      BY <3>1
    <3>3. QED
      BY <2>3, <3>2 DEF SampledInv
  <2>5. QED
    BY <2>1, <2>2, <2>4 DEF SelectInv
<1>3. CASE Select
  <2>1. /\ listing = comp.files /\ SelectionStep /\ comp' = comp
    BY <1>3, SelectionFrame DEF Select, RunInv, StageInv
  <2>2. CASE Discover
    <3>1. /\ pc = "listed" /\ pc' = "sampling" /\ heaps' = [r \in roots' |-> <<>>]
          /\ todo' = (IF roots' = {} THEN {} ELSE comp.files) /\ UNCHANGED <<comp, seenGit, seq, samples>>
      BY <2>1, <2>2 DEF Discover
    <3>2. seenGit' = {} /\ seq' = 0 /\ samples' = <<>>
      BY <3>1 DEF SelectInv, HeapsInv, SampledInv
    <3>3. \A r \in roots' : /\ (Objects(r))' \subseteq comp.files /\ (Heads(r))' \subseteq comp.files
                            /\ heaps'[r] = <<>> /\ todo' = comp.files
      BY <3>1 DEF Objects, Heads, Under, Archive
    <3>4. SeenTwins({}, todo, seenGit)'
      BY <3>2, <3>3 DEF SeenTwins
    <3>5. (\A r \in roots : Covers(r, Objects(r) \ ({} \cup todo), heaps[r]))'
      <4>1. \A r \in roots' : (Objects(r) \ ({} \cup todo))' = {}
        BY <3>3
      <4>2. \A r : Covers(r, {}, <<>>)
        BY DEF Covers
      <4>3. QED
        BY <3>3, <4>1, <4>2
    <3>6. (\A r \in roots : \A e \in Entries(heaps[r]) :
              e.seq \in 1 .. seq /\ e.repo = InGit(Rel(r, e.item.path)))'
      BY <3>3 DEF Entries
    <3>7. (\E lost : /\ SeenTwins(lost, todo, seenGit)
                     /\ \A r \in roots : Covers(r, Objects(r) \ (lost \cup todo), heaps[r]))'
      BY <3>4, <3>5
    <3>8. HeapsInv'
      BY <3>1, <3>2, <3>6, <3>7 DEF HeapsInv
    <3>9. SampledInv'
      BY <3>1, <3>2 DEF SampledInv
    <3>10. QED
      BY <3>1, <3>8, <3>9 DEF SelectInv
  <2>3. CASE Merge
    BY <2>3, MergeKeeps
  <2>4. ASSUME NEW i \in todo, Sample(i) PROVE SelectInv'
    <3>1. todo \subseteq comp.files
      BY <2>1 DEF KeepInv
    <3>2. QED
      BY <2>4, <3>1, SampleKeeps
  <2>5. ASSUME NEW i \in todo, Keep(i) PROVE SelectInv'
    <3>1. pc = "keeping" /\ UNCHANGED <<comp, pc, roots, heaps, seenGit, seq, samples>>
      BY <2>5 DEF Keep
    <3>2. \A r : Objects(r)' = Objects(r)
      BY <3>1 DEF Objects, Archive
    <3>3. \A r : Heads(r)' = Heads(r)
      BY <3>2 DEF Heads
    <3>4. \A lost : LostTwins(lost)' <=> LostTwins(lost)
      BY <3>1, <3>3 DEF LostTwins
    <3>5. SampledInv'
      BY <3>1, <3>2, <3>3, <3>4 DEF SelectInv, SampledInv
    <3>6. HeapsInv'
      BY <3>1 DEF SelectInv, HeapsInv
    <3>7. QED
      BY <3>1, <3>5, <3>6 DEF SelectInv
  <2>6. QED
    BY <2>1, <2>2, <2>3, <2>4, <2>5 DEF SelectionStep
<1>4. QED
  BY <1>1, <1>2, <1>3

(* In whatever order the listing comes, the sample of a root is full unless  *)
(* the root is exhausted, has the newest objects of every group, takes from  *)
(* the groups alike, and favours the group with the newest object; only a    *)
(* repository with a twin in another root may be lost (sampler.py:1-8,       *)
(* 178-209, 284-313).                                                        *)
THEOREM SampleIsRight == Spec => []SampleRight
<1>1. Init => RunInv /\ RootsInv /\ KeepInv /\ SelectInv
  BY RunInit, RootsInit, KeepInit, SelectInit
<1>2. RunInv /\ RootsInv /\ KeepInv /\ SelectInv /\ [Next]_vars
        => (RunInv /\ RootsInv /\ KeepInv /\ SelectInv)'
  BY RunNext, RootsNext, KeepNext, SelectNext
<1>3. SelectInv => SampleRight
  BY DEF SelectInv, SampledInv, SampleRight, Selected, ItemsOf
<1>4. QED
  BY <1>1, <1>2, <1>3, PTL DEF Spec

-----------------------------------------------------------------------------
(* The disk of the server.                                                 *)

(* What there is in bytes of the component that is restored.                 *)
CoreBytes == IF comp.kind = "system_data" THEN 0 ELSE Size(CoreFiles)
DumpBytes == IF comp.kind = "system_data" THEN 0 ELSE Size(Dumps(listing, roots))
PayloadBytes == Size(PayloadFiles)

(* A component that is restored with its large data, as the estimate has it. *)
Ready ==
    /\ Sized(listing) /\ IsFiniteSet(roots) /\ DOMAIN keep = roots
    /\ \A r, s \in roots : r # s => Under(listing, r) \cap Under(listing, s) = {}
    /\ \A r \in roots : keep[r].bytes \in Nat /\ Size(KeptOf(listing, keep[r])) <= keep[r].bytes
    /\ \A r \in roots : \A o \in samples[r] :
          o.item \in listing /\ (o.repo => Last(o.item.path) = "HEAD")

(* The core and what is kept of the large data are in the estimate.          *)
LEMMA CoreEstimated ==
    ASSUME Ready
    PROVE  /\ Size(CoreFiles) \in Nat /\ CoreSize(listing, roots) \in Nat /\ KeptBytes \in Nat
           /\ Size(CoreFiles) <= CoreSize(listing, roots) + KeptBytes
           /\ Size(Dumps(listing, roots)) \in Nat
<1> DEFINE large == {i \in listing : IsLarge(roots, i.path)}
           rest == listing \ large
           share == [r \in roots |-> KeptOf(listing, keep[r])]
           n == [r \in roots |-> keep[r].bytes]
           kept == UNION {share[r] : r \in roots}
<1>1. CoreSize(listing, roots) = Size(rest) /\ Size(rest) \in Nat
  <2>1. /\ Sized(listing) /\ IsFiniteSet(roots)
        /\ \A r, s \in roots : r # s => Under(listing, r) \cap Under(listing, s) = {}
        /\ large = {i \in listing : IsLarge(roots, i.path)}
    BY DEF Ready
  <2> HIDE DEF large
  <2>2. QED
    BY <2>1, CountedApart
<1>2. share \in [roots -> SUBSET listing] /\ n \in [roots -> Nat] /\ KeptBytes = Total(n)
      /\ \A r \in roots : Size(share[r]) <= n[r]
  BY DEF Ready, KeptOf, KeptBytes
<1>3. CoreFiles \subseteq rest \cup kept /\ rest \subseteq listing /\ kept \subseteq listing
  <2>1. CoreFiles \subseteq rest \cup kept
    BY DEF CoreFiles, KeptOf
  <2>2. kept \subseteq listing
    BY <1>2
  <2>3. QED
    BY <2>1, <2>2
<1>4. Size(kept) <= Total(n) /\ Total(n) \in Nat
  <2> HIDE DEF share, n
  <2>1. QED
    BY <1>2, SizeOfCover DEF Ready
<1> HIDE DEF rest, kept, n
<1>5. Sized(rest) /\ Sized(kept)
  BY <1>3, SizedParts DEF Ready
<1>6. Sized(rest \cup kept) /\ Size(rest \cup kept) <= Size(rest) + Size(kept)
  BY <1>5, SizeOfTwo
<1>7. Size(CoreFiles) \in Nat /\ Size(CoreFiles) <= Size(rest \cup kept)
  BY <1>3, <1>6, SizeOfPart
<1>8. Size(rest \cup kept) \in Nat /\ Size(kept) \in Nat
  BY <1>5, <1>6, SizeIsWeight
<1>9. Size(Dumps(listing, roots)) \in Nat
  <2>1. Dumps(listing, roots) \subseteq listing
    BY DEF Dumps, Under
  <2>2. QED
    BY <2>1, SizeOfPart DEF Ready
<1>10. QED
  BY <1>1, <1>2, <1>4, <1>6, <1>7, <1>8, <1>9

(* The payload is the sample and the metadata of its repositories.           *)
LEMMA PayloadEstimated ==
    ASSUME Ready, order.mode = "sampled"
    PROVE  /\ PayloadBytes \in Nat /\ SampledBytes \in Nat /\ Size(Metadata(listing)) \in Nat
           /\ PayloadBytes <= SampledBytes + Size(Metadata(listing))
<1> DEFINE share == [r \in roots |-> ItemsOf(samples[r])]
           n == [r \in roots |-> Size(ItemsOf(samples[r]))]
           sampled == UNION {share[r] : r \in roots}
           beside == Metadata(listing)
<1>1. \A r \in roots : SampledSize(samples[r]) = Size(ItemsOf(samples[r]))
  BY DEF SampledSize, ItemsOf
<1>2. SampledBytes = Total(n)
  <2>1. [r \in roots |-> SampledSize(samples[r])] = n
    BY <1>1
  <2> HIDE DEF n
  <2>2. QED
    BY <2>1 DEF SampledBytes
<1>3. /\ share \in [roots -> SUBSET listing] /\ n \in [roots -> Nat]
      /\ \A r \in roots : Size(share[r]) <= n[r]
  <2>1. ASSUME NEW r \in roots
        PROVE  ItemsOf(samples[r]) \subseteq listing /\ Size(ItemsOf(samples[r])) \in Nat
    <3>1. ItemsOf(samples[r]) \subseteq listing
      BY DEF Ready, ItemsOf
    <3>2. QED
      BY <3>1, SizeOfPart DEF Ready
  <2>2. QED
    BY <2>1
<1>4. PayloadFiles \subseteq sampled \cup beside
  <2>1. SUFFICES ASSUME NEW i \in PayloadFiles, i \notin beside PROVE i \in sampled
    OBVIOUS
  <2>2. i \in listing /\ \E r \in roots : \E o \in samples[r] : i = o.item \/ (o.repo /\ Beside(o.item, i))
    BY DEF PayloadFiles
  <2>3. PICK r \in roots : \E o \in samples[r] : i = o.item \/ (o.repo /\ Beside(o.item, i))
    BY <2>2
  <2>4. PICK o \in samples[r] : i = o.item \/ (o.repo /\ Beside(o.item, i))
    BY <2>3
  <2>5. o.item \in listing /\ (o.repo => Last(o.item.path) = "HEAD")
    BY DEF Ready
  <2>6. i = o.item
    BY <2>1, <2>2, <2>4, <2>5 DEF Metadata
  <2>7. QED
    BY <2>6 DEF ItemsOf
<1>5. beside \subseteq listing
  BY DEF Metadata
<1>6. sampled \subseteq listing
  BY <1>3
<1>7. Size(sampled) <= Total(n) /\ Total(n) \in Nat
  <2>1. Sized(listing) /\ IsFiniteSet(roots)
    BY DEF Ready
  <2> HIDE DEF share, n
  <2>2. QED
    BY <1>3, <2>1, SizeOfCover
<1> HIDE DEF share, n, sampled, beside
<1>8. Sized(sampled) /\ Sized(beside)
  BY <1>5, <1>6, SizedParts DEF Ready
<1>9. Sized(sampled \cup beside) /\ Size(sampled \cup beside) <= Size(sampled) + Size(beside)
  BY <1>8, SizeOfTwo
<1>10. Size(PayloadFiles) \in Nat /\ Size(PayloadFiles) <= Size(sampled \cup beside)
  BY <1>4, <1>9, SizeOfPart
<1>11. Size(sampled \cup beside) \in Nat /\ Size(sampled) \in Nat /\ Size(beside) \in Nat
  BY <1>8, <1>9, SizeIsWeight
<1>12. QED
  BY <1>2, <1>7, <1>9, <1>10, <1>11 DEF PayloadBytes, beside

(* What is sampled lies in the archive; a repository stands for its HEAD.    *)
LEMMA SamplesListed ==
    ASSUME RunInv, RootsInv, SelectInv, pc = "keeping", NEW r \in roots, NEW o \in samples[r]
    PROVE  o.item \in comp.files /\ (o.repo => Last(o.item.path) = "HEAD")
<1>1. o.repo = InGit(Rel(r, o.item.path)) /\ o.item \in Objects(r)
  BY DEF SelectInv, SampledInv, WellChosen, ItemsOf
<1>2. o.item \in comp.files /\ r \in Seq(STRING) /\ o.item.path \in Seq(STRING)
  BY <1>1, RootsKnown
<1>3. ASSUME o.repo PROVE Last(o.item.path) = "HEAD"
  <2>1. IsPrefix(r, o.item.path) /\ IsHead(Rel(r, o.item.path))
    BY <1>1, <1>3 DEF Objects, Under
  <2>2. QED
    BY <1>2, <2>1, HeadPath DEF HeadAt, Last
<1>4. QED
  BY <1>2, <1>3

(* What is on the disk after n steps of the restore.                         *)
Filled(n) ==
    [work   |-> IF n \in 1 .. 2 THEN CoreBytes ELSE 0,
     tar    |-> IF n \in 2 .. 6 THEN CoreBytes ELSE 0,
     tmp    |-> IF n \in 4 .. 5 THEN CoreBytes ELSE 0,
     core   |-> IF n >= 5 THEN CoreBytes + DumpBytes ELSE 0,
     staged |-> IF n \in 8 .. 9 THEN PayloadBytes ELSE 0,
     placed |-> IF n >= 9 THEN PayloadBytes ELSE 0]

(* The server of a restore is one that was offered for what was required,    *)
(* and holds what the steps have left on it.                                 *)
DiskInv ==
    /\ order \in Settings[comp]
    /\ stage \in Later => pc = "keeping"
    /\ DOMAIN keep = IF pc = "keeping" THEN roots ELSE {}
    /\ stage \notin {"restoring", "ended"} => used = Empty
    /\ stage = "restoring" =>
         /\ server \in Offers(Required)
         /\ step \in (IF comp.kind = "system_data" THEN 7 ELSE 0) .. LastStep
         /\ used = Filled(step)

LEMMA FilledFirst == Filled(0) = Empty /\ (comp.kind = "system_data" => Filled(7) = Empty)
BY DEF Filled, Empty, CoreBytes, DumpBytes

LEMMA FilledNext ==
    ASSUME NEW n \in Nat, n + 1 <= 10, comp.kind = "system_data" => n >= 7
    PROVE  AfterStep(n + 1, Filled(n)) = Filled(n + 1)
<1>1. CASE comp.kind = "system_data"
  <2>1. n \in {7, 8, 9} /\ CoreBytes = 0 /\ DumpBytes = 0
    BY <1>1 DEF CoreBytes, DumpBytes
  <2>2. CASE n = 7
    BY <2>1, <2>2 DEF Filled, AfterStep, PayloadBytes
  <2>3. CASE n = 8
    BY <2>1, <2>3 DEF Filled, AfterStep, PayloadBytes
  <2>4. CASE n = 9
    BY <2>1, <2>4 DEF Filled, AfterStep, PayloadBytes
  <2>5. QED
    BY <2>1, <2>2, <2>3, <2>4
<1>2. CASE comp.kind # "system_data"
  <2>1. CoreBytes = Size(CoreFiles) /\ DumpBytes = Size(Dumps(listing, roots))
    BY <1>2 DEF CoreBytes, DumpBytes
  <2>2. n \in {0, 1, 2, 3, 4, 5, 6, 7, 8, 9}
    OBVIOUS
  <2>3. CASE n = 0
    BY <2>1, <2>3 DEF Filled, AfterStep, PayloadBytes
  <2>4. CASE n = 1
    BY <2>1, <2>4 DEF Filled, AfterStep, PayloadBytes
  <2>5. CASE n = 2
    BY <2>1, <2>5 DEF Filled, AfterStep, PayloadBytes
  <2>6. CASE n = 3
    BY <2>1, <2>6 DEF Filled, AfterStep, PayloadBytes
  <2>7. CASE n = 4
    BY <2>1, <2>7 DEF Filled, AfterStep, PayloadBytes
  <2>8. CASE n = 5
    BY <2>1, <2>8 DEF Filled, AfterStep, PayloadBytes
  <2>9. CASE n = 6
    BY <2>1, <2>9 DEF Filled, AfterStep, PayloadBytes
  <2>10. CASE n = 7
    BY <2>1, <2>10 DEF Filled, AfterStep, PayloadBytes
  <2>11. CASE n = 8
    BY <2>1, <2>11 DEF Filled, AfterStep, PayloadBytes
  <2>12. CASE n = 9
    BY <2>1, <2>12 DEF Filled, AfterStep, PayloadBytes
  <2>13. QED
    BY <2>2, <2>3, <2>4, <2>5, <2>6, <2>7, <2>8, <2>9, <2>10, <2>11, <2>12
<1>3. QED
  BY <1>1, <1>2

(* What is required and what is restored depend on what was selected.        *)
LEMMA DiskKept ==
    ASSUME UNCHANGED <<comp, listing, roots, keep, samples, order>>
    PROVE  /\ Offers(Required)' = Offers(Required) /\ LastStep' = LastStep
           /\ CoreBytes' = CoreBytes /\ DumpBytes' = DumpBytes /\ PayloadBytes' = PayloadBytes
<1>1. KeptBytes' = KeptBytes /\ SampledBytes' = SampledBytes
  BY DEF KeptBytes, SampledBytes, SampledSize
<1>2. Planned(comp)' <=> Planned(comp)
  BY DEF Planned, Named, Banned, All
<1>3. Dumps(listing, roots)' = Dumps(listing, roots) /\ CoreSize(listing, roots)' = CoreSize(listing, roots)
      /\ LargeSize(listing, roots)' = LargeSize(listing, roots)
  OBVIOUS
<1>4. DiskEstimate' = DiskEstimate
  BY <1>1, <1>2, <1>3 DEF DiskEstimate
<1>5. Required' = Required
  BY <1>4 DEF Required
<1>6. Offers(Required)' = Offers(Required)
  BY <1>5 DEF Offers, ChosenSize, NeedsVolume, VolumeGb
<1>7. LastStep' = LastStep
  BY DEF LastStep
<1>8. CoreFiles' = CoreFiles /\ PayloadFiles' = PayloadFiles
  BY DEF CoreFiles, PayloadFiles
<1>9. QED
  BY <1>3, <1>6, <1>7, <1>8 DEF CoreBytes, DumpBytes, PayloadBytes

LEMMA DiskInit == Init => DiskInv
BY DEF Init, SelectionInit, DiskInv, Later

LEMMA DiskNext == RunInv /\ RootsInv /\ DiskInv /\ [Next]_vars => DiskInv'
<1> SUFFICES ASSUME RunInv, RootsInv, DiskInv, [Next]_vars PROVE DiskInv'
  OBVIOUS
<1> USE DEF Later
<1>1. CASE BorgStep \/ ReadLayout \/ ListArchive \/ GiveUp \/ StartChecks \/ Check \/ Checked
           \/ StartDryRun \/ EndDryRun \/ Breaks \/ Restored
  <2>1. /\ UNCHANGED <<pc, keep, roots, order, comp, used>>
        /\ stage' \in Later => stage \in Later
        /\ stage' \notin {"restoring", "ended"} => stage \notin {"restoring", "ended"}
    BY <1>1 DEF BorgStep, ReadLayout, ListArchive, GiveUp, StartChecks, Check, Checked, StartDryRun,
                EndDryRun, Breaks, Restored, selectionVars, planVars, serverVars
  <2>2. stage' = "restoring" => UNCHANGED <<stage, listing, samples, server, step>>
    <3>1. SUFFICES ASSUME stage' = "restoring" PROVE UNCHANGED <<stage, listing, samples, server, step>>
      OBVIOUS
    <3>2. BorgStep
      BY <1>1, <3>1 DEF ReadLayout, ListArchive, GiveUp, StartChecks, Check, Checked, StartDryRun,
                        EndDryRun, Breaks, Restored
    <3>3. UNCHANGED <<stage, samples, server, step>> /\ B!ClientStep
      BY <3>2 DEF BorgStep, selectionVars, planVars, serverVars
    <3>4. client # "reading"
      BY <3>1, <3>3 DEF RunInv, StageInv
    <3>5. listing' = listing
      BY <3>3, <3>4 DEF B!ClientStep, B!Returns, B!BorgEnds, B!Again, B!BorgComplains, B!EndOfListing,
                  B!WriteFails, B!BorgWrites, B!ReadsLine, B!listVars, RunInv, ClientInv, Alone
    <3>6. QED
      BY <3>3, <3>5
  <2>3. ASSUME stage' = "restoring"
        PROVE  /\ server' \in Offers(Required)' /\ used' = Filled(step)'
               /\ step' \in (IF comp'.kind = "system_data" THEN 7 ELSE 0) .. LastStep'
    <3>1. UNCHANGED <<comp, listing, roots, keep, samples, order, server, step, used>> /\ stage = "restoring"
      BY <2>1, <2>2, <2>3
    <3>2. /\ Offers(Required)' = Offers(Required)
          /\ UNCHANGED <<LastStep, CoreBytes, DumpBytes, PayloadBytes>>
      BY <3>1, DiskKept
    <3>3. Filled(step)' = Filled(step)
      BY <3>1, <3>2 DEF Filled
    <3>4. QED
      BY <3>1, <3>2, <3>3 DEF DiskInv
  <2>4. (stage \in Later => pc = "keeping")'
    BY <2>1 DEF DiskInv
  <2>5. QED
    BY <2>1, <2>3, <2>4 DEF DiskInv
<1>2. CASE SkipListing
  <2>1. /\ pc' = "keeping" /\ UNCHANGED <<keep, roots, order, comp, used>> /\ stage = "layout"
        /\ stage' = "inspected"
    BY <1>2 DEF SkipListing, serverVars
  <2>2. roots = {} /\ DOMAIN keep = {}
    BY <2>1 DEF RootsInv, DiskInv, Early
  <2>3. QED
    BY <2>1, <2>2 DEF DiskInv
<1>3. CASE Select
  <2>1. stage = "listing" /\ UNCHANGED <<stage, order, comp, used>>
    BY <1>3, SelectionFrame DEF Select, planVars, serverVars
  <2>2. DOMAIN keep' = IF pc' = "keeping" THEN roots' ELSE {}
    <3>1. CASE Discover
      BY <3>1 DEF Discover, DiskInv
    <3>2. CASE Merge
      BY <3>2 DEF Merge
    <3>3. ASSUME NEW i \in todo, Sample(i) PROVE DOMAIN keep' = IF pc' = "keeping" THEN roots' ELSE {}
      <4>1. pc' = pc /\ roots' = roots /\ keep' = keep
        BY <3>3, Zenon DEF Sample
      <4>2. QED
        BY <4>1 DEF DiskInv
    <3>4. ASSUME NEW i \in todo, Keep(i) PROVE DOMAIN keep' = IF pc' = "keeping" THEN roots' ELSE {}
      <4>1. keep' = KeptFile(keep, i) /\ pc' = pc /\ roots' = roots
        BY <3>4, Zenon DEF Keep
      <4>2. QED
        BY <4>1, KeptFileDomain DEF DiskInv
    <3>5. QED
      BY <1>3, <3>1, <3>2, <3>3, <3>4 DEF Select, SelectionStep
  <2>3. QED
    BY <2>1, <2>2 DEF DiskInv
<1>4. CASE Inspected
  <2>1. /\ UNCHANGED <<pc, keep, roots, order, comp, used>> /\ pc = "keeping"
        /\ stage = "listing" /\ stage' = "inspected"
    BY <1>4 DEF Inspected, Selected, selectionVars, serverVars
  <2>2. QED
    BY <2>1 DEF DiskInv
<1>5. CASE Provision
  <2>1. /\ UNCHANGED <<pc, keep, roots, order, comp, used, listing, samples>> /\ stage = "checked"
        /\ stage' \in {"restoring", "ended"} /\ need' = Required
        /\ stage' = "restoring" => server' \in Offers(need')
        /\ step' = IF comp.kind = "system_data" THEN 7 ELSE 0
    <3>1. stage' = "restoring" => server' \in Offers(need')
      BY <1>5 DEF Provision
    <3>2. QED
      BY <1>5, <3>1 DEF Provision, selectionVars, clientVars
  <2>2. used = Empty /\ pc = "keeping"
    BY <2>1 DEF DiskInv
  <2>3. stage' = "restoring" => server' \in Offers(Required)'
    <3>1. Offers(Required)' = Offers(Required)
      BY <2>1, DiskKept
    <3>2. stage' = "restoring" => server' \in Offers(Required)
      <4>1. SUFFICES ASSUME stage' = "restoring" PROVE server' \in Offers(Required)
        OBVIOUS
      <4>2. server' \in Offers(need') /\ need' = Required
        BY <2>1, <4>1
      <4>3. order' = order
        BY <2>1
      <4>4. QED
        BY <1>5, <2>1, <4>1, <4>2 DEF Provision
    <3>3. QED
      BY <3>1, <3>2
  <2>4. (used = Filled(step))'
    <3>1. used' = Empty /\ comp' = comp /\ UNCHANGED <<CoreBytes, DumpBytes, PayloadBytes>>
      BY <2>1, <2>2, DiskKept
    <3>2. Filled(step)' = [Filled(step') EXCEPT !.work = @]
      BY <3>1 DEF Filled
    <3>3. QED
      BY <2>1, <3>1, <3>2, FilledFirst DEF Filled, CoreBytes, DumpBytes, Empty
  <2>5. (step \in (IF comp.kind = "system_data" THEN 7 ELSE 0) .. LastStep)'
    BY <2>1 DEF LastStep
  <2>6. QED
    BY <2>1, <2>2, <2>3, <2>4, <2>5 DEF DiskInv
<1>6. CASE RestoreStep
  <2>1. /\ UNCHANGED <<pc, keep, roots, order, comp, listing, samples, stage, server>>
        /\ stage = "restoring" /\ step < LastStep /\ step' = step + 1 /\ used' = AfterStep(step', used)
    BY <1>6 DEF RestoreStep, selectionVars, clientVars
  <2>2. /\ step \in (IF comp.kind = "system_data" THEN 7 ELSE 0) .. LastStep /\ used = Filled(step)
        /\ server \in Offers(Required) /\ LastStep \in {7, 10}
    BY <2>1 DEF DiskInv, LastStep
  <2>3. used' = Filled(step + 1)
    <3>1. step \in Nat /\ step + 1 <= 10 /\ (comp.kind = "system_data" => step >= 7)
      BY <2>1, <2>2
    <3>2. AfterStep(step + 1, Filled(step)) = Filled(step + 1)
      BY <3>1, FilledNext
    <3>3. QED
      BY <2>1, <2>2, <3>2
  <2>4. /\ UNCHANGED <<CoreBytes, DumpBytes, PayloadBytes, LastStep>>
        /\ Offers(Required)' = Offers(Required)
    BY <2>1, DiskKept
  <2>5. Filled(step)' = Filled(step + 1)
    BY <2>1, <2>4 DEF Filled
  <2>6. QED
    BY <2>1, <2>2, <2>3, <2>4, <2>5 DEF DiskInv
<1>7. CASE UNCHANGED vars
  <2>1. UNCHANGED <<pc, keep, roots, order, comp, listing, samples, stage, server, step, used>>
    BY <1>7 DEF vars, selectionVars, clientVars, planVars, serverVars
  <2>2. QED
    BY <2>1, DiskKept DEF DiskInv, Filled
<1>8. QED
  BY <1>1, <1>2, <1>3, <1>4, <1>5, <1>6, <1>7 DEF Next

(* What a step leaves is within what is required, with the metadata of the   *)
(* repositories in the headroom.                                             *)
LEMMA RequiredCovers ==
    ASSUME Ready, order.mode = "sampled", Planned(comp), 2 * Size(Metadata(listing)) <= Headroom
    PROVE  /\ CoreBytes \in Nat /\ DumpBytes \in Nat /\ PayloadBytes \in Nat /\ Required \in Nat
           /\ BaseDisk + 3 * CoreBytes + DumpBytes + 2 * PayloadBytes <= Required
<1> DEFINE core == CoreSize(listing, roots)
           dumps == Size(Dumps(listing, roots))
           beside == Size(Metadata(listing))
           C == IF comp.kind = "system_data" THEN 0 ELSE CoreDisk(core, KeptBytes, dumps)
           P == IF roots = {} THEN 0 ELSE 25 * SampledBytes
<1>1. BaseDisk \in Nat /\ Headroom \in Nat
  BY PlanningAssumption
<1>2. /\ core \in Nat /\ KeptBytes \in Nat /\ dumps \in Nat /\ Size(CoreFiles) \in Nat
      /\ Size(CoreFiles) <= core + KeptBytes
  BY CoreEstimated
<1>3. /\ SampledBytes \in Nat /\ beside \in Nat /\ PayloadBytes \in Nat
      /\ PayloadBytes <= SampledBytes + beside /\ 2 * beside <= Headroom
  BY PayloadEstimated
<1>4. roots = {} => PayloadBytes = 0
  <2>1. roots = {} => PayloadFiles = {}
    BY DEF PayloadFiles
  <2>2. QED
    BY <2>1, SizeOfNone DEF PayloadBytes
<1>5. DiskEstimate = (10 * (BaseDisk + C) + P) * 115
  BY DEF DiskEstimate
<1>6. CoreBytes \in Nat /\ DumpBytes \in Nat /\ C \in Nat /\ 3 * CoreBytes + DumpBytes <= C
  <2>1. CASE comp.kind = "system_data"
    BY <2>1 DEF CoreBytes, DumpBytes
  <2>2. CASE comp.kind # "system_data"
    <3>1. CoreBytes = Size(CoreFiles) /\ DumpBytes = dumps
      BY <2>2 DEF CoreBytes, DumpBytes
    <3>2. C = (core + KeptBytes) * 3 + dumps * 2
      BY <2>2 DEF CoreDisk
    <3> HIDE DEF C, core, dumps
    <3>3. QED
      BY <1>2, <3>1, <3>2
  <2>3. QED
    BY <2>1, <2>2
<1>7. P \in Nat /\ 20 * PayloadBytes <= P + 10 * Headroom
  <2>1. CASE roots = {}
    BY <1>1, <1>4, <2>1
  <2>2. CASE roots # {}
    <3>1. P = 25 * SampledBytes
      BY <2>2
    <3> HIDE DEF P, beside
    <3>2. QED
      BY <1>1, <1>3, <3>1
  <2>3. QED
    BY <2>1, <2>2
<1> HIDE DEF C, P
<1>8. DiskEstimate \in Nat /\ DiskEstimate >= 1000 * BaseDisk + 1000 * C + 100 * P
  BY <1>1, <1>5, <1>6, <1>7
<1>9. Required \in Nat /\ 1000 * Required >= DiskEstimate + 1000 * Headroom
  BY <1>1, <1>8 DEF Required
<1>10. 1000 * Required >= 1000 * BaseDisk + 1000 * C + 2000 * PayloadBytes
  BY <1>1, <1>3, <1>6, <1>7, <1>8, <1>9
<1>11. QED
  BY <1>1, <1>3, <1>6, <1>9, <1>10

(* A server that is offered has the disk that is required, or a volume that  *)
(* has it but for what the system itself takes.                              *)
LEMMA OffersSuffice ==
    ASSUME order \in Settings[comp], comp \in Components, NEW gb \in Nat, NEW s \in Offers(gb)
    PROVE  /\ s.volume \in Nat /\ s.disk \in Nat
           /\ s.volume > 0 => s.volume >= gb - BaseDisk
           /\ s.volume = 0 /\ ~(order.restore_volume = "never" /\ order.preferred # "auto")
                => s.disk >= gb
<1>1. PICK t \in ChosenSize(IF order.restore_volume = "never" THEN gb ELSE 0) :
        s = [disk |-> t.disk, volume |-> IF NeedsVolume(t, gb) THEN VolumeGb(t, gb) ELSE 0]
  BY DEF Offers
<1>2. VolumeLess \in Nat /\ BaseDisk \in Nat /\ VolumeLess <= BaseDisk /\ VolumeMin \in Nat /\ VolumeMin > 0
  BY PlanningAssumption
<1>3. t \in Sizes /\ t.disk \in Nat
  BY <1>1, PlanningAssumption DEF ChosenSize, Cheapest
<1>4. CASE NeedsVolume(t, gb)
  <2>1. s.volume = Max({gb - VolumeLess, VolumeMin})
    BY <1>1, <1>4 DEF VolumeGb
  <2>2. gb - VolumeLess \in Int /\ VolumeMin \in Int
    BY <1>2
  <2>3. s.volume >= gb - VolumeLess /\ s.volume >= VolumeMin /\ s.volume \in Int
    BY <2>1, <2>2, MaxOfTwo
  <2>4. s.disk = t.disk
    BY <1>1
  <2>5. QED
    BY <1>2, <1>3, <2>3, <2>4
<1>5. CASE ~NeedsVolume(t, gb)
  <2>1. s.volume = 0 /\ s.disk = t.disk
    BY <1>1, <1>5
  <2>2. order.restore_volume \in {"auto", "never"}
    BY <1>5, PlanningAssumption DEF NeedsVolume
  <2>3. CASE order.restore_volume = "auto"
    BY <1>3, <1>5, <2>1, <2>3 DEF NeedsVolume
  <2>4. CASE order.restore_volume = "never" /\ order.preferred = "auto"
    <3>1. t \in Cheapest(gb)
      BY <1>1, <2>4 DEF ChosenSize
    <3>2. QED
      BY <1>3, <2>1, <3>1 DEF Cheapest
  <2>5. QED
    BY <1>3, <2>1, <2>2, <2>3, <2>4
<1>6. QED
  BY <1>4, <1>5

(* Behind the selection all is known that the estimate needs.                *)
LEMMA ReadyBehind ==
    ASSUME RunInv, RootsInv, KeepInv, SelectInv, DiskInv, pc = "keeping"
    PROVE  Ready
<1>1. comp \in Components /\ Sized(listing) /\ (roots # {} => listing = comp.files)
  BY ListingFinite DEF Sized, RootsInv
<1>2. IsFiniteSet(roots) /\ \A r, s \in roots : r # s => Under(listing, r) \cap Under(listing, s) = {}
  <2>1. CASE roots = {}
    BY <2>1, FS_EmptySet
  <2>2. CASE roots # {}
    BY <1>1, <2>2, RootsApart DEF RootsInv
  <2>3. QED
    BY <2>1, <2>2
<1>3. DOMAIN keep = roots
  BY DEF DiskInv
<1>4. \A r \in roots : Costed(listing, keep[r])
  BY <1>1, <1>3 DEF KeepInv
<1>5. KeepPerRoot \in Nat
  BY LargeDataAssumption
<1>6. \A r \in roots : \A o \in samples[r] : o.item \in listing /\ (o.repo => Last(o.item.path) = "HEAD")
  BY <1>1, SamplesListed
<1>7. QED
  BY <1>1, <1>2, <1>3, <1>4, <1>5, <1>6 DEF Ready, Costed

RestoreInv == RunInv /\ RootsInv /\ KeepInv /\ SelectInv /\ DiskInv

LEMMA RestoreInvariant == Spec => []RestoreInv
<1>1. Init => RestoreInv
  BY RunInit, RootsInit, KeepInit, SelectInit, DiskInit DEF RestoreInv
<1>2. RestoreInv /\ [Next]_vars => RestoreInv'
  BY RunNext, RootsNext, KeepNext, SelectNext, DiskNext DEF RestoreInv
<1>3. QED
  BY <1>1, <1>2, PTL DEF Spec

(* While a sample is restored: what was required covers every step of it, and *)
(* was bought as the disk of the server or as a volume.                       *)
LEMMA Bought ==
    ASSUME MetadataFits, RestoreInv, stage = "restoring", order.mode = "sampled"
    PROVE  /\ server.volume \in Nat /\ server.disk \in Nat /\ BaseDisk \in Nat
           /\ OnHome \in Nat /\ used.core \in Nat
           /\ BaseDisk + OnHome <= Required /\ BaseDisk + used.core + OnHome <= Required
           /\ Required \in Nat
           /\ server.volume > 0 => server.volume >= Required - BaseDisk
           /\ server.volume = 0 /\ ~(order.restore_volume = "never" /\ order.preferred # "auto")
                => server.disk >= Required
<1>1. comp \in Components /\ Planned(comp) /\ listing = comp.files
  BY PlannedInScope DEF RestoreInv, RunInv, StageInv, Later
<1>2. Ready
  BY ReadyBehind DEF RestoreInv, DiskInv, Later
<1>3. /\ CoreBytes \in Nat /\ DumpBytes \in Nat /\ PayloadBytes \in Nat /\ Required \in Nat
      /\ BaseDisk + 3 * CoreBytes + DumpBytes + 2 * PayloadBytes <= Required
  BY <1>1, <1>2, RequiredCovers DEF MetadataFits
<1>4. /\ server \in Offers(Required) /\ order \in Settings[comp]
      /\ step \in 0 .. 10 /\ used = Filled(step)
  BY DEF RestoreInv, RunInv, DiskInv, LastStep
<1>5. /\ server.volume \in Nat /\ server.disk \in Nat
      /\ server.volume > 0 => server.volume >= Required - BaseDisk
      /\ server.volume = 0 /\ ~(order.restore_volume = "never" /\ order.preferred # "auto")
           => server.disk >= Required
  BY <1>1, <1>3, <1>4, OffersSuffice
<1>6. /\ OnHome \in Nat /\ OnHome <= 2 * CoreBytes + 2 * PayloadBytes /\ used.core \in Nat
      /\ used.core + OnHome <= 3 * CoreBytes + DumpBytes + 2 * PayloadBytes
  BY <1>3, <1>4 DEF OnHome, Filled
<1>7. BaseDisk \in Nat
  BY PlanningAssumption
<1>8. QED
  BY <1>3, <1>5, <1>6, <1>7

(* In sampled mode no step of the restore fills the disk of a server without  *)
(* a volume, unless it was bought unseen, nor the volume that holds /home, as *)
(* long as the metadata of the repositories fits in the headroom; of the      *)
(* server's own disk beside a volume it says nothing (planner.py:46-62,       *)
(* orchestrator.py:453-473, host_helper.py:462-686, 1073-1103).               *)
THEOREM DiskSuffices ==
    ASSUME MetadataFits
    PROVE  Spec => []DiskNeverFull
<1>1. RestoreInv => DiskNeverFull
  <2> SUFFICES ASSUME RestoreInv, stage = "restoring", order.mode = "sampled"
               PROVE  DiskHolds /\ VolumeHolds
    BY DEF DiskNeverFull
  <2>1. DiskHolds
    BY Bought DEF DiskHolds
  <2>2. VolumeHolds
    BY Bought DEF VolumeHolds
  <2>3. QED
    BY <2>1, <2>2
<1>2. QED
  BY <1>1, RestoreInvariant, PTL

-----------------------------------------------------------------------------
(* Types.                                                                  *)

(* The pipes of a listing.                                                   *)
PipesInv ==
    /\ result \in {"none", "ok", "failed"}
    /\ unsent \subseteq comp.files /\ out \subseteq comp.files
    /\ Cardinality(out) <= OutCapacity /\ err \in 0 .. ErrCapacity

(* The client counts as everyone does.                                       *)
LEMMA SameCount ==
    ASSUME NEW S
    PROVE  B!Cardinality(S) = Cardinality(S)
BY DEF B!Cardinality, Cardinality

LEMMA PipesInit == Init => PipesInv
<1>1. {OutCapacity, ErrCapacity} \subseteq Nat /\ Cardinality({}) = 0
  BY PlanningAssumption, FS_EmptySet
<1>2. QED
  BY <1>1 DEF Init, B!ClientInit, PipesInv

LEMMA PipesKept ==
    ASSUME PipesInv, UNCHANGED <<comp, result, unsent, out, err>>
    PROVE  PipesInv'
BY DEF PipesInv

LEMMA PipesNext == RunInv /\ PipesInv /\ [Next]_vars => PipesInv'
<1> SUFFICES ASSUME RunInv, PipesInv, [Next]_vars PROVE PipesInv'
  OBVIOUS
<1>1. OutCapacity \in Nat /\ ErrCapacity \in Nat /\ Cardinality({}) = 0
  BY PlanningAssumption, FS_EmptySet
<1>2. IsFiniteSet(out)
  <2>1. IsFiniteSet(comp.files) /\ out \subseteq comp.files
    BY ListingFinite DEF PipesInv
  <2>2. QED
    BY <2>1, FS_Subset
<1>3. CASE BorgStep
  <2>1. B!ClientStep /\ comp' = comp
    BY <1>3 DEF BorgStep, selectionVars
  <2>2. ASSUME NEW rc \in ExitCodes, B!Returns(rc) \/ B!BorgEnds(rc) PROVE PipesInv'
    <3>1. /\ \/ result' = result
             \/ result' \in {"ok", "failed"} /\ UNCHANGED <<unsent, out>>
          /\ err' = err \/ (err < ErrCapacity /\ err' = err + 1)
      BY <2>2 DEF B!Returns, B!BorgEnds, B!listVars
    <3>2. unsent' = unsent /\ out' = out
      BY <2>2 DEF B!Returns, B!BorgEnds, B!listVars
    <3>3. QED
      BY <1>1, <2>1, <3>1, <3>2 DEF PipesInv
  <2>3. CASE B!Again \/ B!BorgComplains
    <3>1. /\ UNCHANGED <<result, unsent, out>>
          /\ err' = err \/ (err < ErrCapacity /\ err' = err + 1)
      BY <2>3 DEF B!Again, B!BorgComplains, B!listVars
    <3>2. QED
      BY <1>1, <2>1, <3>1 DEF PipesInv
  <2>4. CASE B!EndOfListing \/ B!WriteFails
    <3>1. /\ result' \in {"ok", "failed"} /\ err' = 0
          /\ unsent' \in {unsent, {}} /\ out' \in {out, {}}
      BY <2>4 DEF B!EndOfListing, B!WriteFails
    <3>2. QED
      BY <1>1, <2>1, <3>1 DEF PipesInv
  <2>5. ASSUME NEW i \in unsent, B!BorgWrites(i) PROVE PipesInv'
    <3>1. /\ Cardinality(out) < OutCapacity /\ UNCHANGED <<result, err>>
          /\ unsent' = unsent \ {i} /\ out' = out \cup {i}
      BY <2>5, SameCount DEF B!BorgWrites
    <3>2. Cardinality(out \cup {i}) <= Cardinality(out) + 1 /\ Cardinality(out) \in Nat
          /\ Cardinality(out \cup {i}) \in Nat
      <4>1. IsFiniteSet(out \cup {i})
            /\ Cardinality(out \cup {i}) = IF i \in out THEN Cardinality(out) ELSE Cardinality(out) + 1
        BY <1>2, FS_AddElement
      <4>2. Cardinality(out) \in Nat
        BY <1>2, FS_CardinalityType
      <4>3. QED
        BY <4>1, <4>2
    <3>3. QED
      BY <1>1, <2>1, <3>1, <3>2 DEF PipesInv
  <2>6. ASSUME NEW i \in out, B!ReadsLine(i) PROVE PipesInv'
    <3>1. UNCHANGED <<result, err, unsent>> /\ out' = out \ {i}
      BY <2>6 DEF B!ReadsLine
    <3>2. Cardinality(out \ {i}) = Cardinality(out) - 1 /\ Cardinality(out) \in Nat
      BY <1>2, FS_RemoveElement, FS_CardinalityType
    <3>3. QED
      BY <1>1, <2>1, <3>1, <3>2 DEF PipesInv
  <2>7. QED
    BY <2>1, <2>2, <2>3, <2>4, <2>5, <2>6 DEF B!ClientStep
<1>4. CASE ListArchive
  <2>1. comp' = comp /\ result' = "none" /\ unsent' = comp.files /\ out' = {} /\ err' = 0
    BY <1>4 DEF ListArchive, B!List, selectionVars
  <2>2. QED
    BY <1>1, <2>1 DEF PipesInv
<1>5. CASE ReadLayout \/ Check \/ StartDryRun
  <2>1. UNCHANGED <<comp, unsent, out, err>> /\ result' \in {"none", result}
    BY <1>5 DEF ReadLayout, Check, StartDryRun, B!Call, B!listVars, clientVars, selectionVars
  <2>2. QED
    BY <2>1 DEF PipesInv
<1>6. CASE \/ SkipListing \/ Select \/ GiveUp \/ Inspected \/ StartChecks \/ Checked \/ EndDryRun
           \/ Provision \/ RestoreStep \/ Breaks \/ Restored \/ UNCHANGED vars
  <2>1. UNCHANGED <<comp, result, unsent, out, err>>
    BY <1>6, SelectionFrame DEF SkipListing, Select, GiveUp, Inspected, StartChecks, Checked, EndDryRun,
       Provision, RestoreStep, Breaks, Restored, vars, clientVars, selectionVars
  <2>2. QED
    BY <2>1, PipesKept
<1>7. QED
  BY <1>3, <1>4, <1>5, <1>6 DEF Next

(* What is required is a number in either mode.                              *)
LEMMA RequiredIsNat ==
    ASSUME Ready
    PROVE  Required \in Nat
<1> DEFINE core == IF comp.kind = "system_data" THEN 0
                   ELSE CoreDisk(CoreSize(listing, roots), KeptBytes, Size(Dumps(listing, roots)))
           payload == IF roots = {} THEN 0
                      ELSE IF order.mode = "full" THEN 12 * LargeSize(listing, roots)
                      ELSE 25 * SampledBytes
<1>1. BaseDisk \in Nat /\ Headroom \in Nat
  BY PlanningAssumption
<1>2. core \in Nat
  <2>1. CoreSize(listing, roots) \in Nat /\ KeptBytes \in Nat /\ Size(Dumps(listing, roots)) \in Nat
    BY CoreEstimated
  <2>2. QED
    BY <2>1 DEF CoreDisk
<1>3. payload \in Nat
  <2>1. LargeSize(listing, roots) \in Nat
    <3> DEFINE large == {i \in listing : IsLarge(roots, i.path)}
    <3>1. /\ Sized(listing) /\ IsFiniteSet(roots)
          /\ \A r, s \in roots : r # s => Under(listing, r) \cap Under(listing, s) = {}
          /\ large = {i \in listing : IsLarge(roots, i.path)}
      BY DEF Ready
    <3>2. LargeSize(listing, roots) = Size(large) /\ CoreSize(listing, roots) = Size(listing \ large)
          /\ Size(large) \in Nat /\ Size(listing \ large) \in Nat
      <4> HIDE DEF large, core, payload
      <4>1. QED
        BY <3>1, CountedApart
    <3>3. QED
      BY <3>2
  <2>2. SampledBytes \in Nat
    <3> DEFINE n == [r \in roots |-> SampledSize(samples[r])]
    <3>1. n \in [roots -> Nat]
      <4>1. ASSUME NEW r \in roots PROVE SampledSize(samples[r]) \in Nat
        <5>1. ItemsOf(samples[r]) \subseteq listing
          BY DEF Ready, ItemsOf
        <5>2. Size(ItemsOf(samples[r])) \in Nat
          BY <5>1, SizeOfPart DEF Ready
        <5>3. QED
          BY <5>2 DEF SampledSize, ItemsOf
      <4>2. QED
        BY <4>1
    <3>2. SampledBytes = Total(n) /\ IsFiniteSet(roots)
      BY DEF SampledBytes, Ready
    <3> HIDE DEF n
    <3>3. Total(n) \in Nat
      BY <3>1, <3>2, TotalIsCount, UnitsFinite
    <3>4. QED
      BY <3>2, <3>3
  <2>3. QED
    BY <2>1, <2>2
<1>4. DiskEstimate = (10 * (BaseDisk + IF Planned(comp) THEN core ELSE 0)
                      + IF Planned(comp) THEN payload ELSE 0) * 115
  BY DEF DiskEstimate
<1> HIDE DEF core, payload
<1>5. DiskEstimate \in Nat
  BY <1>1, <1>2, <1>3, <1>4
<1>6. QED
  BY <1>1, <1>5 DEF Required

DiskTypes == need \in Nat /\ step \in 0 .. 10 /\ used \in [DOMAIN Empty -> Nat]

LEMMA DiskTypesInit == Init => DiskTypes
<1>1. Empty \in [DOMAIN Empty -> Nat]
  BY DEF Empty
<1>2. QED
  BY <1>1 DEF Init, DiskTypes

LEMMA DiskTypesNext ==
    RunInv /\ RootsInv /\ KeepInv /\ SelectInv /\ DiskInv /\ DiskTypes /\ [Next]_vars => DiskTypes'
<1> SUFFICES ASSUME RunInv, RootsInv, KeepInv, SelectInv, DiskInv, DiskTypes, [Next]_vars
             PROVE  DiskTypes'
  OBVIOUS
<1>1. CASE Provision
  <2>1. Ready
    BY <1>1, ReadyBehind DEF Provision, DiskInv, Later
  <2>2. need' = Required /\ step' \in {0, 7} /\ used' = used
    <3>1. UNCHANGED <<comp, listing, roots, keep, samples, order, used>>
      BY <1>1 DEF Provision, clientVars, selectionVars
    <3>2. need' = Required /\ step' \in {0, 7}
      BY <1>1 DEF Provision
    <3>3. QED
      BY <3>1, <3>2
  <2>3. QED
    BY <2>1, <2>2, RequiredIsNat DEF DiskTypes
<1>2. CASE RestoreStep
  <2>1. step < LastStep /\ step' = step + 1 /\ used' = AfterStep(step + 1, used) /\ need' = need
    BY <1>2 DEF RestoreStep
  <2>2. /\ Size(CoreFiles) \in Nat /\ Size(PayloadFiles) \in Nat
        /\ Size(CoreFiles) + Size(Dumps(listing, roots)) \in Nat
    <3>1. Sized(listing)
      BY ListingFinite DEF Sized
    <3>2. CoreFiles \subseteq listing /\ PayloadFiles \subseteq listing /\ Dumps(listing, roots) \subseteq listing
      BY DEF CoreFiles, PayloadFiles, Dumps, Under
    <3>3. QED
      BY <3>1, <3>2, SizeOfPart
  <2>3. AfterStep(step + 1, used) \in [DOMAIN Empty -> Nat]
    <3> DEFINE D == DOMAIN Empty
    <3>1. used \in [D -> Nat] /\ 0 \in Nat
      BY DEF DiskTypes
    <3> HIDE DEF D
    <3>2. QED
      BY <2>2, <3>1 DEF AfterStep, D
  <2>4. step' \in 0 .. 10
    BY <2>1 DEF DiskTypes, LastStep
  <2>5. QED
    BY <2>1, <2>3, <2>4 DEF DiskTypes
<1>3. CASE ~Provision /\ ~RestoreStep
  <2>1. UNCHANGED <<need, step, used>>
    <3>1. CASE BorgStep \/ ReadLayout \/ ListArchive \/ SkipListing \/ GiveUp \/ Select \/ Inspected
      BY <3>1 DEF BorgStep, ReadLayout, ListArchive, SkipListing, GiveUp, Select, Inspected, planVars, serverVars
    <3>2. CASE StartChecks \/ Check \/ Checked \/ StartDryRun \/ EndDryRun
      BY <3>2 DEF StartChecks, Check, Checked, StartDryRun, EndDryRun, serverVars
    <3>3. CASE Breaks \/ Restored \/ UNCHANGED vars
      BY <3>3 DEF Breaks, Restored, vars, planVars, serverVars
    <3>4. QED
      BY <1>3, <3>1, <3>2, <3>3 DEF Next
  <2>2. QED
    BY <2>1 DEF DiskTypes
<1>4. QED
  BY <1>1, <1>2, <1>3

(* Every variable keeps its type; a command is not repeated for ever, no     *)
(* pipe holds more than it can, no heap is larger than the sample.           *)
THEOREM PlanningTypes == Spec => []TypeOK
<1> DEFINE Inv == RunInv /\ RootsInv /\ KeepInv /\ SelectInv /\ DiskInv
<1>1. Init => Inv /\ PipesInv /\ DiskTypes
  BY RunInit, RootsInit, KeepInit, SelectInit, DiskInit, PipesInit, DiskTypesInit
<1>2. Inv /\ PipesInv /\ DiskTypes /\ [Next]_vars => (Inv /\ PipesInv /\ DiskTypes)'
  BY RunNext, RootsNext, KeepNext, SelectNext, DiskNext, PipesNext, DiskTypesNext
<1>3. Inv /\ PipesInv /\ DiskTypes => TypeOK
  <2>1. SUFFICES ASSUME Inv, PipesInv, DiskTypes PROVE TypeOK
    OBVIOUS
  <2>2. \A r \in DOMAIN heaps : \A g \in DOMAIN heaps[r] :
          Cardinality(heaps[r][g]) \in 1 .. SampleSize
    BY <2>1 DEF SelectInv, HeapsInv, Covers
  <2>3. \A e \in Heaped : e.seq \in 1 .. seq
    BY <2>1 DEF Heaped, SelectInv, HeapsInv, Entries
  <2>4. \A r \in DOMAIN samples : Cardinality(samples[r]) <= SampleSize
    BY <2>1 DEF SelectInv, SampledInv
  <2>5. roots \subseteq Dirs(listing) \cup {<<>>}
    BY <2>1, RootsKnown
  <2>6. comp \in Components /\ pc \in {"listed", "sampling", "keeping"} /\ todo \subseteq listing
    BY <2>1 DEF RunInv, SelectInv, KeepInv
  <2>7. SelectionType
    BY <2>2, <2>3, <2>4, <2>5, <2>6 DEF SelectionType
  <2>8. /\ client \in {"idle", "waiting", "sleeping", "reading"} /\ attempt \in 0 .. Retries + 1
        /\ stage \in {"start", "layout", "listing", "inspected", "checks", "checking", "dryrun",
                      "checked", "restoring", "ended"}
    BY <2>1, PlanningAssumption DEF RunInv, ClientInv, Counted, StageInv, Early, Later
  <2>9. QED
    BY <2>1, <2>7, <2>8 DEF TypeOK, PipesInv, DiskTypes
<1>4. QED
  BY <1>1, <1>2, <1>3, PTL DEF Spec
=============================================================================
