-------------------------- MODULE LifecycleProofs --------------------------
(***************************************************************************)
(* Safety of Lifecycle, for any number of runs, servers and volumes, any    *)
(* interleaving and any number of faults: an inductive invariant, the two   *)
(* properties that follow from it, the truth of the report, what the state  *)
(* files say of the cloud, and the refinement of HostLease.                 *)
(***************************************************************************)
EXTENDS LifecycleTypes

(* What the janitor's snapshot d, read at time t, must say of a run whose    *)
(* need is not over for find_stale to leave its resources alone.             *)
SnapProtects(r) ==
    \/ /\ snap[r].status = "absent"
       /\ \A i \in Ids : owner[i] = r => asOf - born[i] <= StaleAfter
    \/ snap[r].status = "running" /\ asOf - snap[r].started < StaleAfter
    \/ snap[r].status = "retained" /\ snap[r].until > asOf

ClockInv ==
    /\ asOf <= now
    /\ \A r \in Runs : Alive(r) => now <= mem[r].started + RunLimit

(* The RunState object of a run follows its stages. *)
MemInv(r) ==
    /\ pc[r] = "idle" => disk[r].status = "absent" /\ r \notin evicted
    /\ pc[r] \in UsingStages \ ClosingStages => mem[r].status = "running"
    /\ pc[r] \in ClosingStages => mem[r].status \in {"running", "interrupted"}
    /\ pc[r] \in ClosingStages /\ mem[r].status = "interrupted" => r \in Interruptible
    /\ pc[r] \in UsingStages \ {"cleanup"} => mem[r].until = 0
    /\ pc[r] = "cleanup" /\ mem[r].status = "interrupted" /\ r \notin Exempt
         => mem[r].until = 0
    /\ pc[r] \in DestroySteps \cup {"verify"} =>
         mem[r].status \in {"running", "interrupted", "finished"}

(* Nobody but the run itself writes its state file while it needs the host. *)
DiskInv(r) ==
    /\ pc[r] \in UsingStages /\ mem[r].status = "running" =>
         disk[r].status = "running" /\ disk[r].started = mem[r].started
    /\ disk[r].status = "retained" => pc[r] \in {"finish"} \cup RunEnds
    /\ pc[r] = "finish" /\ mem[r].status = "retained" /\ r \notin Exempt
         /\ now < mem[r].until => disk[r] = mem[r]

AllLive(s) == \A i \in {s.server, s.volume} \ {None} : st[i] = "live"

HostInv(r) ==
    /\ pc[r] \in UsingStages /\ mem[r].status = "running" => AllLive(mem[r])
    /\ disk[r].status = "retained" /\ now < disk[r].until /\ r \notin Exempt
         => AllLive(disk[r])

RunInv ==
    /\ \A r \in Runs : MemInv(r)
    /\ \A r \in Runs \ evicted : DiskInv(r) /\ HostInv(r)

(* The janitor only works on runs whose need is over. *)
JanitorInv ==
    /\ \A r \in todo :
         /\ snap[r].until <= asOf
         /\ r \notin evicted => Over(r) /\ pc[r] \in {"finish"} \cup RunEnds
    /\ pc[Janitor] \in DestroySteps =>
         LET r == mem[Janitor].run
         IN  /\ mem[Janitor].until <= asOf
             /\ r \notin evicted => Over(r) /\ pc[r] \in {"finish"} \cup RunEnds
    /\ pc[Janitor] = "list" => \A r \in Runs \ evicted : Over(r) \/ SnapProtects(r)
    /\ \A i \in reap : owner[i] \in Runs /\ (owner[i] \notin evicted => Over(owner[i]))
    /\ pc[Operator] \in DestroySteps => mem[Operator].run \in evicted

IInv ==
    TypeOK /\ Labelled /\ OwnInv /\ ClockInv /\ RunInv /\ JanitorInv

-----------------------------------------------------------------------------
(* Every step keeps MemInv.                                                 *)
LEMMA MemKept ==
  ASSUME IInv, Next, NEW r \in Runs
  PROVE  MemInv(r)'
<1> USE DEF EarlyStages, HostStages, ClosingStages, UsingStages, DestroySteps, RunEnds
<1>a. TypeOK /\ Labelled /\ OwnInv /\ MemInv(r) /\ mem[r].run = r
  BY DEF IInv, OwnInv, RunInv
<1>b. r \in Actors /\ r # Janitor /\ r # Operator
  BY ActorsDiffer DEF Actors
<1>c. r \in evicted' => r \in evicted \/ disk[r].status # "absent"
  BY <1>a, ClockSteps
<1>1. CASE RunStep(r)
  <2>1. pc'[r] # "idle"
    BY <1>1, <1>a, RunEffect DEF Alive
  <2>2. /\ pc'[r] \in UsingStages \ ClosingStages => mem'[r].status = "running"
        /\ pc'[r] \in UsingStages \ {"cleanup"} => mem'[r].until = 0
    BY <1>1, <1>a, RunEffect DEF MemInv, Alive
  <2>3. /\ pc'[r] \in ClosingStages => mem'[r].status \in {"running", "interrupted"}
        /\ pc'[r] \in ClosingStages /\ mem'[r].status = "interrupted" => r \in Interruptible
    BY <1>1, <1>a, RunEffect DEF MemInv, Alive
  <2>4. pc'[r] = "cleanup" /\ mem'[r].status = "interrupted" /\ r \notin Exempt
         => mem'[r].until = 0
    BY <1>1, <1>a, RunEffect DEF MemInv, Alive, Exempt
  <2>5. pc'[r] \in DestroySteps \cup {"verify"} =>
         mem'[r].status \in {"running", "interrupted", "finished"}
    BY <1>1, <1>a, RunEffect DEF MemInv, Alive
  <2>6. QED
    BY <2>1, <2>2, <2>3, <2>4, <2>5 DEF MemInv
<1>2. CASE DestroyRun(r)
  <2>1. /\ pc[r] \in DestroySteps
        /\ pc'[r] \in DestroySteps \cup {"verify", "finish"}
        /\ \/ mem'[r].status = mem[r].status
           \/ DestroyResult(mem'[r], mem[r])
    BY <1>2, <1>a, <1>b, DestroyFrame
  <2>2. QED
    BY <2>1, <1>a DEF MemInv, DestroyResult
<1>3. CASE OthersStep(r)
  <2>1. pc'[r] = pc[r] /\ mem'[r] = mem[r]
    BY <1>3 DEF OthersStep
  <2>2. ASSUME pc[r] = "idle" PROVE disk'[r].status = "absent" /\ r \notin evicted'
    <3>1. disk[r].status = "absent" /\ r \notin evicted
      BY <2>2, <1>a DEF MemInv
    <3>2. \A i \in reap : owner[i] # r
      BY <2>2 DEF IInv, OwnInv, TypeOK
    <3>3. \A a \in {Janitor, Operator} : pc[a] \in DestroySteps => mem[a].run # r
      BY <2>2, <3>1 DEF IInv, JanitorInv, Over
    <3>4. disk'[r] = disk[r]
      BY <1>3, <3>1, <3>2, <3>3 DEF OthersStep
    <3>5. QED
      BY <3>1, <3>4, <1>c
  <2>3. QED
    BY <2>1, <2>2, <1>a DEF MemInv
<1>4. QED
  BY <1>1, <1>2, <1>3, <1>a, StepsOfARun DEF IInv

(* The types the arithmetic of the proofs needs. *)
LEMMA Numbers ==
  ASSUME TypeOK
  PROVE  /\ now \in Nat /\ asOf \in Nat
         /\ \A r \in Runs : /\ mem[r].until \in Nat /\ mem[r].started \in Nat
                            /\ disk[r].until \in Nat /\ disk[r].started \in Nat
                            /\ snap[r].until \in Nat /\ snap[r].started \in Nat
         /\ \A a \in Actors : mem[a].until \in Nat
         /\ \A i \in Ids : born[i] \in Nat
<1>1. Runs \subseteq Actors
  BY DEF Actors
<1>2. QED
  BY <1>1, Fields DEF TypeOK

(* What the other processes do to the state file of a run that is not        *)
(* evicted: they prune it when it needs nothing, or write it when its need   *)
(* is over, never as a promise that still holds.                             *)
LEMMA OthersSpare ==
  ASSUME IInv, NEW r \in Runs \ evicted, OthersStep(r)
  PROVE  \/ disk'[r] = disk[r]
         \/ /\ disk'[r].status = "absent"
            /\ disk[r].status \notin {"absent", "running", "retained"}
         \/ /\ Over(r)
            /\ disk'[r].status = "retained" =>
                 \/ disk'[r].until <= now /\ pc[r] \in {"finish"} \cup RunEnds
                 \/ disk[r].status = "retained" /\ disk'[r].until = disk[r].until
<1>a. TypeOK /\ OwnInv /\ JanitorInv /\ asOf <= now
  BY DEF IInv, ClockInv
<1>b. /\ now \in Nat /\ asOf \in Nat /\ disk[r].until \in Nat
      /\ disk[r] \in RunState /\ \A a \in Actors : mem[a].until \in Nat
  BY <1>a, Numbers DEF TypeOK
<1>1. CASE disk'[r] = NoState(r) /\ disk[r].status \notin {"absent", "running", "retained"}
  BY <1>1, NoStateFields
<1>2. ASSUME NEW i \in reap, owner[i] = r, disk'[r] = Forgotten(disk[r], i)
      PROVE  /\ Over(r)
             /\ disk'[r].status = "retained" => disk[r].status = "retained"
             /\ disk'[r].until = disk[r].until
  <2>1. i \in Ids
    BY <1>a DEF TypeOK
  <2>2. Over(r)
    BY <1>2, <1>a DEF JanitorInv
  <2>3. QED
    BY <2>1, <2>2, <1>2, <1>b, ForgottenFields
<1>3. ASSUME NEW a \in {Janitor, Operator}, pc[a] \in DestroySteps, mem[a].run = r,
             DestroyResult(disk'[r], mem[a])
      PROVE  /\ Over(r) /\ pc[r] \in {"finish"} \cup RunEnds
             /\ disk'[r].until <= now
  <2>1. a = Janitor
    BY <1>3, <1>a DEF JanitorInv
  <2>2. Over(r) /\ pc[r] \in {"finish"} \cup RunEnds /\ mem[a].until <= asOf
    BY <2>1, <1>3, <1>a DEF JanitorInv
  <2>3. mem[a].until \in Nat
    BY <2>1, <1>b DEF Actors
  <2>4. disk'[r].until <= now
    BY <2>2, <2>3, <1>3, <1>a, <1>b DEF DestroyResult
  <2>5. QED
    BY <2>2, <2>4
<1>4. QED
  BY <1>1, <1>2, <1>3 DEF OthersStep

(* The need of a run that is over stays over, as long as nobody types        *)
(* `destroy`.                                                                *)
LEMMA OverStable ==
  ASSUME IInv, Next, NEW r \in Runs, r \notin evicted', Over(r)
  PROVE  Over(r)'
<1> USE DEF EarlyStages, HostStages, ClosingStages, DestroySteps, RunEnds
<1>a. TypeOK /\ Labelled /\ OwnInv /\ mem[r].run = r /\ MemInv(r)
  BY DEF IInv, OwnInv, RunInv
<1>b. r \notin evicted /\ (now' = now \/ now' = now + 1)
  BY <1>a, ClockSteps
<1>c. DiskInv(r) /\ r \in Actors /\ r # Janitor /\ r # Operator
  BY <1>b, ActorsDiffer DEF IInv, RunInv, Actors
<1>d. now \in Nat /\ mem[r].until \in Nat /\ disk[r].until \in Nat
  BY <1>a, Numbers
<1>1. CASE RunStep(r)
  <2>1. /\ pc'[r] \notin {"idle"} \cup EarlyStages \cup HostStages
        /\ pc'[r] \in ClosingStages => mem'[r].status = "interrupted"
    BY <1>1, <1>a, RunEffect DEF Over, Alive
  <2>2. ASSUME r \notin Exempt, disk'[r].status = "retained" PROVE disk'[r].until <= now
    BY <2>2, <1>1, <1>a, <1>c, <1>d, RunEffect DEF Over, Alive, MemInv, DiskInv
  <2>3. ASSUME r \notin Exempt, pc'[r] = "finish", mem'[r].status = "retained"
        PROVE  mem'[r].until <= now
    BY <2>3, <1>1, <1>a, <1>c, <1>d, RunEffect DEF Over, Alive, MemInv, DiskInv
  <2>4. now' = now
    BY <1>1, <1>a, RunFrame
  <2>5. QED
    BY <2>1, <2>2, <2>3, <2>4 DEF Over
<1>2. CASE DestroyRun(r)
  <2>1. /\ pc[r] \in DestroySteps
        /\ pc'[r] \in DestroySteps \cup {"verify", "finish"}
        /\ disk' = disk \/ DestroyResult(disk'[r], mem[r])
        /\ mem'[r].status = mem[r].status \/ DestroyResult(mem'[r], mem[r])
    BY <1>2, <1>a, <1>c, DestroyFrame
  <2>2. disk'[r].status # "retained" /\ mem'[r].status # "retained"
    BY <2>1, <1>a, <1>c DEF MemInv, DiskInv, DestroyResult
  <2>3. QED
    BY <2>1, <2>2 DEF Over
<1>3. CASE OthersStep(r)
  <2>1. pc'[r] = pc[r] /\ mem'[r] = mem[r]
    BY <1>3 DEF OthersStep
  <2>2. ASSUME r \notin Exempt, disk'[r].status = "retained"
        PROVE  disk'[r].until <= now
    BY <2>2, <1>3, <1>b, OthersSpare DEF Over
  <2>3. disk'[r].until \in Nat
    <3>1. TypeOK'
      BY <1>a, TypeNext DEF TypeInv
    <3>2. disk'[r] \in RunState
      BY <3>1 DEF TypeOK
    <3>3. QED
      BY <3>2, Fields
  <2>4. QED
    BY <2>1, <2>2, <2>3, <1>b, <1>d DEF Over
<1>4. QED
  BY <1>1, <1>2, <1>3, <1>a, StepsOfARun

(* Every step keeps DiskInv.                                                *)
LEMMA DiskKept ==
  ASSUME IInv, Next, NEW r \in Runs, r \notin evicted'
  PROVE  DiskInv(r)'
<1> USE DEF EarlyStages, HostStages, ClosingStages, UsingStages, DestroySteps, RunEnds
<1>a. TypeOK /\ Labelled /\ OwnInv /\ mem[r].run = r /\ MemInv(r)
  BY DEF IInv, OwnInv, RunInv
<1>b. r \notin evicted /\ (now' = now \/ now' = now + 1)
  BY <1>a, ClockSteps
<1>c. DiskInv(r) /\ r \in Actors /\ r # Janitor /\ r # Operator
  BY <1>b, ActorsDiffer DEF IInv, RunInv, Actors
<1>d. now \in Nat /\ mem[r].until \in Nat /\ disk[r].until \in Nat
  BY <1>a, Numbers
<1>1. CASE RunStep(r)
  <2>1. ASSUME pc'[r] \in UsingStages, mem'[r].status = "running"
        PROVE  disk'[r].status = "running" /\ disk'[r].started = mem'[r].started
    BY <2>1, <1>1, <1>a, <1>c, RunEffect DEF MemInv, DiskInv, Alive
  <2>2. ASSUME disk'[r].status = "retained"
        PROVE  pc'[r] \in {"finish"} \cup RunEnds
    BY <2>2, <1>1, <1>a, <1>c, RunEffect DEF MemInv, DiskInv, Alive
  <2>3. ASSUME pc'[r] = "finish", mem'[r].status = "retained"
        PROVE  disk'[r] = mem'[r]
    BY <2>3, <1>1, <1>a, <1>c, RunEffect DEF MemInv, DiskInv, Alive
  <2>4. QED
    BY <2>1, <2>2, <2>3 DEF DiskInv
<1>2. CASE DestroyRun(r)
  <2>1. /\ pc[r] \in DestroySteps
        /\ pc'[r] \in DestroySteps \cup {"verify", "finish"}
        /\ disk' = disk \/ DestroyResult(disk'[r], mem[r])
        /\ mem'[r].status = mem[r].status \/ DestroyResult(mem'[r], mem[r])
    BY <1>2, <1>a, <1>c, DestroyFrame
  <2>2. disk'[r].status # "retained" /\ mem'[r].status # "retained"
    BY <2>1, <1>a, <1>c DEF MemInv, DiskInv, DestroyResult
  <2>3. QED
    BY <2>1, <2>2 DEF DiskInv
<1>3. CASE OthersStep(r)
  <2>1. pc'[r] = pc[r] /\ mem'[r] = mem[r]
    BY <1>3 DEF OthersStep
  <2>2. CASE disk'[r] = disk[r]
    BY <2>1, <2>2, <1>b, <1>c, <1>d DEF DiskInv
  <2>3. CASE disk'[r].status = "absent" /\ disk[r].status \notin {"absent", "running", "retained"}
    BY <2>1, <2>3, <1>b, <1>c, <1>d DEF DiskInv
  <2>4. CASE Over(r)
    <3>1. ~(pc[r] \in UsingStages /\ mem[r].status = "running")
      BY <2>4 DEF Over
    <3>2. disk'[r].status = "retained" => pc[r] \in {"finish"} \cup RunEnds
      BY <1>3, <1>b, <1>c, OthersSpare DEF DiskInv
    <3>3. pc[r] = "finish" /\ mem[r].status = "retained" /\ r \notin Exempt => mem[r].until <= now
      BY <2>4 DEF Over
    <3>4. ~(pc[r] = "finish" /\ mem[r].status = "retained" /\ r \notin Exempt /\ now' < mem[r].until)
      BY <3>3, <1>b, <1>d
    <3>5. QED
      BY <2>1, <3>1, <3>2, <3>4 DEF DiskInv
  <2>5. QED
    BY <2>2, <2>3, <2>4, <1>3, <1>b, OthersSpare
<1>4. QED
  BY <1>1, <1>2, <1>3, <1>a, StepsOfARun

(* Every step keeps OwnInv: no state object ever names a resource of        *)
(* another run.                                                             *)
LEMMA OwnKept ==
  ASSUME TypeInv, OwnInv, Next
  PROVE  OwnInv'
<1>a. TypeOK /\ Labelled /\ OwnInv /\ TypeOK'
  BY TypeNext DEF TypeInv
<1>b. /\ \A q \in Runs : mem[q].run = q /\ disk[q].run = q /\ snap[q].run = q
      /\ Runs \subseteq Actors /\ Janitor \in Actors /\ Operator \in Actors
  BY <1>a DEF OwnInv, Actors
<1>c. disk \in [Runs -> RunState] /\ mem \in [Actors -> RunState] /\ snap \in [Runs -> RunState]
  BY <1>a DEF TypeOK
<1>d. \A a \in Actors : mem[a].run \in Runs
  BY <1>c, Fields
(* A resource keeps its label, and is never unused again. *)
<1>1. \A i \in Ids, q \in Runs : owner[i] = q => owner'[i] = q /\ st'[i] # "unused"
  <2>0. \A i \in Ids, q \in Runs : owner[i] = q => st[i] # "unused"
    BY <1>a, NoneDiffers DEF OwnInv
  <2>t. st \in [Ids -> {"unused", "live", "deleting", "gone"}]
    BY <1>a DEF TypeOK
  <2>1. CASE UNCHANGED cloudVars
    BY <2>1, <2>0, NoneDiffers DEF cloudVars
  <2>2. CASE \E q \in Runs, got, extra \in Unused(Ids) \cup {None} : Create(q, got, extra)
    BY <2>2, <2>0, NoneDiffers DEF Create, Unused
  <2>3. CASE UNCHANGED owner /\ \E i, account : Delete(i, account)
    BY <2>3, <2>0, <2>t DEF Delete
  <2>4. CASE \E i \in Ids : ProviderRemoves(i)
    BY <2>4, <2>0, <2>t DEF ProviderRemoves
  <2>5. QED
    BY <2>1, <2>2, <2>3, <2>4, CloudSteps DEF Unused, Ids
<1>2. \A i \in Ids : st'[i] = "unused" <=> owner'[i] = None
  <2>0. \A i \in Ids : st[i] = "unused" <=> owner[i] = None
    BY <1>a DEF OwnInv
  <2>t. st \in [Ids -> {"unused", "live", "deleting", "gone"}]
    BY <1>a DEF TypeOK
  <2>1. CASE UNCHANGED cloudVars
    BY <2>1, <2>0 DEF cloudVars
  <2>2. CASE \E q \in Runs, got, extra \in Unused(Ids) \cup {None} : Create(q, got, extra)
    BY <2>2, <2>0, NoneDiffers DEF Create, Unused
  <2>3. CASE UNCHANGED owner /\ \E i, account : Delete(i, account)
    BY <2>3, <2>0, <2>t DEF Delete, Exists
  <2>4. CASE \E i \in Ids : ProviderRemoves(i)
    BY <2>4, <2>0, <2>t DEF ProviderRemoves
  <2>5. QED
    BY <2>1, <2>2, <2>3, <2>4, CloudSteps DEF Unused, Ids
<1>3. \A i \in Ids, q \in Runs : owner'[i] = q => owner[i] = q \/ pc[q] \in {"provision", "volume"}
  <2>1. CASE UNCHANGED owner
    BY <2>1
  <2>2. CASE \E q \in Runs, got, extra \in Unused(Ids) \cup {None} :
               pc[q] \in {"provision", "volume"} /\ Create(q, got, extra)
    BY <2>2, NoneDiffers DEF Create, Unused
  <2>3. QED
    BY <2>1, <2>2, CloudSteps DEF Unused, Ids, cloudVars, ProviderRemoves
<1>4. \A q \in Runs : pc[q] # "idle" => pc'[q] # "idle"
  <2>. TAKE q \in Runs
  <2>0. q \in Actors /\ q # Janitor /\ q # Operator /\ mem[q].run = q
    BY <1>b, ActorsDiffer
  <2>1. CASE RunStep(q)
    BY <2>0, <2>1, <1>a, RunEffect DEF Alive, EarlyStages, HostStages
  <2>2. CASE DestroyRun(q)
    BY <2>0, <2>2, <1>a, DestroyFrame DEF DestroySteps
  <2>3. CASE OthersStep(q)
    BY <2>3 DEF OthersStep
  <2>4. QED
    BY <2>1, <2>2, <2>3, <1>a, StepsOfARun
<1>5. \A i \in Ids, q \in Runs : owner'[i] = q => pc'[q] # "idle"
  BY <1>3, <1>4, <1>a DEF OwnInv
(* A state object whose ids all belong to its run still owns them. *)
<1>6. ASSUME NEW t, t.run \in Runs,
             \A i \in IdsOf(t) : i \in Ids /\ (owner[i] = t.run \/ (owner'[i] = t.run /\ st'[i] = "live"))
      PROVE  \A i \in IdsOf(t) : owner'[i] = t.run /\ st'[i] # "unused"
  BY <1>6, <1>1
<1>7. ASSUME NEW s \in RunState, Owns(s)
      PROVE  \A i \in IdsOf(s) : i \in Ids /\ owner[i] = s.run
  BY <1>7, Fields DEF Owns, IdsOf, Ids
<1>8. \A q \in Runs : mem'[q].run = q /\ disk'[q].run = q
  <2>. TAKE q \in Runs
  <2>0. q \in Actors /\ q # Janitor /\ q # Operator /\ mem[q].run = q /\ disk[q].run = q
    BY <1>b, ActorsDiffer
  <2>1. CASE RunStep(q)
    BY <2>0, <2>1, <1>a, RunEffect
  <2>2. CASE DestroyRun(q)
    BY <2>0, <2>2, <1>a, DestroyFrame DEF DestroyResult
  <2>3. CASE OthersStep(q)
    <3>1. \A i \in reap : Forgotten(disk[q], i).run = q
      <4>1. reap \subseteq Ids
        BY <1>a DEF TypeOK
      <4>2. disk[q] \in RunState
        BY <1>c
      <4>3. QED
        BY <2>0, <4>1, <4>2, ForgottenFields
    <3>2. QED
      BY <2>0, <2>3, <3>1, NoStateFields DEF OthersStep, DestroyResult
  <2>4. QED
    BY <2>1, <2>2, <2>3, <1>a, StepsOfARun
<1>9. \A q \in Runs : snap'[q] \in {snap[q], disk[q], NoState(q)}
  <2>. TAKE q \in Runs
  <2>1. CASE \E r \in Runs : RunStep(r)
    BY <2>1, <1>a, <1>b, RunFrame
  <2>2. CASE \E a \in Actors : DestroyRun(a)
    BY <2>2, <1>a, <1>d, DestroyFrame
  <2>3. CASE JanitorStep
    BY <2>3 DEF JanitorStep, JanitorWakes, JanitorLists, JanitorFinds, JanitorDone,
         JanitorStops, JanitorExpires, JanitorReaps, JanitorRests
  <2>4. CASE OperatorStep \/ (\E i \in Ids : ProviderRemoves(i)) \/ Tick
    BY <2>4, <1>a, OthersFrame
  <2>5. QED
    BY <2>1, <2>2, <2>3, <2>4 DEF Next
<1>10. \A a \in Actors : Owns(mem[a])'
  <2>. TAKE a \in Actors
  <2>0. mem[a] \in RunState /\ Owns(mem[a]) /\ mem[a].run \in Runs
    BY <1>a, <1>c, <1>d DEF OwnInv
  <2>1. CASE mem'[a] = mem[a]
    BY <2>0, <2>1, <1>6, <1>7 DEF Owns, IdsOf
  <2>2. CASE \E q : mem'[a] = NoState(q)
    BY <2>2, NoStateFields DEF Owns
  <2>3. CASE a \in Runs /\ RunStep(a)
    <3>1. mem[a].run = a /\ mem'[a].run = a
      BY <2>3, <1>b, <1>8
    <3>2. \A i \in IdsOf(mem'[a]) :
            i \in IdsOf(mem[a]) \/ (i \in Ids /\ owner'[i] = a /\ st'[i] = "live")
      BY <2>3, <3>1, <1>a, RunIds
    <3>3. \A i \in IdsOf(mem'[a]) : owner'[i] = mem'[a].run /\ st'[i] # "unused"
      BY <2>0, <2>3, <3>1, <3>2, <1>6, <1>7
    <3>4. QED
      BY <3>3 DEF Owns, IdsOf
  <2>4. CASE DestroyRun(a)
    <3>1. /\ mem'[a].run = mem[a].run
          /\ mem'[a].server \in {mem[a].server, None}
          /\ mem'[a].volume \in {mem[a].volume, None}
      BY <2>0, <2>4, <1>a, DestroyFrame
    <3>2. IdsOf(mem'[a]) \subseteq IdsOf(mem[a])
      BY <3>1 DEF IdsOf
    <3>3. \A i \in IdsOf(mem'[a]) : owner'[i] = mem'[a].run /\ st'[i] # "unused"
      BY <2>0, <3>1, <3>2, <1>6, <1>7
    <3>4. QED
      BY <3>3 DEF Owns, IdsOf
  <2>5. CASE \E q \in Runs : mem'[a] = snap[q] \/ mem'[a] = disk[q]
    <3>1. PICK s \in RunState : Owns(s) /\ mem'[a] = s /\ s.run \in Runs
      BY <2>5, <1>a, <1>b, <1>c DEF OwnInv
    <3>2. \A i \in IdsOf(s) : owner'[i] = s.run /\ st'[i] # "unused"
      BY <3>1, <1>6, <1>7
    <3>3. QED
      BY <3>1, <3>2 DEF Owns, IdsOf
  <2>6. \/ mem'[a] = mem[a]
        \/ \E q : mem'[a] = NoState(q)
        \/ a \in Runs /\ RunStep(a)
        \/ DestroyRun(a)
        \/ \E q \in Runs : mem'[a] = snap[q] \/ mem'[a] = disk[q]
    <3>1. CASE \E q \in Runs : RunStep(q)
      BY <3>1, <1>a, <1>b, RunFrame
    <3>2. CASE \E b \in Actors : DestroyRun(b)
      BY <3>2, <1>a, <1>d, DestroyFrame
    <3>3. CASE JanitorStep
      <4>1. a # Janitor => mem'[a] = mem[a]
        BY <3>3, <1>a, <1>b, JanitorFrame
      <4>2. \/ mem' = mem
            \/ \E q : mem' = [mem EXCEPT ![Janitor] = NoState(q)]
            \/ \E q \in Runs : mem' = [mem EXCEPT ![Janitor] = snap[q]]
        BY <3>3 DEF JanitorStep, JanitorWakes, JanitorLists, JanitorFinds,
             JanitorDone,
             JanitorStops, JanitorExpires, JanitorReaps
      <4>3. QED
        BY <4>1, <4>2, <1>b, <1>c
    <3>4. CASE OperatorStep \/ (\E i \in Ids : ProviderRemoves(i)) \/ Tick
      BY <3>4, <1>a, OthersFrame
    <3>5. QED
      BY <3>1, <3>2, <3>3, <3>4 DEF Next
  <2>7. QED
    BY <2>1, <2>2, <2>3, <2>4, <2>5, <2>6
<1>11. \A q \in Runs : Owns(disk[q])'
  <2>. TAKE q \in Runs
  <2>0. /\ q \in Actors /\ q # Janitor /\ q # Operator
        /\ mem[q].run = q /\ disk[q].run = q /\ disk'[q].run = q
        /\ disk[q] \in RunState /\ mem[q] \in RunState /\ Owns(disk[q]) /\ Owns(mem[q])
    BY <1>a, <1>b, <1>c, <1>8, ActorsDiffer DEF OwnInv
  <2>1. SUFFICES \A i \in IdsOf(disk'[q]) : i \in Ids /\ owner[i] = q
    BY <2>0, <1>1 DEF Owns, IdsOf
  <2>2. CASE RunStep(q)
    BY <2>0, <2>2, <1>a, <1>7, RunIds
  <2>3. CASE DestroyRun(q)
    <3>1. disk'[q] = disk[q] \/ IdsOf(disk'[q]) = IdsOf(mem[q])
      BY <2>0, <2>3, <1>a, DestroyFrame DEF DestroyResult, IdsOf
    <3>2. QED
      BY <3>1, <2>0, <1>7
  <2>4. CASE OthersStep(q)
    <3>1. ASSUME NEW i \in reap, disk'[q] = Forgotten(disk[q], i)
          PROVE  IdsOf(disk'[q]) \subseteq IdsOf(disk[q])
      <4>1. i \in Ids
        BY <1>a DEF TypeOK
      <4>2. QED
        BY <3>1, <4>1, <2>0, ForgottenFields DEF IdsOf
    <3>2. ASSUME NEW a \in {Janitor, Operator}, mem[a].run = q, DestroyResult(disk'[q], mem[a])
          PROVE  \A i \in IdsOf(disk'[q]) : i \in Ids /\ owner[i] = q
      <4>1. mem[a] \in RunState /\ Owns(mem[a])
        BY <1>a, <1>b, <1>c DEF OwnInv
      <4>2. IdsOf(disk'[q]) = IdsOf(mem[a])
        BY <3>2 DEF DestroyResult, IdsOf
      <4>3. QED
        BY <3>2, <4>1, <4>2, <1>7
    <3>3. disk'[q] = NoState(q) => IdsOf(disk'[q]) = {}
      BY NoStateFields DEF IdsOf
    <3>4. QED
      BY <2>0, <2>4, <3>1, <3>2, <3>3, <1>7 DEF OthersStep
  <2>5. QED
    BY <2>2, <2>3, <2>4, <1>a, StepsOfARun
<1>12. \A q \in Runs : Owns(snap[q])' /\ snap'[q].run = q
  <2>. TAKE q \in Runs
  <2>1. ASSUME NEW s \in RunState, Owns(s), s.run = q, snap'[q] = s
        PROVE  Owns(snap[q])' /\ snap'[q].run = q
    <3>1. \A i \in IdsOf(s) : owner'[i] = s.run /\ st'[i] # "unused"
      BY <2>1, <1>6, <1>7
    <3>2. QED
      BY <2>1, <3>1 DEF Owns, IdsOf
  <2>2. CASE snap'[q] = NoState(q)
    BY <2>2, NoStateFields DEF Owns
  <2>3. CASE snap'[q] \in {snap[q], disk[q]}
    BY <2>1, <2>3, <1>a, <1>b, <1>c DEF OwnInv
  <2>4. QED
    BY <2>2, <2>3, <1>9
<1>13. QED
  BY <1>2, <1>5, <1>8, <1>10, <1>11, <1>12 DEF OwnInv

(* Every step keeps ClockInv.                                               *)
LEMMA ClockKept ==
  ASSUME IInv, Next
  PROVE  ClockInv'
<1>a. TypeOK /\ Labelled /\ OwnInv /\ ClockInv
  BY DEF IInv
<1>b. now \in Nat /\ asOf \in Nat
  BY <1>a, Numbers
<1>1. asOf' <= now'
  BY <1>a, <1>b, ClockSteps DEF ClockInv
<1>2. ASSUME NEW r \in Runs, Alive(r)' PROVE now' <= mem'[r].started + RunLimit
  <2>a. r \in Actors /\ r # Janitor /\ r # Operator /\ mem[r].run = r
    BY <1>a, ActorsDiffer DEF Actors, OwnInv
  <2>b. mem[r].started \in Nat /\ RunLimit \in Nat
    BY <1>a, Numbers, ConstantsAssumption
  <2>1. CASE RunStep(r)
    <3>1. now' = now
      BY <2>a, <2>1, <1>a, RunFrame
    <3>2. mem'[r].started = now \/ (Alive(r) /\ mem'[r].started = mem[r].started)
      BY <1>2, <2>a, <2>1, <1>a, RunEffect DEF Alive, RunEnds, EarlyStages,
           HostStages
    <3>3. QED
      BY <3>1, <3>2, <2>b, <1>a, <1>b DEF ClockInv
  <2>2. CASE DestroyRun(r)
    <3>1. now' = now /\ pc[r] \in DestroySteps
          /\ (mem'[r].started = mem[r].started \/ DestroyResult(mem'[r], mem[r]))
      BY <2>a, <2>2, <1>a, DestroyFrame
    <3>2. Alive(r) /\ mem'[r].started = mem[r].started
      BY <3>1 DEF DestroySteps, Alive, RunEnds, DestroyResult
    <3>3. QED
      BY <3>1, <3>2, <1>a DEF ClockInv
  <2>3. CASE OthersStep(r)
    <3>1. Alive(r) /\ mem'[r] = mem[r]
      BY <2>3, <1>2 DEF OthersStep, Alive
    <3>2. CASE now' = now
      BY <3>1, <3>2, <1>a DEF ClockInv
    <3>3. CASE Tick /\ now' = now + 1
      <4>1. now < mem[r].started + RunLimit
        BY <3>1, <3>3 DEF Tick
      <4>2. QED
        BY <3>1, <3>3, <4>1, <2>b, <1>b
    <3>4. QED
      BY <3>2, <3>3, <1>a, ClockSteps
  <2>4. QED
    BY <2>1, <2>2, <2>3, <1>a, StepsOfARun
<1>3. QED
  BY <1>1, <1>2 DEF ClockInv

(* Only the run itself destroys what it still needs. *)
LEMMA LifeKept ==
  ASSUME IInv, Next, NEW i \in Ids, NEW r \in Runs \ evicted, owner[i] = r,
         st[i] = "live", ~Over(r), pc[r] \notin DestroySteps
  PROVE  st'[i] = "live"
<1>a. TypeOK /\ Labelled /\ OwnInv /\ JanitorInv
  BY DEF IInv
<1>b. st \in [Ids -> {"unused", "live", "deleting", "gone"}] /\ mem \in [Actors -> RunState]
  BY <1>a DEF TypeOK
<1>1. ASSUME NEW x, NEW account, Delete(x, account), x # i PROVE st'[i] = "live"
  BY <1>1, <1>b DEF Delete
<1>2. CASE \E q \in Runs : RunStep(q)
  BY <1>2, <1>b DEF RunStep, Start, Inspect, CreateServer, RecordServer, Boot,
       CreateVolume,
       RecordVolume, Work, Fail, Interrupt, Report, Cleanup, Verify, Finish, Escape, Crash,
       cloudVars, Create, Unused
<1>3. ASSUME NEW a \in Actors, DestroyRun(a) PROVE st'[i] = "live"
  <2>1. pc[a] \in DestroySteps /\ mem[a].run # r
    <3>1. pc[a] \in DestroySteps
      BY <1>3 DEF DestroyRun, DestroyVolume, DestroyServer, Conclude, DestroySteps
    <3>2. a \in Runs => mem[a].run # r
      BY <3>1, <1>a DEF OwnInv
    <3>3. QED
      BY <3>1, <3>2, <1>a DEF JanitorInv, Actors
  <2>2. \A x \in {mem[a].server, mem[a].volume} \ {None} : x # i
    BY <2>1, <1>a DEF OwnInv, Owns
  <2>3. \/ st' = st
        \/ \E account : mem[a].volume # None /\ Delete(mem[a].volume, account)
        \/ \E account : mem[a].server # None /\ Delete(mem[a].server, account)
    BY <1>3 DEF DestroyRun, DestroyVolume, DestroyServer, Conclude, DeleteOk,
         DeleteError,
         cloudVars
  <2>4. QED
    BY <1>1, <2>2, <2>3
<1>4. CASE JanitorStep
  <2>1. st' = st \/ \E x \in reap : \E account : Delete(x, account)
    BY <1>4 DEF JanitorStep, JanitorWakes, JanitorLists, JanitorFinds, JanitorDone,
         JanitorStops, JanitorExpires, JanitorReaps, DeleteOk, DeleteError, cloudVars
  <2>2. i \notin reap
    BY <1>a DEF JanitorInv
  <2>3. QED
    BY <1>1, <2>1, <2>2
<1>5. CASE OperatorStep
  BY <1>5 DEF OperatorStep, OperatorStops, OperatorDestroys, cloudVars
<1>6. CASE \E x \in Ids : ProviderRemoves(x)
  BY <1>6, <1>b DEF ProviderRemoves
<1>7. CASE Tick
  BY <1>7 DEF Tick, cloudVars
<1>8. QED
  BY <1>2, <1>3, <1>4, <1>5, <1>6, <1>7 DEF Next

(* Every step keeps HostInv.                                                *)
LEMMA HostKept ==
  ASSUME IInv, Next, NEW r \in Runs, r \notin evicted'
  PROVE  HostInv(r)'
<1> USE DEF EarlyStages, HostStages, ClosingStages, UsingStages, DestroySteps, RunEnds
<1>a. TypeOK /\ Labelled /\ OwnInv /\ mem[r].run = r /\ disk[r].run = r /\ MemInv(r)
  BY DEF IInv, OwnInv, RunInv
<1>b. r \notin evicted /\ (now' = now \/ now' = now + 1)
  BY <1>a, ClockSteps
<1>c. DiskInv(r) /\ HostInv(r) /\ r \in Actors /\ r # Janitor /\ r # Operator
  BY <1>b, ActorsDiffer DEF IInv, RunInv, Actors
<1>d. now \in Nat /\ mem[r].until \in Nat /\ disk[r].until \in Nat
  BY <1>a, Numbers
<1>e. \A i \in IdsOf(mem[r]) \cup IdsOf(disk[r]) : i \in Ids /\ owner[i] = r
  <2>1. mem[r] \in RunState /\ disk[r] \in RunState /\ Owns(mem[r]) /\ Owns(disk[r])
    BY <1>a, <1>c DEF TypeOK, OwnInv
  <2>2. QED
    BY <2>1, <1>a, Fields DEF Owns, IdsOf, Ids
<1>1. ASSUME pc[r] \in UsingStages, mem[r].status = "running"
      PROVE  \A i \in IdsOf(mem[r]) : st[i] = "live" /\ st'[i] = "live"
  <2>1. ~Over(r) /\ pc[r] \notin DestroySteps
    BY <1>1 DEF Over
  <2>2. \A i \in IdsOf(mem[r]) : st[i] = "live"
    BY <1>1, <1>c DEF HostInv, AllLive, IdsOf
  <2>3. QED
    BY <2>1, <2>2, <1>b, <1>e, LifeKept
<1>2. ASSUME disk[r].status = "retained", now < disk[r].until, r \notin Exempt
      PROVE  \A i \in IdsOf(disk[r]) : st'[i] = "live"
  <2>1. ~Over(r) /\ pc[r] \notin DestroySteps
    BY <1>2, <1>c, <1>d DEF Over, DiskInv
  <2>2. \A i \in IdsOf(disk[r]) : st[i] = "live"
    BY <1>2, <1>c DEF HostInv, AllLive, IdsOf
  <2>3. QED
    BY <2>1, <2>2, <1>b, <1>e, LifeKept
<1>3. ASSUME pc'[r] \in UsingStages, mem'[r].status = "running", NEW i \in IdsOf(mem'[r])
      PROVE  st'[i] = "live"
  <2>1. CASE RunStep(r)
    <3>1. \/ mem'[r].until = 0 /\ pc[r] = "idle"
          \/ pc[r] \in UsingStages /\ mem[r].status = "running"
      BY <1>3, <2>1, <1>a, RunEffect DEF Alive
    <3>2. i \in IdsOf(mem[r]) \/ st'[i] = "live"
      BY <1>3, <2>1, <1>a, RunIds
    <3>3. pc[r] = "idle" => IdsOf(mem'[r]) = {}
      <4>1. ASSUME Start(r) PROVE IdsOf(mem'[r]) = {}
        BY <4>1, <1>a, <1>c DEF Start, TypeOK, IdsOf, NoState
      <4>2. pc[r] = "idle" => Start(r)
        BY <2>1 DEF RunStep, Inspect, CreateServer, RecordServer, Boot,
             CreateVolume,
             RecordVolume, Work, Fail, Interrupt, Report, Cleanup, Verify, Finish,
             Escape, Crash, Alive
      <4>3. QED
        BY <4>1, <4>2
    <3>4. QED
      BY <1>1, <1>3, <3>1, <3>2, <3>3
  <2>2. CASE DestroyRun(r)
    BY <1>3, <2>2, <1>a, <1>c, DestroyFrame
  <2>3. CASE OthersStep(r)
    BY <1>1, <1>3, <2>3 DEF OthersStep
  <2>4. QED
    BY <2>1, <2>2, <2>3, <1>a, StepsOfARun
<1>4. ASSUME disk'[r].status = "retained", now' < disk'[r].until, r \notin Exempt,
             NEW i \in IdsOf(disk'[r])
      PROVE  st'[i] = "live"
  <2>1. CASE disk'[r] = disk[r]
    BY <1>2, <1>4, <2>1, <1>b, <1>d
  <2>2. CASE RunStep(r) /\ disk'[r] # disk[r]
    <3>1. pc[r] = "cleanup" /\ mem[r].until # 0 /\ disk'[r] = mem'[r]
      <4>1. now' = now
        BY <2>2, <1>a, RunFrame
      <4>2. QED
        BY <1>4, <2>2, <4>1, <1>a, <1>c, <1>d, RunEffect DEF MemInv, DiskInv, Alive
    <3>2. mem[r].status = "running"
      BY <1>4, <3>1, <1>a DEF MemInv
    <3>3. i \in IdsOf(mem[r]) \/ st'[i] = "live"
      BY <1>4, <2>2, <3>1, <1>a, RunIds
    <3>4. QED
      BY <1>1, <3>1, <3>2, <3>3
  <2>3. CASE DestroyRun(r) /\ disk' # disk
    BY <1>4, <2>3, <1>a, <1>c, DestroyFrame DEF MemInv, DestroyResult
  <2>4. CASE OthersStep(r) /\ disk'[r] # disk[r]
    <3>1. TypeOK'
      BY <1>a, TypeNext DEF TypeInv
    <3>2. disk'[r].until \in Nat
      BY <3>1, Fields DEF TypeOK
    <3>3. ~(disk'[r].until <= now)
      BY <3>2, <1>4, <1>b, <1>d
    <3>4. Over(r) /\ disk[r].status = "retained" /\ disk'[r].until = disk[r].until
      BY <1>4, <2>4, <3>3, <1>b, OthersSpare
    <3>5. QED
      BY <1>4, <3>3, <3>4 DEF Over
  <2>5. QED
    BY <2>1, <2>2, <2>3, <2>4, <1>a, StepsOfARun
<1>5. QED
  BY <1>3, <1>4 DEF HostInv, AllLive, IdsOf

(* A run that has not asked for a host owns nothing, a new resource is young. *)
LEMMA SnapStable ==
  ASSUME IInv, Next, NEW r \in Runs, SnapProtects(r), UNCHANGED <<snap, asOf>>
  PROVE  SnapProtects(r)'
<1>a. TypeOK /\ asOf <= now /\ StaleAfter \in Nat
  BY ConstantsAssumption DEF IInv, ClockInv
<1>b. now \in Nat /\ asOf \in Nat /\ \A i \in Ids : born[i] \in Nat
  BY <1>a, Numbers
<1>1. \A i \in Ids : owner'[i] = r => \/ owner[i] = r /\ born'[i] = born[i]
                                      \/ born'[i] = now
  <2>1. CASE UNCHANGED <<owner, born>>
    BY <2>1
  <2>2. CASE \E q \in Runs, got, extra \in Ids \cup {None} : Create(q, got, extra)
    BY <2>2 DEF Create
  <2>3. QED
    BY <2>1, <2>2, CloudSteps DEF cloudVars, ProviderRemoves, Unused, Ids
<1>2. CASE snap[r].status = "absent"
  <2>1. \A i \in Ids : owner[i] = r => asOf - born[i] <= StaleAfter
    BY <1>2 DEF SnapProtects
  <2>2. \A i \in Ids : owner'[i] = r => asOf - born'[i] <= StaleAfter
    BY <2>1, <1>1, <1>a, <1>b
  <2>3. QED
    BY <1>2, <2>2 DEF SnapProtects
<1>3. CASE snap[r].status # "absent"
  BY <1>3 DEF SnapProtects
<1>4. QED
  BY <1>2, <1>3

(* Listing the state files: what a run still needs is protected by what they *)
(* say, provided that no run lives longer than find_stale believes.          *)
LEMMA ListProtects ==
  ASSUME IInv, RunLimit < StaleAfter, NEW r \in Runs \ evicted, ~Over(r),
         snap' = disk, asOf' = now, UNCHANGED <<owner, born>>
  PROVE  SnapProtects(r)'
<1> USE DEF EarlyStages, HostStages, ClosingStages, UsingStages, RunEnds
<1>a. TypeOK /\ OwnInv /\ ClockInv /\ MemInv(r) /\ DiskInv(r)
  BY DEF IInv, RunInv
<1>b. /\ now \in Nat /\ mem[r].until \in Nat /\ mem[r].started \in Nat
      /\ disk[r].until \in Nat /\ disk[r].started \in Nat
      /\ RunLimit \in Nat /\ StaleAfter \in Nat
  BY <1>a, Numbers, ConstantsAssumption
<1>1. CASE pc[r] = "idle"
  BY <1>1, <1>a DEF MemInv, OwnInv, SnapProtects
<1>2. CASE pc[r] \in UsingStages /\ mem[r].status = "running"
  <2>1. disk[r].status = "running" /\ disk[r].started = mem[r].started
    BY <1>2, <1>a DEF DiskInv
  <2>2. now <= mem[r].started + RunLimit
    BY <1>2, <1>a DEF ClockInv, Alive
  <2>3. now - disk[r].started < StaleAfter
    BY <2>1, <2>2, <1>b
  <2>4. QED
    BY <2>1, <2>3 DEF SnapProtects
<1>3. CASE disk[r].status = "retained" /\ ~(disk[r].until <= now)
  BY <1>3, <1>b DEF SnapProtects
<1>4. CASE /\ r \notin Exempt /\ pc[r] = "finish" /\ mem[r].status = "retained"
           /\ ~(mem[r].until <= now)
  BY <1>4, <1>a, <1>b DEF SnapProtects, DiskInv
<1>5. pc[r] \in {"idle"} \cup UsingStages \/ pc[r] \notin {"idle"} \cup UsingStages
  OBVIOUS
<1>6. QED
  BY <1>1, <1>2, <1>3, <1>4, <1>a DEF Over, MemInv

(* A run that is finishing or over stays so.                                *)
LEMMA EndStable ==
  ASSUME TypeInv, OwnInv, Next, NEW r \in Runs, pc[r] \in {"finish"} \cup RunEnds
  PROVE  pc'[r] \in {"finish"} \cup RunEnds
<1>a. TypeOK /\ Labelled /\ OwnInv /\ mem[r].run = r /\ r \in Actors
  BY DEF TypeInv, OwnInv, Actors
<1>1. CASE RunStep(r)
  BY <1>1, <1>a, RunEffect DEF RunEnds, EarlyStages, HostStages, Alive
<1>2. CASE DestroyRun(r)
  BY <1>2, <1>a, DestroyFrame DEF RunEnds, DestroySteps
<1>3. CASE OthersStep(r)
  BY <1>3 DEF OthersStep
<1>4. QED
  BY <1>1, <1>2, <1>3, <1>a, StepsOfARun

(* A label is for ever. *)
LEMMA OwnerStable ==
  ASSUME IInv, Next, NEW i \in Ids, owner[i] # None
  PROVE  owner'[i] = owner[i]
<1>1. st[i] # "unused"
  BY DEF IInv, OwnInv
<1>2. CASE UNCHANGED owner
  BY <1>2
<1>3. CASE \E q \in Runs, got, extra \in Unused(Ids) \cup {None} : Create(q, got, extra)
  BY <1>1, <1>3, NoneDiffers DEF Create, Unused
<1>4. QED
  BY <1>2, <1>3, CloudSteps DEF Unused, Ids, cloudVars, ProviderRemoves

(* The steps of everybody but the janitor leave its variables alone. *)
LEMMA JanitorLeftAlone ==
  ASSUME IInv, Next, ~JanitorStep
  PROVE  /\ snap' = snap /\ asOf' = asOf /\ todo' = todo /\ reap' = reap
         /\ \/ pc'[Janitor] = pc[Janitor] /\ mem'[Janitor] = mem[Janitor]
            \/ DestroyRun(Janitor)
<1>a. TypeOK /\ OwnInv
  BY DEF IInv
<1>b. Janitor \in Actors /\ Janitor \notin Runs /\ Janitor # Operator
  BY ActorsDiffer DEF Actors
<1>c. /\ \A q \in Runs : mem[q].run = q
      /\ \A a \in Actors : mem[a].run \in Runs
  BY <1>a, Fields DEF OwnInv, TypeOK
<1>1. CASE \E q \in Runs : RunStep(q)
  BY <1>1, <1>a, <1>b, <1>c, RunFrame
<1>2. CASE \E a \in Actors : DestroyRun(a)
  BY <1>2, <1>a, <1>b, <1>c, DestroyFrame
<1>3. CASE OperatorStep \/ (\E i \in Ids : ProviderRemoves(i)) \/ Tick
  BY <1>3, <1>a, <1>b, OthersFrame
<1>4. QED
  BY <1>1, <1>2, <1>3 DEF Next

(* Every step keeps JanitorInv: what the janitor is going to destroy is no  *)
(* longer needed.                                                           *)
LEMMA JanitorKept ==
  ASSUME IInv, RunLimit < StaleAfter, Next
  PROVE  JanitorInv'
<1>a. TypeOK /\ Labelled /\ OwnInv /\ JanitorInv /\ TypeInv
  BY DEF IInv, TypeInv
<1>b. Janitor \in Actors /\ Operator \in Actors /\ Janitor \notin Runs /\ Janitor # Operator
  BY ActorsDiffer DEF Actors
<1>c. /\ \A q \in Runs : mem[q].run = q /\ snap[q].run = q
      /\ pc \in [Actors -> {"idle"} \cup RunStages \cup RunEnds \cup DestroySteps \cup JanitorStages]
      /\ mem \in [Actors -> RunState]
  BY <1>a DEF OwnInv, TypeOK
<1>d. evicted \subseteq evicted'
  BY <1>a, ClockSteps
<1>e. \A r \in Runs \ evicted' : Over(r) => Over(r)'
  BY OverStable
<1>1. ASSUME NEW r \in todo'
      PROVE  /\ snap'[r].until <= asOf'
             /\ r \notin evicted' => Over(r)' /\ pc'[r] \in {"finish"} \cup RunEnds
  <2>1. CASE r \in todo /\ snap' = snap /\ asOf' = asOf
    <3>1. r \in Runs
      BY <2>1, <1>a DEF TypeOK
    <3>2. snap[r].until <= asOf /\ (r \notin evicted => Over(r) /\ pc[r] \in {"finish"} \cup RunEnds)
      BY <2>1, <1>a DEF JanitorInv
    <3>3. QED
      BY <2>1, <3>1, <3>2, <1>a, <1>d, <1>e, EndStable
  <2>2. CASE JanitorWakes
    <3>1. snap' = disk /\ asOf' = now /\ r \in Runs /\ Expired(disk[r], now)
      BY <2>2 DEF JanitorWakes
    <3>2. disk[r].status = "retained" /\ disk[r].until <= now
      BY <3>1 DEF Expired
    <3>3. ASSUME r \notin evicted'
          PROVE  Over(r) /\ pc[r] \in {"finish"} \cup RunEnds
      <4>1. DiskInv(r)
        BY <3>1, <3>3, <1>d DEF IInv, RunInv
      <4>2. pc[r] \in {"finish"} \cup RunEnds
        BY <3>2, <4>1 DEF DiskInv
      <4>3. pc[r] = "finish" /\ mem[r].status = "retained" /\ r \notin Exempt => mem[r].until <= now
        <5>1. now \in Nat /\ mem[r].until \in Nat
          BY <3>1, <1>a, Numbers
        <5>2. QED
          BY <3>2, <4>1, <5>1 DEF DiskInv
      <4>4. QED
        BY <3>2, <4>2, <4>3 DEF Over, EarlyStages, HostStages,
             ClosingStages, RunEnds
    <3>4. QED
      BY <3>1, <3>2, <3>3, <1>a, <1>e, EndStable
  <2>3. JanitorStep /\ ~JanitorWakes => r \in todo /\ snap' = snap /\ asOf' = asOf
    BY DEF JanitorStep, JanitorLists, JanitorFinds, JanitorDone, JanitorStops,
         JanitorExpires, JanitorReaps, JanitorRests
  <2>4. QED
    BY <2>1, <2>2, <2>3, JanitorLeftAlone
<1>2. ASSUME pc'[Janitor] \in DestroySteps, NEW r, r = mem'[Janitor].run
      PROVE  /\ mem'[Janitor].until <= asOf'
             /\ r \notin evicted' => Over(r)' /\ pc'[r] \in {"finish"} \cup RunEnds
  <2>1. CASE \E q \in Runs : JanitorExpires(q)
    <3>1. PICK q \in Runs : q \in todo /\ mem'[Janitor] = snap[q] /\ asOf' = asOf
      BY <2>1, <1>b, <1>c DEF JanitorExpires
    <3>2. r = q /\ snap[q].until <= asOf
          /\ (q \notin evicted => Over(q) /\ pc[q] \in {"finish"} \cup RunEnds)
      BY <3>1, <1>2, <1>a, <1>c DEF JanitorInv
    <3>3. QED
      BY <3>1, <3>2, <1>a, <1>d, <1>e, EndStable
  <2>2. CASE JanitorStep /\ ~(\E q \in Runs : JanitorExpires(q))
    <3>1. pc'[Janitor] \in {"expire", "list", "reap", "idle"}
      BY <2>2, <1>b, <1>c DEF JanitorStep, JanitorWakes, JanitorLists, JanitorFinds,
           JanitorDone, JanitorStops, JanitorReaps, JanitorRests, Goto
    <3>2. QED
      BY <3>1, <1>2 DEF DestroySteps
  <2>3. CASE ~JanitorStep
    <3>1. /\ pc[Janitor] \in DestroySteps /\ mem'[Janitor].run = mem[Janitor].run
          /\ mem'[Janitor].until = mem[Janitor].until /\ asOf' = asOf
      <4>1. CASE DestroyRun(Janitor)
        <5>1. mem[Janitor].run \in Runs
          BY <1>b, <1>c, Fields
        <5>2. QED
          BY <2>3, <4>1, <5>1, <1>2, <1>a, <1>b, DestroyFrame DEF DestroySteps
      <4>2. CASE ~DestroyRun(Janitor)
        BY <2>3, <4>2, <1>2, JanitorLeftAlone
      <4>3. QED
        BY <4>1, <4>2
    <3>2. r \in Runs
      BY <3>1, <1>2, <1>b, <1>c, Fields
    <3>3. mem[Janitor].until <= asOf
          /\ (r \notin evicted => Over(r) /\ pc[r] \in {"finish"} \cup RunEnds)
      BY <3>1, <1>2, <1>a DEF JanitorInv
    <3>4. QED
      BY <3>1, <3>2, <3>3, <1>a, <1>d, <1>e, EndStable
  <2>4. QED
    BY <2>1, <2>2, <2>3
<1>3. ASSUME pc'[Janitor] = "list", NEW r \in Runs \ evicted'
      PROVE  Over(r)' \/ SnapProtects(r)'
  <2>1. CASE Over(r)
    BY <2>1, <1>3, <1>e
  <2>2. CASE JanitorLists /\ ~Over(r)
    BY <2>2, <1>3, <1>d, ListProtects DEF JanitorLists, cloudVars
  <2>3. CASE ~JanitorLists /\ ~Over(r)
    <3>1. pc[Janitor] = "list" /\ UNCHANGED <<snap, asOf>>
      <4>1. ~JanitorStep
        BY <2>3, <1>3, <1>b, <1>c DEF JanitorStep, JanitorWakes,
             JanitorFinds, JanitorDone,
             JanitorStops, JanitorExpires, JanitorReaps, JanitorRests, Goto
      <4>2. ~DestroyRun(Janitor)
        <5>1. mem[Janitor].run \in Runs
          BY <1>b, <1>c, Fields
        <5>2. QED
          BY <5>1, <1>3, <1>a, <1>b, DestroyFrame DEF DestroySteps
      <4>3. QED
        BY <4>1, <4>2, <1>3, JanitorLeftAlone
    <3>2. SnapProtects(r)
      BY <2>3, <3>1, <1>3, <1>a, <1>d DEF JanitorInv
    <3>3. QED
      BY <3>1, <3>2, SnapStable
  <2>4. QED
    BY <2>1, <2>2, <2>3
<1>4. ASSUME NEW i \in reap'
      PROVE  owner'[i] \in Runs /\ (owner'[i] \notin evicted' => Over(owner[i])')
  <2>1. i \in Ids /\ owner[i] \in Runs /\ (owner[i] \notin evicted => Over(owner[i]))
    <3>1. CASE i \in reap
      BY <3>1, <1>a DEF JanitorInv, TypeOK
    <3>2. CASE JanitorFinds /\ i \in Listed(Configured) /\ i \notin reap
      <4>1. i \in Ids /\ owner[i] \in Runs /\ Stale(i, snap, asOf)
        <5>1. Stale(i, snap, asOf)
          BY <3>2, <1>4 DEF JanitorFinds, JanitorRests
        <5>2. i \in Ids /\ owner[i] # None
          BY <3>2, <1>a DEF Listed, Exists, Labelled
        <5>3. QED
          BY <5>1, <5>2, <1>a DEF TypeOK
      <4>2. ASSUME owner[i] \notin evicted PROVE Over(owner[i])
        <5>1. Over(owner[i]) \/ SnapProtects(owner[i])
          BY <4>1, <4>2, <3>2, <1>a DEF JanitorInv, JanitorFinds
        <5>2. /\ asOf \in Nat /\ born[i] \in Nat /\ StaleAfter \in Nat
              /\ snap[owner[i]].until \in Nat /\ snap[owner[i]].started \in Nat
          BY <4>1, <1>a, Numbers, ConstantsAssumption
        <5>3. ~SnapProtects(owner[i])
          BY <4>1, <5>2 DEF Stale, SnapProtects
        <5>4. QED
          BY <5>1, <5>3
      <4>3. QED
        BY <4>1, <4>2
    <3>3. QED
      BY <3>1, <3>2, ReapSteps
  <2>2. owner'[i] = owner[i]
    BY <2>1, NoneDiffers, OwnerStable
  <2>3. QED
    BY <2>1, <2>2, <1>d, <1>e
<1>5. pc'[Operator] \in DestroySteps => mem'[Operator].run \in evicted'
  <2>0. mem[Operator].run \in Runs
    BY <1>b, <1>c, Fields
  <2>1. CASE DestroyRun(Operator)
    BY <2>0, <2>1, <1>a, <1>b, <1>d, DestroyFrame DEF JanitorInv
  <2>2. CASE \E r \in Runs : OperatorDestroys(r)
    BY <2>2, <1>a, <1>b, <1>c DEF OperatorDestroys, OwnInv
  <2>3. CASE pc'[Operator] = pc[Operator] /\ mem'[Operator] = mem[Operator]
    BY <2>3, <1>a, <1>d DEF JanitorInv
  <2>4. QED
    <3>1. CASE \E q \in Runs : RunStep(q)
      BY <3>1, <2>3, <1>a, <1>b, <1>c, RunFrame, ActorsDiffer
    <3>2. CASE \E a \in Actors \ {Operator} : DestroyRun(a)
      <4>1. \A a \in Actors : mem[a].run \in Runs
        BY <1>c, Fields
      <4>2. QED
        BY <3>2, <4>1, <2>3, <1>a, <1>b, DestroyFrame
    <3>3. CASE JanitorStep
      BY <3>3, <2>3, <1>a, <1>b, JanitorFrame DEF OwnInv
    <3>4. CASE (\E i \in Ids : ProviderRemoves(i)) \/ Tick
      BY <3>4, <2>3 DEF ProviderRemoves, Tick
    <3>5. CASE OperatorStops
      BY <3>5, <1>b, <1>c DEF OperatorStops, Goto, DestroySteps
    <3>6. QED
      BY <2>1, <2>2, <3>1, <3>2, <3>3, <3>4, <3>5 DEF Next, OperatorStep
<1>6. QED
  BY <1>1, <1>2, <1>3, <1>4, <1>5 DEF JanitorInv

(* The invariant holds at the beginning.                                    *)
LEMMA IInvInit == Init => IInv
<1> SUFFICES ASSUME Init PROVE IInv
  OBVIOUS
<1>1. TypeOK
  BY TypeInit
<1>2. Labelled
  BY DEF Init, Labelled
<1>3. /\ \A r \in Runs : pc[r] = "idle" /\ disk[r] = NoState(r) /\ mem[r] = NoState(r)
                         /\ snap[r] = NoState(r)
      /\ pc[Janitor] = "idle" /\ pc[Operator] = "idle"
      /\ \A i \in Ids : owner[i] = None /\ st[i] = "unused"
      /\ now = 0 /\ asOf = 0 /\ todo = {} /\ reap = {} /\ evicted = {}
      /\ \A a \in Actors : \E r \in Runs : mem[a] = NoState(r)
  BY ConstantsAssumption DEF Init, Actors
<1>4. OwnInv
  BY <1>3, NoStateFields, NoneDiffers DEF OwnInv, Owns
<1>5. ClockInv
  BY <1>3 DEF ClockInv, Alive
<1>6. RunInv
  BY <1>3, NoStateFields DEF RunInv, MemInv, DiskInv, HostInv, UsingStages,
       EarlyStages,
       HostStages, ClosingStages, DestroySteps
<1>7. JanitorInv
  BY <1>3 DEF JanitorInv, DestroySteps
<1>8. QED
  BY <1>1, <1>2, <1>4, <1>5, <1>6, <1>7 DEF IInv

(* Every step keeps the invariant.                                          *)
LEMMA IInvNext ==
  ASSUME RunLimit < StaleAfter, IInv, [Next]_vars
  PROVE  IInv'
<1>1. CASE Next
  <2>1. TypeOK' /\ Labelled'
    BY <1>1, TypeNext DEF IInv, TypeInv
  <2>2. RunInv'
    BY <1>1, MemKept, DiskKept, HostKept DEF RunInv
  <2>3. QED
    BY <1>1, <2>1, <2>2, OwnKept, ClockKept, JanitorKept DEF IInv, TypeInv
<1>2. CASE UNCHANGED vars
  <2>. USE <1>2 DEF vars
  <2>1. TypeOK'
    BY DEF IInv, TypeOK
  <2>2. Labelled' /\ OwnInv'
    BY DEF IInv, Labelled, OwnInv, Owns
  <2>3. ClockInv'
    BY DEF IInv, ClockInv, Alive
  <2>4. RunInv'
    BY DEF IInv, RunInv, MemInv, DiskInv, HostInv, AllLive
  <2>5. JanitorInv'
    BY DEF IInv, JanitorInv, Over, SnapProtects
  <2>6. QED
    BY <2>1, <2>2, <2>3, <2>4, <2>5 DEF IInv
<1>3. QED
  BY <1>1, <1>2

(* The invariant behind both theorems below.  It needs runs to be shorter    *)
(* than find_stale believes: 12 hours (TimeoutStartSec) against 24.          *)
THEOREM InductiveInvariant ==
  ASSUME RunLimit < StaleAfter
  PROVE  Spec => []IInv
<1>1. Init => IInv
  BY IInvInit
<1>2. IInv /\ [Next]_vars => IInv'
  BY IInvNext
<1>3. QED
  BY <1>1, <1>2, PTL DEF Spec

(* However many runs, servers, crashes, failing API calls and stale          *)
(* snapshots: the janitor never takes the host away from a run using it.     *)
THEOREM HostSafe ==
  ASSUME RunLimit < StaleAfter
  PROVE  Spec => []HostInUseSpared
<1>1. IInv => HostInUseSpared
  <2> SUFFICES ASSUME IInv, NEW r \in Runs \ evicted, pc[r] \in HostStages
               PROVE  \A i \in {mem[r].server, mem[r].volume} \ {None} : st[i] = "live"
    BY DEF HostInUseSpared
  <2>1. MemInv(r) /\ HostInv(r)
    BY DEF IInv, RunInv
  <2>2. pc[r] \in UsingStages \ ClosingStages
    BY DEF UsingStages, ClosingStages, HostStages
  <2>3. AllLive(mem[r])
    BY <2>1, <2>2 DEF MemInv, HostInv
  <2>4. QED
    BY <2>3 DEF AllLive
<1>2. QED
  BY <1>1, InductiveInvariant, PTL

(* A retained server survives every `cleanup` until its retention ends.      *)
THEOREM RetainedSafe ==
  ASSUME RunLimit < StaleAfter
  PROVE  Spec => []RetainedHostSpared
<1>1. IInv => RetainedHostSpared
  BY DEF RetainedHostSpared, IInv, RunInv, HostInv, AllLive, Exempt
<1>2. QED
  BY <1>1, InductiveInvariant, PTL
-----------------------------------------------------------------------------
(* What the report of a run says of its cleanup.  This needs no bound on the *)
(* length of a run.                                                          *)

(* A run that reported its resources destroyed creates none any more, and    *)
(* the cloud forgets nothing it has destroyed.                               *)
TruthInv ==
    /\ TypeInv /\ OwnInv
    /\ \A r \in Runs : out[r] = "destroyed" =>
         /\ pc[r] \in {"finish"} \cup RunEnds
         /\ \A i \in Ids : owner[i] = r => st[i] = "gone"

(* Only the listing of verify_gone makes a report say "destroyed".           *)
LEMMA DestroyedByVerify ==
  ASSUME TypeInv, OwnInv, Next, NEW r \in Runs, out'[r] = "destroyed", out[r] # "destroyed"
  PROVE  Verify(r) /\ Leftovers(r) = {}
<1>a. out \in [Runs -> {"not started", "none", "retained", "destroyed", "error"}]
  BY DEF TypeInv, TypeOK
<1>1. ASSUME NEW q \in Runs, RunStep(q)
      PROVE  Verify(r) /\ Leftovers(r) = {}
  <2>1. CASE Verify(q)
    BY <1>a, <2>1 DEF Verify
  <2>2. CASE Cleanup(q)
    BY <1>a, <2>2 DEF Cleanup
  <2>3. CASE UNCHANGED out
    BY <2>3
  <2>4. QED
    BY <1>1, <2>1, <2>2, <2>3 DEF RunStep, Start, Inspect, CreateServer,
         RecordServer, Boot, CreateVolume, RecordVolume, Work, Fail, Interrupt,
         Report, Finish, Escape, Crash, runVars
<1>2. ASSUME NEW a \in Actors, DestroyRun(a)
      PROVE  FALSE
  <2>1. CASE Conclude(a)
    BY <1>a, <2>1 DEF Conclude
  <2>2. CASE UNCHANGED out
    BY <2>2
  <2>3. QED
    BY <1>2, <2>1, <2>2 DEF DestroyRun, DestroyVolume, DestroyServer,
         destroyFrame, runVars
<1>3. CASE JanitorStep
  BY <1>3 DEF JanitorStep, JanitorWakes, JanitorLists, JanitorFinds, JanitorDone,
       JanitorStops, JanitorExpires, JanitorReaps, runVars
<1>4. CASE OperatorStep \/ (\E i \in Ids : ProviderRemoves(i)) \/ Tick
  BY <1>4 DEF OperatorStep, OperatorDestroys, OperatorStops, ProviderRemoves,
       Tick, runVars
<1>5. QED
  BY <1>1, <1>2, <1>3, <1>4 DEF Next

(* What is gone stays gone, and only a run at work gets new resources.       *)
LEMMA GoneStable ==
  ASSUME TypeInv, OwnInv, Next, NEW r \in Runs, pc[r] \in {"finish"} \cup RunEnds,
         \A i \in Ids : owner[i] = r => st[i] = "gone"
  PROVE  \A i \in Ids : owner'[i] = r => st'[i] = "gone"
<1>a. st \in [Ids -> {"unused", "live", "deleting", "gone"}]
  BY DEF TypeInv, TypeOK
<1>1. CASE UNCHANGED cloudVars
  BY <1>1 DEF cloudVars
<1>2. ASSUME NEW q \in Runs, pc[q] \in {"provision", "volume"}, NEW got, NEW extra,
             Create(q, got, extra)
      PROVE  \A i \in Ids : owner'[i] = r => st'[i] = "gone"
  <2>1. q # r
    BY <1>2 DEF RunEnds
  <2>2. QED
    BY <1>2, <2>1 DEF Create
<1>3. ASSUME NEW j, NEW account, Delete(j, account), owner' = owner
      PROVE  \A i \in Ids : owner'[i] = r => st'[i] = "gone"
  <2>1. st' = st \/ (Exists(j) /\ \E after \in {"deleting", "gone"} : st' = [st EXCEPT ![j] = after])
    BY <1>3 DEF Delete
  <2>2. \A i \in Ids : st[i] = "gone" => st'[i] = "gone"
    BY <1>a, <2>1 DEF Exists
  <2>3. QED
    BY <1>3, <2>2
<1>4. CASE \E i \in Ids : ProviderRemoves(i)
  BY <1>4, <1>a DEF ProviderRemoves
<1>5. QED
  BY <1>1, <1>2, <1>3, <1>4, CloudSteps

(* Every step keeps TruthInv.                                                *)
LEMMA TruthKept ==
  ASSUME TruthInv, [Next]_vars
  PROVE  TruthInv'
<1>1. CASE UNCHANGED vars
  <2>. USE <1>1 DEF vars
  <2>1. TypeInv'
    BY TypeNext DEF TruthInv
  <2>2. OwnInv'
    BY DEF TruthInv, OwnInv, Owns
  <2>3. QED
    BY <2>1, <2>2 DEF TruthInv
<1>2. CASE Next
  <2>a. TypeInv /\ OwnInv
    BY DEF TruthInv
  <2>1. TypeInv' /\ OwnInv'
    BY <1>2, <2>a, TypeNext, OwnKept
  <2>2. ASSUME NEW r \in Runs, out'[r] = "destroyed"
        PROVE  /\ pc'[r] \in {"finish"} \cup RunEnds
               /\ \A i \in Ids : owner'[i] = r => st'[i] = "gone"
    <3>1. CASE out[r] = "destroyed"
      BY <1>2, <2>a, <3>1, EndStable, GoneStable DEF TruthInv
    <3>2. CASE out[r] # "destroyed"
      <4>1. Verify(r) /\ Leftovers(r) = {}
        BY <1>2, <2>a, <2>2, <3>2, DestroyedByVerify
      <4>2. pc' = [pc EXCEPT ![r] = "finish"] /\ UNCHANGED <<st, owner>>
        BY <4>1 DEF Verify, Goto, cloudVars
      <4>3. pc'[r] = "finish"
        BY <4>2, <2>a DEF TypeInv, TypeOK, Actors
      <4>4. ASSUME NEW i \in Ids, owner[i] = r
            PROVE  st[i] = "gone"
        <5>1. ~Exists(i)
          BY <4>1, <4>4 DEF Leftovers, Listed
        <5>2. st[i] # "unused"
          BY <2>a, <4>4, NoneDiffers DEF OwnInv
        <5>3. QED
          BY <2>a, <5>1, <5>2 DEF TypeInv, TypeOK, Exists
      <4>5. QED
        BY <4>2, <4>3, <4>4
    <3>3. QED
      BY <3>1, <3>2
  <2>3. QED
    BY <2>1, <2>2 DEF TruthInv
<1>3. QED
  BY <1>1, <1>2

(* A report that says "all temporary resources destroyed" is right when it   *)
(* is written and for ever after, whatever was created twice, failed or      *)
(* crashed, for any number of runs and resources.                            *)
THEOREM ReportTrue == Spec => []ReportTellsTruth
<1>1. Init => TruthInv
  <2> SUFFICES ASSUME Init PROVE TruthInv
    OBVIOUS
  <2>1. TypeInv /\ OwnInv
    BY IInvInit DEF IInv, TypeInv
  <2>2. \A r \in Runs : out[r] = "not started"
    BY DEF Init
  <2>3. QED
    BY <2>1, <2>2 DEF TruthInv
<1>2. TruthInv /\ [Next]_vars => TruthInv'
  BY TruthKept
<1>3. TruthInv => ReportTellsTruth
  BY DEF TruthInv, ReportTellsTruth
<1>4. QED
  BY <1>1, <1>2, <1>3, PTL DEF Spec

-----------------------------------------------------------------------------
(* A resource that was recorded once and still runs is recorded in the state *)
(* file of its run, so that neither cleanup "done" nor keep_runs loses it.   *)

(* The resources of r some state file named and the provider still has.     *)
Outstanding(r) == {i \in saved : owner[i] = r /\ st[i] = "live"}

(* A state that says its cleanup is over names nothing.                     *)
Settled(s) ==
    \/ IdsOf(s) = {}
    \/ s.status # "absent" /\ s.cleanup \notin {"done", "not_needed"}

(* What destroy_run has passed without a failure it has cleared.            *)
Cleared(a) ==
    pc[a] \in {"server", "volume2", "conclude"} /\ ~failed[a] =>
        /\ mem[a].volume = None
        /\ pc[a] # "server" => mem[a].server = None

(* The ids a run works with are in its state file, except those of a create *)
(* call that just returned (and was not saved before the report).           *)
StageInv(r) ==
    /\ pc[r] \in EarlyStages \cup {"report"} \cup HostStages => mem[r].status # "absent"
    /\ pc[r] \in EarlyStages \cup HostStages => mem[r].cleanup = "pending"
    /\ pc[r] \in EarlyStages => mem[r].server = None
    /\ pc[r] \in EarlyStages \cup {"record", "boot", "volume"} => mem[r].volume = None
    /\ pc[r] \notin {"record", "attach", "report"} => IdsOf(mem[r]) \subseteq saved

FileInv ==
    /\ \A i \in saved : owner[i] # None
    /\ \A r \in Runs :
         /\ Settled(disk[r]) /\ IdsOf(disk[r]) \subseteq saved
         /\ Settled(snap[r]) /\ IdsOf(snap[r]) \subseteq saved
         /\ StageInv(r)
    /\ \A a \in Actors : Settled(mem[a]) /\ Cleared(a)
    /\ \A a \in {Janitor, Operator} : IdsOf(mem[a]) \subseteq saved

(* Every process that may write the state file of r next knows everything   *)
(* that is outstanding.                                                     *)
Known(r) ==
    /\ Outstanding(r) \subseteq IdsOf(disk[r])
    /\ Alive(r) => Outstanding(r) \subseteq IdsOf(mem[r])
    /\ r \in todo => Outstanding(r) \subseteq IdsOf(snap[r])
    /\ pc[Janitor] \in DestroySteps /\ mem[Janitor].run = r =>
         Outstanding(r) \subseteq IdsOf(mem[Janitor])

RecordInv == FileInv /\ \A r \in Runs \ evicted : Known(r)
-----------------------------------------------------------------------------
(* What the steps of a run do to the records.                               *)

(* How a run saves: its own file names what it knows, and what keep_runs    *)
(* prunes named nothing.                                                    *)
RunSaves(r) ==
    \/ NoSave
    \/ /\ saved' = saved \cup IdsOf(mem[r])
       /\ IdsOf(disk'[r]) = IdsOf(mem[r]) /\ Settled(disk'[r])
       /\ \A q \in Runs \ {r} :
            \/ disk'[q] = disk[q]
            \/ IdsOf(disk[q]) = {} /\ disk'[q] = NoState(q)

(* Assigning to other fields changes nothing that is recorded.              *)
LEMMA RecordedUpdates ==
  ASSUME NEW s \in RunState, NEW v
  PROVE  /\ IdsOf([s EXCEPT !.status = v]) = IdsOf(s)
         /\ IdsOf([s EXCEPT !.cleanup = v]) = IdsOf(s)
         /\ IdsOf([s EXCEPT !.until = v]) = IdsOf(s)
         /\ [s EXCEPT !.status = v].cleanup = s.cleanup
         /\ [s EXCEPT !.until = v].cleanup = s.cleanup
         /\ [s EXCEPT !.server = v].cleanup = s.cleanup
         /\ [s EXCEPT !.volume = v].cleanup = s.cleanup
         /\ [s EXCEPT !.cleanup = v].cleanup = v
BY DEF RunState, IdsOf

(* The stand-in for a missing file names nothing.                           *)
LEMMA NothingRecorded ==
  ASSUME NEW r
  PROVE  IdsOf(NoState(r)) = {} /\ Settled(NoState(r))
BY DEF NoState, IdsOf, Settled

(* Saving a settled state of run r.                                         *)
LEMMA SaveRecords ==
  ASSUME TypeOK, NEW r \in Runs, NEW s, s.run = r, Save(s), Settled(s),
         IdsOf(s) = IdsOf(mem[r])
  PROVE  RunSaves(r)
<1>1. disk' = [disk EXCEPT ![r] = s] /\ saved' = saved \cup IdsOf(s)
  BY DEF Save, IdsOf
<1>2. disk \in [Runs -> RunState]
  BY DEF TypeOK
<1>3. QED
  BY <1>1, <1>2 DEF RunSaves

(* What a run keeps when it goes on.                                        *)
RunKeeps(r) ==
    /\ RunSaves(r)
    /\ StageInv(r)' /\ Settled(mem[r])'
    /\ pc'[r] \notin DestroySteps \ {"volume1"}
    /\ Alive(r)' => IdsOf(mem[r]) \subseteq IdsOf(mem'[r])

(* The stages of a run that need its host.                                  *)
LEMMA HostRecords ==
  ASSUME TypeOK, NEW r \in Runs, mem[r].run = r, StageInv(r), Settled(mem[r]),
         pc[r] = "idle" => IdsOf(mem[r]) = {},
         \/ Start(r) \/ Inspect(r) \/ CreateServer(r) \/ RecordServer(r) \/ Boot(r)
         \/ CreateVolume(r) \/ RecordVolume(r) \/ Work(r) \/ Fail(r) \/ Interrupt(r)
  PROVE  RunKeeps(r)
<1> USE DEF StageInv, EarlyStages, HostStages, DestroySteps
<1>a. r \in Actors /\ mem[r] \in RunState
  BY DEF TypeOK, Actors
<1>b. mem \in [Actors -> RunState]
      /\ pc \in [Actors -> {"idle"} \cup RunStages \cup RunEnds \cup DestroySteps \cup JanitorStages]
  BY DEF TypeOK
<1>1. CASE Start(r)
  <2>. DEFINE s == [NoState(r) EXCEPT !.status = "running", !.started = now]
  <2>1. s.run = r /\ s.status = "running" /\ s.cleanup = "pending"
        /\ s.server = None /\ s.volume = None
    BY DEF NoState
  <2>2. pc'[r] = "inspect" /\ mem'[r] = s /\ Save(s)
    BY <1>1, <1>a, <1>b DEF Start, Goto
  <2>. HIDE DEF s
  <2>3. IdsOf(s) = {} /\ Settled(s) /\ IdsOf(mem[r]) = {}
    BY <1>1, <2>1 DEF Start, IdsOf, Settled
  <2>4. RunSaves(r)
    BY <2>1, <2>2, <2>3, SaveRecords
  <2>5. QED
    BY <2>1, <2>2, <2>3, <2>4 DEF RunKeeps
<1>2. Save(mem[r]) => RunSaves(r) /\ IdsOf(mem[r]) \subseteq saved'
  BY SaveRecords DEF Save, IdsOf
<1>3. CASE Inspect(r)
  <2>1. RunSaves(r) /\ IdsOf(mem[r]) \subseteq saved'
    BY <1>2, <1>3 DEF Inspect
  <2>2. /\ mem[r].server = None /\ mem[r].volume = None
        /\ mem[r].status # "absent" /\ mem[r].cleanup = "pending"
    BY <1>3 DEF Inspect
  <2>3. CASE mem'[r] = [mem[r] EXCEPT !.cleanup = "not_needed"] /\ pc'[r] = "report"
    BY <2>1, <2>2, <2>3, <1>a, RecordedUpdates, FieldUpdates DEF RunKeeps, IdsOf, Settled
  <2>4. CASE mem' = mem /\ pc'[r] = "provision"
    BY <2>1, <2>2, <2>4 DEF RunKeeps, Settled
  <2>5. QED
    BY <1>3, <1>a, <1>b, <2>3, <2>4 DEF Inspect, Goto
<1>4. CASE CreateServer(r)
  <2>1. RunSaves(r) /\ IdsOf(mem[r]) \subseteq saved'
    BY <1>2, <1>4 DEF CreateServer
  <2>2. /\ mem[r].server = None /\ mem[r].volume = None
        /\ mem[r].status # "absent" /\ mem[r].cleanup = "pending"
    BY <1>4 DEF CreateServer
  <2>3. CASE mem' = mem /\ pc'[r] = "report"
    BY <2>1, <2>2, <2>3 DEF RunKeeps
  <2>4. ASSUME NEW got, mem'[r] = [mem[r] EXCEPT !.server = got], pc'[r] = "record"
        PROVE  RunKeeps(r)
    BY <2>1, <2>2, <2>4, <1>a, RecordedUpdates, FieldUpdates DEF RunKeeps, IdsOf, Settled
  <2>5. QED
    BY <1>4, <1>a, <1>b, <2>3, <2>4 DEF CreateServer, Goto, Fatal
<1>5. CASE RecordServer(r) \/ Boot(r) \/ RecordVolume(r) \/ Work(r)
  <2>1. RunSaves(r) /\ IdsOf(mem[r]) \subseteq saved' /\ mem' = mem
    BY <1>2, <1>5 DEF RecordServer, Boot, RecordVolume, Work
  <2>2. /\ pc[r] \in HostStages
        /\ pc'[r] \in {"boot", "volume", "work", "report"}
        /\ pc'[r] \in {"boot", "volume"} => pc[r] \in {"record", "boot"}
    BY <1>5, <1>a, <1>b DEF RecordServer, Boot, RecordVolume, Work, Goto
  <2>3. QED
    BY <2>1, <2>2 DEF RunKeeps
<1>6. CASE CreateVolume(r)
  <2>1. RunSaves(r)
    BY <1>6 DEF CreateVolume, RunSaves
  <2>2. mem[r].volume = None /\ mem[r].status # "absent" /\ mem[r].cleanup = "pending"
    BY <1>6 DEF CreateVolume
  <2>3. CASE mem' = mem /\ pc'[r] = "report"
    BY <2>1, <2>2, <2>3 DEF RunKeeps
  <2>4. ASSUME NEW got, mem'[r] = [mem[r] EXCEPT !.volume = got], pc'[r] = "attach"
        PROVE  RunKeeps(r)
    BY <2>1, <2>2, <2>4, <1>a, RecordedUpdates, FieldUpdates DEF RunKeeps, IdsOf, Settled
  <2>5. QED
    BY <1>6, <1>a, <1>b, <2>3, <2>4 DEF CreateVolume, Goto, Fatal
<1>7. CASE Fail(r)
  <2>1. NoSave /\ mem' = mem /\ pc'[r] = "report" /\ pc[r] \in EarlyStages \cup HostStages
    BY <1>7, <1>a, <1>b DEF Fail, Fatal, Goto
  <2>2. QED
    BY <2>1 DEF RunKeeps, RunSaves
<1>8. CASE Interrupt(r)
  <2>. DEFINE s == [mem[r] EXCEPT !.status = "interrupted"]
  <2>1. /\ NoSave /\ mem'[r] = s /\ pc'[r] = "report"
        /\ pc[r] \in EarlyStages \cup HostStages
    BY <1>8, <1>a, <1>b DEF Interrupt, Fatal, Goto
  <2>2. IdsOf(s) = IdsOf(mem[r]) /\ s.cleanup = mem[r].cleanup /\ s.status = "interrupted"
    BY <1>a DEF RunState, IdsOf
  <2>. HIDE DEF s
  <2>3. mem[r].cleanup = "pending"
    BY <2>1
  <2>4. QED
    BY <2>1, <2>2, <2>3 DEF RunKeeps, RunSaves, Settled
<1>9. QED
  BY <1>1, <1>3, <1>4, <1>5, <1>6, <1>7, <1>8

(* The end of a run, outside destroy_run.                                   *)
LEMMA EndRecords ==
  ASSUME TypeOK, NEW r \in Runs, mem[r].run = r, StageInv(r), Settled(mem[r]),
         \A q \in Runs : Settled(disk[q]),
         Report(r) \/ Cleanup(r) \/ Verify(r) \/ Finish(r) \/ Escape(r) \/ Crash(r)
  PROVE  RunKeeps(r)
<1> USE DEF StageInv, EarlyStages, HostStages, DestroySteps
<1>a. r \in Actors /\ mem[r] \in RunState
  BY DEF TypeOK, Actors
<1>b. mem \in [Actors -> RunState] /\ disk \in [Runs -> RunState]
      /\ pc \in [Actors -> {"idle"} \cup RunStages \cup RunEnds \cup DestroySteps \cup JanitorStages]
  BY DEF TypeOK
<1>c. ASSUME NEW s, s.run = r, Save(s), Settled(s), IdsOf(s) = IdsOf(mem[r])
      PROVE  RunSaves(r) /\ IdsOf(mem[r]) \subseteq saved'
  <2>1. RunSaves(r)
    BY <1>c, SaveRecords
  <2>2. QED
    BY <1>c, <2>1 DEF Save, IdsOf
<1>1. CASE Report(r)
  <2>. DEFINE s == IF Retains(r) THEN [mem[r] EXCEPT !.until = now + RetainFor] ELSE mem[r]
  <2>1. mem'[r] = s /\ Save(s) /\ pc'[r] = "cleanup" /\ pc[r] = "report"
    BY <1>1, <1>a, <1>b DEF Report, Goto
  <2>2. /\ s.run = r /\ IdsOf(s) = IdsOf(mem[r])
        /\ s.cleanup = mem[r].cleanup /\ s.status = mem[r].status
    <3>. DEFINE t == [mem[r] EXCEPT !.until = now + RetainFor]
    <3>1. /\ t.run = mem[r].run /\ IdsOf(t) = IdsOf(mem[r])
          /\ t.cleanup = mem[r].cleanup /\ t.status = mem[r].status
      BY <1>a DEF RunState, IdsOf
    <3>. HIDE DEF t
    <3>2. s \in {t, mem[r]}
      BY DEF t
    <3>. HIDE DEF s
    <3>3. QED
      BY <3>1, <3>2
  <2>. HIDE DEF s
  <2>3. Settled(s)
    BY <2>2 DEF Settled
  <2>4. RunSaves(r) /\ IdsOf(mem[r]) \subseteq saved'
    BY <1>c, <2>1, <2>2, <2>3
  <2>5. QED
    BY <2>1, <2>2, <2>3, <2>4 DEF RunKeeps
<1>2. CASE Cleanup(r)
  <2>0. pc[r] = "cleanup" /\ IdsOf(mem[r]) \subseteq saved
    BY <1>2 DEF Cleanup
  <2>1. CASE /\ ~HasCloudResources(mem[r]) /\ NoSave /\ pc'[r] = "finish"
             /\ mem'[r] = [mem[r] EXCEPT !.cleanup = "not_needed"]
    <3>1. IdsOf(mem[r]) = {}
      BY <2>1 DEF HasCloudResources, IdsOf
    <3>2. IdsOf(mem'[r]) = {}
      BY <2>1, <3>1, <1>a DEF RunState, IdsOf
    <3>3. QED
      BY <2>1, <3>1, <3>2 DEF RunKeeps, RunSaves, Settled
  <2>2. ASSUME NEW s, s = [mem[r] EXCEPT !.status = "retained"], mem'[r] = s, Save(s),
               HasCloudResources(mem[r]), pc'[r] = "finish"
        PROVE  RunKeeps(r)
    <3>1. /\ s.run = r /\ IdsOf(s) = IdsOf(mem[r]) /\ s.cleanup = mem[r].cleanup
          /\ s.status = "retained"
      BY <2>2, <1>a DEF RunState, IdsOf
    <3>2. IdsOf(mem[r]) # {}
      BY <2>2 DEF HasCloudResources, IdsOf
    <3>3. Settled(s)
      BY <3>1, <3>2 DEF Settled
    <3>4. RunSaves(r)
      BY <1>c, <2>2, <3>1, <3>3
    <3>5. IdsOf(mem[r]) \subseteq saved'
      BY <1>c, <2>2, <3>1, <3>3
    <3>6. QED
      BY <2>2, <3>1, <3>3, <3>4, <3>5 DEF RunKeeps
  <2>3. CASE mem' = mem /\ NoSave /\ pc'[r] = "volume1"
    BY <2>0, <2>3 DEF RunKeeps, RunSaves, NoSave
  <2>4. QED
    BY <1>2, <1>a, <1>b, <2>1, <2>2, <2>3 DEF Cleanup, Goto
<1>3. CASE Verify(r)
  <2>0. pc[r] = "verify" /\ IdsOf(mem[r]) \subseteq saved /\ pc'[r] = "finish"
    BY <1>3, <1>a, <1>b DEF Verify, Goto
  <2>1. CASE mem' = mem /\ NoSave
    BY <2>0, <2>1 DEF RunKeeps, RunSaves, NoSave
  <2>2. ASSUME NEW s, s = [mem[r] EXCEPT !.cleanup = "failed"], mem'[r] = s, Save(s)
        PROVE  RunKeeps(r)
    <3>1. /\ s.run = r /\ IdsOf(s) = IdsOf(mem[r]) /\ s.cleanup = "failed"
          /\ s.status = mem[r].status
      BY <2>2, <1>a DEF RunState, IdsOf
    <3>2. Settled(s)
      BY <3>1 DEF Settled
    <3>3. RunSaves(r) /\ IdsOf(mem[r]) \subseteq saved'
      BY <1>c, <2>2, <3>1, <3>2
    <3>4. QED
      BY <2>0, <2>2, <3>1, <3>2, <3>3 DEF RunKeeps
  <2>3. QED
    BY <1>3, <1>a, <1>b, <2>1, <2>2 DEF Verify
<1>4. CASE Escape(r) \/ Crash(r) \/ Finish(r)
  <2>1. pc'[r] \in RunEnds /\ mem'[r] = NoState(r)
    BY <1>4, <1>a, <1>b DEF Escape, Crash, Finish, Leave, Goto, RunEnds
  <2>2. RunSaves(r) => RunKeeps(r)
    BY <2>1, NothingRecorded DEF RunKeeps, RunEnds, Alive
  <2>3. CASE Escape(r) \/ Crash(r)
    BY <2>2, <2>3 DEF Escape, Crash, RunSaves
  <2>4. CASE Finish(r)
    <3>. DEFINE s == IF mem[r].status \in {"retained", "interrupted"} THEN mem[r]
                     ELSE [mem[r] EXCEPT !.status =
                             IF bad[r] \/ out[r] = "error" THEN "failed" ELSE "finished"]
                d == [disk EXCEPT ![r] = s]
    <3>1. /\ disk' = [q \in Runs |-> IF q \in Pruned(d) THEN NoState(q) ELSE d[q]]
          /\ saved' = saved \cup IdsOf(s)
      BY <2>4 DEF Finish, IdsOf
    <3>2. /\ IdsOf(s) = IdsOf(mem[r]) /\ s.cleanup = mem[r].cleanup
          /\ s.status = "absent" => mem[r].status = "absent"
      <4>1. ASSUME NEW v, v \in {"failed", "finished"}, NEW t, t = [mem[r] EXCEPT !.status = v]
            PROVE  /\ IdsOf(t) = IdsOf(mem[r]) /\ t.cleanup = mem[r].cleanup
                   /\ t.status # "absent"
        BY <4>1, <1>a DEF RunState, IdsOf
      <4>2. s = mem[r] \/ \E v \in {"failed", "finished"} : s = [mem[r] EXCEPT !.status = v]
        OBVIOUS
      <4>. HIDE DEF s
      <4>3. QED
        BY <4>1, <4>2
    <3>. HIDE DEF s
    <3>3. Settled(s)
      BY <3>2 DEF Settled
    <3>4. d[r] = s /\ \A q \in Runs \ {r} : d[q] = disk[q]
      BY <1>b
    <3>. HIDE DEF d
    <3>5. ASSUME NEW q \in Pruned(d) PROVE q \in Runs /\ IdsOf(d[q]) = {}
      <4>1. q \in Runs /\ ~NeedsCleanup(d[q])
        BY DEF Pruned, Prunable
      <4>2. Settled(d[q])
        BY <3>3, <3>4, <4>1
      <4>3. QED
        BY <4>1, <4>2 DEF NeedsCleanup, HasCloudResources, Settled, IdsOf
    <3>6. RunSaves(r)
      <4>1. IdsOf(disk'[r]) = IdsOf(mem[r]) /\ Settled(disk'[r])
        BY <3>1, <3>2, <3>3, <3>4, <3>5, NothingRecorded
      <4>2. ASSUME NEW q \in Runs \ {r}
            PROVE  disk'[q] = disk[q] \/ (IdsOf(disk[q]) = {} /\ disk'[q] = NoState(q))
        BY <3>1, <3>4, <3>5
      <4>3. QED
        BY <3>1, <3>2, <4>1, <4>2 DEF RunSaves
    <3>7. QED
      BY <2>2, <3>6
  <2>5. QED
    BY <1>4, <2>3, <2>4
<1>5. QED
  BY <1>1, <1>2, <1>3, <1>4

-----------------------------------------------------------------------------
(* What the destruction of resources does to the records.                   *)

(* `cleanup` talks to the account every run was started in.                 *)
AccountKept == \A r \in Runs : ProviderOf[r] = Configured

(* A delete that returned without an error leaves nothing running.          *)
LEMMA DeleteWorks ==
  ASSUME TypeOK, AccountKept, NEW i \in Ids, owner[i] \in Runs, Delete(i, Configured)
  PROVE  st'[i] # "live"
BY DEF AccountKept, Delete, Exists, TypeOK

(* destroy_run forgets an id only when the resource is gone, says "done"    *)
(* only when it names none, and saves what it still knows.                  *)
DestroyKeeps(a, d) ==
    /\ Cleared(a)' /\ Settled(mem[a])'
    /\ IdsOf(mem'[a]) \subseteq IdsOf(mem[a])
    /\ \/ /\ NoSave
          /\ \A i \in IdsOf(mem[a]) \ IdsOf(mem'[a]) : st'[i] # "live"
       \/ /\ pc[a] = "conclude" /\ st' = st
          /\ saved' = saved \cup IdsOf(mem[a])
          /\ IdsOf(disk'[d]) = IdsOf(mem[a]) /\ Settled(disk'[d])
          /\ a \in Runs => IdsOf(mem'[a]) = IdsOf(mem[a])
          /\ pc'[a] \notin DestroySteps

(* One volume of the run. *)
LEMMA VolumeRecords ==
  ASSUME TypeOK, OwnInv, AccountKept, NEW a \in Actors, NEW d \in Runs, d = mem[a].run,
         Settled(mem[a]), Cleared(a),
         \/ DestroyVolume(a, "volume1", "server")
         \/ DestroyVolume(a, "volume2", "conclude")
  PROVE  DestroyKeeps(a, d)
<1>a. /\ mem[a] \in RunState /\ failed[a] \in BOOLEAN
      /\ mem \in [Actors -> RunState] /\ failed \in [Actors -> BOOLEAN]
      /\ pc \in [Actors -> {"idle"} \cup RunStages \cup RunEnds \cup DestroySteps \cup JanitorStages]
  BY DEF TypeOK
<1>b. NoSave /\ Account(a) = Configured
  BY DEF DestroyVolume, Account, AccountKept
<1>c. \/ pc[a] = "volume1" /\ pc'[a] = "server"
      \/ pc[a] = "volume2" /\ pc'[a] = "conclude"
  BY <1>a DEF DestroyVolume, Goto
<1>1. CASE mem[a].volume = None /\ mem' = mem /\ failed' = failed
  BY <1>1, <1>b, <1>c DEF DestroyKeeps, Cleared
<1>2. CASE /\ mem[a].volume # None /\ Delete(mem[a].volume, Configured) /\ failed' = failed
           /\ mem' = [mem EXCEPT ![a].volume = None]
  <2>1. mem[a].volume \in Ids /\ owner[mem[a].volume] = d
    BY <1>2, <1>a DEF OwnInv, Owns, RunState, Ids
  <2>2. st'[mem[a].volume] # "live"
    BY <1>2, <2>1, DeleteWorks
  <2>3. mem'[a] = [mem[a] EXCEPT !.volume = None]
    BY <1>2, <1>a
  <2>4. /\ mem'[a].volume = None /\ mem'[a].server = mem[a].server
        /\ mem'[a].status = mem[a].status /\ mem'[a].cleanup = mem[a].cleanup
    BY <2>3, <1>a DEF RunState
  <2>5. /\ IdsOf(mem'[a]) \subseteq IdsOf(mem[a])
        /\ IdsOf(mem[a]) \ IdsOf(mem'[a]) \subseteq {mem[a].volume}
    BY <2>4 DEF IdsOf
  <2>6. Settled(mem'[a])
    BY <2>4, <2>5 DEF Settled
  <2>7. Cleared(a)'
    BY <1>2, <1>c, <2>4 DEF Cleared
  <2>8. QED
    BY <1>b, <2>2, <2>5, <2>6, <2>7 DEF DestroyKeeps
<1>3. CASE mem' = mem /\ failed' = [failed EXCEPT ![a] = TRUE]
  BY <1>3, <1>a, <1>b DEF DestroyKeeps, Cleared
<1>4. QED
  BY <1>b, <1>1, <1>2, <1>3 DEF DestroyVolume, DeleteOk

(* Its server. *)
LEMMA ServerRecords ==
  ASSUME TypeOK, OwnInv, AccountKept, NEW a \in Actors, NEW d \in Runs, d = mem[a].run,
         Settled(mem[a]), Cleared(a), DestroyServer(a)
  PROVE  DestroyKeeps(a, d)
<1>a. /\ mem[a] \in RunState /\ failed[a] \in BOOLEAN
      /\ mem \in [Actors -> RunState] /\ failed \in [Actors -> BOOLEAN]
      /\ pc \in [Actors -> {"idle"} \cup RunStages \cup RunEnds \cup DestroySteps \cup JanitorStages]
  BY DEF TypeOK
<1>b. NoSave /\ Account(a) = Configured
  BY DEF DestroyServer, Account, AccountKept
<1>c. pc[a] = "server" /\ pc'[a] = "volume2"
  BY <1>a DEF DestroyServer, Goto
<1>1. CASE mem[a].server = None /\ mem' = mem /\ failed' = failed
  BY <1>1, <1>b, <1>c DEF DestroyKeeps, Cleared
<1>2. CASE /\ mem[a].server # None /\ Delete(mem[a].server, Configured) /\ failed' = failed
           /\ mem' = [mem EXCEPT ![a].server = None]
  <2>1. mem[a].server \in Ids /\ owner[mem[a].server] = d
    BY <1>2, <1>a DEF OwnInv, Owns, RunState, Ids
  <2>2. st'[mem[a].server] # "live"
    BY <1>2, <2>1, DeleteWorks
  <2>3. mem'[a] = [mem[a] EXCEPT !.server = None]
    BY <1>2, <1>a
  <2>4. /\ mem'[a].server = None /\ mem'[a].volume = mem[a].volume
        /\ mem'[a].status = mem[a].status /\ mem'[a].cleanup = mem[a].cleanup
    BY <2>3, <1>a DEF RunState
  <2>5. /\ IdsOf(mem'[a]) \subseteq IdsOf(mem[a])
        /\ IdsOf(mem[a]) \ IdsOf(mem'[a]) \subseteq {mem[a].server}
    BY <2>4 DEF IdsOf
  <2>6. Settled(mem'[a])
    BY <2>4, <2>5 DEF Settled
  <2>7. Cleared(a)'
    BY <1>2, <1>c, <2>4 DEF Cleared
  <2>8. QED
    BY <1>b, <2>2, <2>5, <2>6, <2>7 DEF DestroyKeeps
<1>3. CASE mem' = mem /\ failed' = [failed EXCEPT ![a] = TRUE]
  BY <1>3, <1>a, <1>b DEF DestroyKeeps, Cleared
<1>4. QED
  BY <1>b, <1>1, <1>2, <1>3 DEF DestroyServer, DeleteOk

(* What it writes in the end. *)
LEMMA ConcludeRecords ==
  ASSUME TypeOK, NEW a \in Actors, NEW d \in Runs, d = mem[a].run,
         Settled(mem[a]), Cleared(a), Conclude(a)
  PROVE  DestroyKeeps(a, d)
<1>a. /\ mem[a] \in RunState /\ failed[a] \in BOOLEAN
      /\ mem \in [Actors -> RunState] /\ failed \in [Actors -> BOOLEAN]
      /\ disk \in [Runs -> RunState]
      /\ pc \in [Actors -> {"idle"} \cup RunStages \cup RunEnds \cup DestroySteps \cup JanitorStages]
  BY DEF TypeOK
<1>. DEFINE s == Concluded(mem[a], ~failed[a])
<1>1. /\ Save(s) /\ mem' = [mem EXCEPT ![a] = IF a \in Runs THEN s ELSE NoState(s.run)]
      /\ pc[a] = "conclude" /\ st' = st
  BY DEF Conclude, cloudVars
<1>2. s.run = d /\ s.server = mem[a].server /\ s.volume = mem[a].volume
  BY <1>a, ConcludedFields
<1>3. ~failed[a] => mem[a].server = None /\ mem[a].volume = None
  BY <1>1 DEF Cleared
<1>4. failed[a] => s.cleanup = "failed" /\ s.status = mem[a].status
  BY <1>a DEF Concluded, RunState
<1>5. pc'[a] \in {"verify", "finish", "expire", "idle"}
  BY <1>a DEF Conclude, Goto
<1>. HIDE DEF s
<1>6. IdsOf(s) = IdsOf(mem[a])
  BY <1>2 DEF IdsOf
<1>7. Settled(s)
  BY <1>2, <1>3, <1>4, <1>6, <1>a DEF Settled, IdsOf
<1>8. disk'[d] = s /\ saved' = saved \cup IdsOf(mem[a])
  BY <1>1, <1>2, <1>6, <1>a DEF Save, IdsOf
<1>9. mem'[a] = IF a \in Runs THEN s ELSE NoState(d)
  BY <1>1, <1>2, <1>a
<1>10. Settled(mem'[a]) /\ IdsOf(mem'[a]) \subseteq IdsOf(mem[a])
       /\ (a \in Runs => IdsOf(mem'[a]) = IdsOf(mem[a]))
  BY <1>6, <1>7, <1>9, NothingRecorded
<1>11. QED
  BY <1>1, <1>5, <1>6, <1>7, <1>8, <1>10 DEF DestroyKeeps, Cleared, DestroySteps

(* destroy_resources takes the one id it destroyed out of the state file.   *)
LEMMA ForgottenRecords ==
  ASSUME NEW s \in RunState, NEW i \in Ids, Settled(s)
  PROVE  /\ IdsOf(Forgotten(s, i)) = IdsOf(s) \ {i}
         /\ Settled(Forgotten(s, i))
<1>. DEFINE t == [s EXCEPT !.server = IF @ = i THEN None ELSE @,
                           !.volume = IF @ = i THEN None ELSE @]
            u == [t EXCEPT !.cleanup = "done",
                           !.status = IF @ \in {"running", "retained"} THEN "finished" ELSE @]
<1>0. Forgotten(s, i) = IF HasCloudResources(t) THEN t ELSE u
  BY DEF Forgotten
<1>1. /\ t.server = IF s.server = i THEN None ELSE s.server
      /\ t.volume = IF s.volume = i THEN None ELSE s.volume
      /\ t.status = s.status /\ t.cleanup = s.cleanup
  BY DEF RunState
<1>2. u.server = t.server /\ u.volume = t.volume
  BY DEF RunState
<1>. HIDE DEF t, u
<1>3. IdsOf(t) = IdsOf(s) \ {i} /\ IdsOf(u) = IdsOf(t)
  BY <1>1, <1>2 DEF IdsOf
<1>4. ~HasCloudResources(t) => IdsOf(t) = {}
  BY DEF HasCloudResources, IdsOf
<1>5. QED
  BY <1>0, <1>1, <1>3, <1>4 DEF Settled

-----------------------------------------------------------------------------
(* Every step keeps the records.                                            *)

(* What was recorded once keeps its label and never comes back to life.     *)
LEMMA SavedStable ==
  ASSUME IInv, FileInv, Next, NEW i \in saved
  PROVE  i \in Ids /\ owner'[i] = owner[i] /\ (st'[i] = "live" => st[i] = "live")
<1>a. /\ i \in Ids /\ owner[i] # None /\ st[i] # "unused"
      /\ st \in [Ids -> {"unused", "live", "deleting", "gone"}]
  BY DEF IInv, OwnInv, FileInv, TypeOK
<1>1. owner'[i] = owner[i]
  BY <1>a, OwnerStable
<1>2. ASSUME NEW q, NEW got, NEW extra, Create(q, got, extra),
             {got, extra} \ {None} \subseteq {x \in Ids : st[x] = "unused"}
      PROVE  st'[i] = st[i]
  BY <1>2, <1>a DEF Create
<1>3. ASSUME NEW j, NEW account, Delete(j, account)
      PROVE  st'[i] = "live" => st[i] = "live"
  BY <1>3, <1>a DEF Delete
<1>4. ASSUME NEW j, ProviderRemoves(j)
      PROVE  st'[i] = "live" => st[i] = "live"
  BY <1>4, <1>a DEF ProviderRemoves
<1>5. QED
  BY <1>a, <1>1, <1>2, <1>3, <1>4, CloudSteps DEF cloudVars, Unused, Ids

(* Saving what others recorded before leaves less outstanding, not more.    *)
LEMMA OutstandingShrinks ==
  ASSUME IInv, FileInv, Next, NEW r \in Runs,
         \A i \in saved' \ saved : owner'[i] # r
  PROVE  Outstanding(r)' \subseteq Outstanding(r)
BY SavedStable DEF Outstanding

(* A step of a run: it knows all that is outstanding, and saves it.         *)
LEMMA RunRecordsKept ==
  ASSUME IInv, RecordInv, Next, NEW r \in Runs, RunStep(r)
  PROVE  RecordInv'
<1>a. TypeOK /\ OwnInv /\ FileInv /\ mem[r].run = r /\ JanitorInv
  BY DEF IInv, OwnInv, RecordInv
<1>b. /\ Runs \subseteq Actors /\ Janitor \in Actors \ {r} /\ Operator \in Actors \ {r}
      /\ r \in Actors /\ Actors = Runs \cup {Janitor, Operator}
  BY ActorsDiffer DEF Actors
<1>c. \A i \in IdsOf(mem[r]) : i \in Ids /\ owner[i] = r
  <2>1. mem[r] \in RunState
    BY <1>a, <1>b DEF TypeOK
  <2>2. QED
    BY <2>1, <1>a, <1>b DEF OwnInv, Owns, IdsOf, RunState, Ids
<1>1. RunKeeps(r)
  <2>1. pc[r] = "idle" => IdsOf(mem[r]) = {}
    <3>1. pc[r] = "idle" => IdsOf(mem[r]) \subseteq saved
      BY <1>a DEF FileInv, StageInv
    <3>2. QED
      BY <1>a, <1>c DEF OwnInv
  <2>2. StageInv(r) /\ Settled(mem[r]) /\ \A q \in Runs : Settled(disk[q])
    BY <1>a, <1>b DEF FileInv
  <2>3. QED
    BY <2>1, <2>2, <1>a, HostRecords, EndRecords DEF RunStep
<1>2. /\ snap' = snap /\ todo' = todo /\ evicted' = evicted
      /\ \A a \in Actors \ {r} : pc'[a] = pc[a] /\ mem'[a] = mem[a]
  BY <1>a, RunFrame
<1>3. \A a \in Actors \ {r} : failed'[a] = failed[a]
  <2>1. failed \in [Actors -> BOOLEAN]
    BY <1>a DEF TypeOK
  <2>2. QED
    BY <2>1 DEF RunStep, Start, Inspect, CreateServer, RecordServer, Boot,
         CreateVolume, RecordVolume, Work, Fail, Interrupt, Report, Cleanup,
         Verify, Finish, Escape, Crash, Leave
<1>4. saved \subseteq saved' /\ saved' \subseteq saved \cup IdsOf(mem[r])
  BY <1>1 DEF RunKeeps, RunSaves, NoSave
<1>5. \A i \in saved' : owner'[i] # None
  <2>1. ASSUME NEW i \in saved' PROVE i \in Ids /\ owner[i] # None
    BY <1>4, <1>a, <1>c, NoneDiffers DEF FileInv, TypeOK
  <2>2. QED
    BY <2>1, OwnerStable
<1>6. ASSUME NEW q \in Runs
      PROVE  Settled(disk'[q]) /\ IdsOf(disk'[q]) \subseteq saved'
  BY <1>1, <1>4, <1>a, NothingRecorded DEF RunKeeps, RunSaves, NoSave, FileInv
<1>7. ASSUME NEW q \in Runs
      PROVE  StageInv(q)'
  <2>1. CASE q = r
    BY <1>1, <2>1 DEF RunKeeps
  <2>2. CASE q # r
    <3>1. StageInv(q) /\ pc'[q] = pc[q] /\ mem'[q] = mem[q]
      BY <2>2, <1>2, <1>a, <1>b DEF FileInv
    <3>2. QED
      BY <3>1, <1>4 DEF StageInv
  <2>3. QED
    BY <2>1, <2>2
<1>8. ASSUME NEW a \in Actors
      PROVE  Settled(mem'[a]) /\ Cleared(a)'
  <2>1. CASE a = r
    BY <1>1, <2>1 DEF RunKeeps, Cleared, DestroySteps
  <2>2. CASE a # r
    BY <1>2, <1>3, <2>2, <1>a DEF FileInv, Cleared
  <2>3. QED
    BY <2>1, <2>2
<1>9. FileInv'
  BY <1>2, <1>4, <1>5, <1>6, <1>7, <1>8, <1>a, <1>b DEF FileInv
<1>10. ASSUME NEW q \in Runs \ evicted'
       PROVE  Known(q)'
  <2>0. Known(q)
    BY <1>2 DEF RecordInv
  <2>1. CASE q # r
    <3>1. Outstanding(q)' \subseteq Outstanding(q)
      <4>1. \A i \in saved' \ saved : owner'[i] # q
        BY <1>4, <1>c, <2>1, NoneDiffers, OwnerStable
      <4>2. QED
        BY <4>1, <1>a, OutstandingShrinks
    <3>2. disk'[q] = disk[q] \/ IdsOf(disk[q]) = {}
      BY <2>1, <1>1 DEF RunKeeps, RunSaves, NoSave
    <3>3. pc'[q] = pc[q] /\ mem'[q] = mem[q] /\ pc'[Janitor] = pc[Janitor]
          /\ mem'[Janitor] = mem[Janitor]
      BY <1>2, <1>b, <2>1
    <3>4. QED
      BY <3>1, <3>2, <3>3, <2>0, <1>2 DEF Known, Alive
  <2>2. CASE q = r
    <3>1. Outstanding(r) \subseteq IdsOf(mem[r])
      <4>1. CASE pc[r] = "idle"
        BY <4>1, <1>a DEF Outstanding, OwnInv, TypeOK
      <4>2. CASE pc[r] # "idle"
        <5>1. Alive(r)
          BY <4>2 DEF RunStep, Start, Inspect, CreateServer, RecordServer, Boot,
               CreateVolume, RecordVolume, Work, Fail, Interrupt, Report, Cleanup,
               Verify, Finish, Escape, Crash, Alive, RunEnds
        <5>2. QED
          BY <5>1, <2>0, <2>2 DEF Known
      <4>3. QED
        BY <4>1, <4>2
    <3>2. Outstanding(r)' \subseteq Outstanding(r) \cup IdsOf(mem[r])
      BY <1>4, <1>a, SavedStable DEF Outstanding
    <3>3. Outstanding(r)' \subseteq IdsOf(disk'[r])
      <4>1. CASE NoSave
        <5>1. Outstanding(r)' \subseteq Outstanding(r) /\ disk' = disk
          BY <4>1, <1>a, SavedStable DEF Outstanding, NoSave
        <5>2. QED
          BY <5>1, <2>0, <2>2 DEF Known
      <4>2. CASE ~NoSave
        BY <4>2, <3>1, <3>2, <1>1 DEF RunKeeps, RunSaves
      <4>3. QED
        BY <4>1, <4>2
    <3>4. Alive(r)' => Outstanding(r)' \subseteq IdsOf(mem'[r])
      BY <3>1, <3>2, <1>1 DEF RunKeeps
    <3>5. pc[r] \in {"finish"} \cup RunEnds => Outstanding(r)' \subseteq Outstanding(r)
      <4>1. pc[r] \in {"finish"} \cup RunEnds => IdsOf(mem[r]) \subseteq saved
        BY <1>a DEF FileInv, StageInv, RunEnds
      <4>2. QED
        BY <4>1, <1>4, <1>a, SavedStable DEF Outstanding
    <3>6. /\ r \in todo => pc[r] \in {"finish"} \cup RunEnds
          /\ pc[Janitor] \in DestroySteps /\ mem[Janitor].run = r => pc[r] \in {"finish"} \cup RunEnds
      BY <1>2, <1>a, <2>2 DEF JanitorInv
    <3>7. QED
      BY <3>3, <3>4, <3>5, <3>6, <2>0, <2>2, <1>2, <1>b DEF Known
  <2>3. QED
    BY <2>1, <2>2
<1>11. QED
  BY <1>9, <1>10 DEF RecordInv

(* A step of destroy_run: whoever executes it knew what it now forgets.     *)
LEMMA DestroyRecordsKept ==
  ASSUME IInv, RecordInv, Next, AccountKept, NEW a \in Actors, DestroyRun(a)
  PROVE  RecordInv'
<1>. DEFINE d == mem[a].run
<1>a. TypeOK /\ OwnInv /\ FileInv /\ JanitorInv
  BY DEF IInv, RecordInv
<1>b. /\ Runs \subseteq Actors /\ Janitor \in Actors /\ Operator \in Actors
      /\ Actors = Runs \cup {Janitor, Operator}
      /\ Janitor \notin Runs /\ Operator \notin Runs /\ Janitor # Operator
  BY ActorsDiffer DEF Actors
<1>c. d \in Runs /\ (a \in Runs => d = a)
  BY <1>a, Fields DEF TypeOK, OwnInv
<1>. HIDE DEF d
<1>1. DestroyKeeps(a, d)
  <2>1. Settled(mem[a]) /\ Cleared(a)
    BY <1>a DEF FileInv
  <2>2. QED
    BY <2>1, <1>a, <1>c, VolumeRecords, ServerRecords, ConcludeRecords DEF DestroyRun, d
<1>2. /\ evicted' = evicted /\ snap' = snap /\ todo' = todo
      /\ pc[a] \in DestroySteps
      /\ pc'[a] \in DestroySteps \cup {"verify", "finish", "expire", "idle"}
      /\ \A b \in Actors \ {a} : pc'[b] = pc[b] /\ mem'[b] = mem[b]
      /\ \A q \in Runs \ {d} : disk'[q] = disk[q]
      /\ mem'[a].run = d
  BY <1>a, <1>c, DestroyFrame DEF d
<1>3. IdsOf(mem[a]) \subseteq saved
  <2>1. CASE a \in Runs
    BY <2>1, <1>2, <1>a DEF FileInv, StageInv, DestroySteps
  <2>2. CASE a \notin Runs
    BY <2>2, <1>a, <1>b DEF FileInv
  <2>3. QED
    BY <2>1, <2>2
<1>4. saved' = saved
  BY <1>1, <1>3 DEF DestroyKeeps, NoSave
<1>5. \A b \in Actors \ {a} : failed'[b] = failed[b]
  <2>1. failed \in [Actors -> BOOLEAN]
    BY <1>a DEF TypeOK
  <2>2. QED
    BY <2>1 DEF DestroyRun, DestroyVolume, DestroyServer, Conclude
<1>6. ASSUME NEW q \in Runs
      PROVE  Settled(disk'[q]) /\ IdsOf(disk'[q]) \subseteq saved
  BY <1>1, <1>2, <1>3, <1>a, <1>c DEF DestroyKeeps, NoSave, FileInv
<1>7. ASSUME NEW q \in Runs
      PROVE  StageInv(q)'
  <2>0. StageInv(q)
    BY <1>a DEF FileInv
  <2>1. CASE q = a
    <3>1. IdsOf(mem'[q]) \subseteq saved
      BY <2>1, <1>1, <1>3 DEF DestroyKeeps
    <3>2. QED
      BY <2>1, <3>1, <1>2, <1>4 DEF StageInv, DestroySteps, EarlyStages, HostStages
  <2>2. CASE q # a
    BY <2>0, <2>2, <1>2, <1>4, <1>b DEF StageInv
  <2>3. QED
    BY <2>1, <2>2
<1>8. ASSUME NEW b \in Actors
      PROVE  Settled(mem'[b]) /\ Cleared(b)'
  <2>1. CASE b = a
    BY <1>1, <2>1 DEF DestroyKeeps
  <2>2. CASE b # a
    BY <1>2, <1>5, <2>2, <1>a DEF FileInv, Cleared
  <2>3. QED
    BY <2>1, <2>2
<1>9. FileInv'
  <2>1. \A i \in saved' : owner'[i] # None
    BY <1>4, <1>a, SavedStable DEF FileInv
  <2>2. \A b \in {Janitor, Operator} : IdsOf(mem'[b]) \subseteq saved'
    BY <1>1, <1>2, <1>4, <1>a, <1>b DEF FileInv, DestroyKeeps
  <2>3. QED
    BY <2>1, <2>2, <1>2, <1>4, <1>6, <1>7, <1>8, <1>a DEF FileInv
<1>10. ASSUME NEW q \in Runs \ evicted'
       PROVE  Known(q)'
  <2>0. Known(q) /\ q \in Runs \ evicted
    BY <1>2 DEF RecordInv
  <2>1. Outstanding(q)' \subseteq Outstanding(q)
    BY <1>4, <1>a, SavedStable DEF Outstanding
  <2>2. a = Operator => q # d
    BY <2>0, <1>2, <1>a DEF JanitorInv, d
  <2>3. d = q => Outstanding(q) \subseteq IdsOf(mem[a])
    <3>1. CASE a = Janitor /\ d = q
      BY <3>1, <2>0, <1>2 DEF Known, d
    <3>2. CASE a \in Runs /\ d = q
      <4>1. a = q /\ Alive(q)
        BY <3>2, <1>2, <1>c DEF Alive, DestroySteps, RunEnds
      <4>2. QED
        BY <4>1, <2>0 DEF Known
    <3>3. QED
      BY <3>1, <3>2, <2>2, <1>b
  <2>4. Outstanding(q)' \subseteq IdsOf(disk'[q])
    BY <2>0, <2>1, <2>3, <1>1, <1>2 DEF Known, DestroyKeeps, NoSave
  <2>5. d = q /\ (a \in Runs \/ pc'[a] \in DestroySteps) => Outstanding(q)' \subseteq IdsOf(mem'[a])
    <3>1. \A i \in Outstanding(q)' : st'[i] = "live"
      BY DEF Outstanding
    <3>2. QED
      BY <3>1, <2>1, <2>3, <1>1 DEF DestroyKeeps
  <2>6. Alive(q)' => Outstanding(q)' \subseteq IdsOf(mem'[q])
    <3>1. CASE q = a
      BY <3>1, <2>5, <1>c
    <3>2. CASE q # a
      BY <3>2, <2>0, <2>1, <1>2, <1>b DEF Known, Alive
    <3>3. QED
      BY <3>1, <3>2
  <2>7. pc'[Janitor] \in DestroySteps /\ mem'[Janitor].run = q =>
          Outstanding(q)' \subseteq IdsOf(mem'[Janitor])
    <3>1. CASE a = Janitor
      BY <3>1, <2>5, <1>2
    <3>2. CASE a # Janitor
      BY <3>2, <2>0, <2>1, <1>2, <1>b DEF Known
    <3>3. QED
      BY <3>1, <3>2
  <2>8. q \in todo' => Outstanding(q)' \subseteq IdsOf(snap'[q])
    BY <2>0, <2>1, <1>2 DEF Known
  <2>9. QED
    BY <2>4, <2>6, <2>7, <2>8 DEF Known
<1>11. QED
  BY <1>9, <1>10 DEF RecordInv

(* The steps of `cleanup` outside destroy_run and destroy_resources only    *)
(* read the state files.                                                    *)
LEMMA JanitorReads ==
  ASSUME TypeOK, OwnInv, JanitorStep, ~(\E i \in Ids : JanitorReaps(i))
  PROVE  /\ NoSave /\ UNCHANGED cloudVars
         /\ \A q \in Runs : snap'[q] \in {snap[q], disk[q], NoState(q)}
         /\ todo' = {} \/ (todo' \subseteq todo /\ snap' = snap) \/ snap' = disk
         /\ \/ mem'[Janitor] = mem[Janitor] /\ pc'[Janitor] \notin DestroySteps
            \/ \E q \in Runs : mem'[Janitor] = NoState(q) /\ pc'[Janitor] \notin DestroySteps
            \/ \E q \in todo : mem'[Janitor] = snap[q] /\ pc'[Janitor] = "volume1"
         /\ \A a \in Actors \ {Janitor} : failed'[a] = failed[a]
<1> USE DEF NoSave, cloudVars, DestroySteps
<1>a. /\ Janitor \in Actors /\ mem[Janitor].run \in Runs
      /\ failed \in [Actors -> BOOLEAN] /\ mem \in [Actors -> RunState]
      /\ snap \in [Runs -> RunState] /\ todo \subseteq Runs
      /\ pc \in [Actors -> {"idle"} \cup RunStages \cup RunEnds \cup DestroySteps \cup JanitorStages]
  BY Fields DEF TypeOK, Actors
<1>1. CASE JanitorWakes
  BY <1>1, <1>a DEF JanitorWakes, Goto
<1>2. CASE JanitorLists
  BY <1>2, <1>a DEF JanitorLists, Goto
<1>3. CASE JanitorFinds
  <2>1. CASE JanitorRests
    BY <1>3, <2>1, <1>a DEF JanitorFinds, JanitorRests, Goto
  <2>2. CASE Goto(Janitor, "reap") /\ UNCHANGED <<snap, todo>>
    BY <1>3, <2>2, <1>a DEF JanitorFinds, Goto
  <2>3. QED
    BY <1>3, <2>1, <2>2 DEF JanitorFinds
<1>4. CASE JanitorDone
  BY <1>4, <1>a DEF JanitorDone, JanitorRests, Goto
<1>5. CASE JanitorStops
  BY <1>5, <1>a DEF JanitorStops, JanitorRests, Goto
<1>6. ASSUME NEW q \in Runs, JanitorExpires(q)
      PROVE  /\ NoSave /\ UNCHANGED cloudVars /\ snap' = snap /\ todo' \subseteq todo
             /\ q \in todo /\ mem'[Janitor] = snap[q] /\ pc'[Janitor] = "volume1"
             /\ failed' = failed
  BY <1>6, <1>a DEF JanitorExpires, Goto
<1>7. QED
  BY <1>1, <1>2, <1>3, <1>4, <1>5, <1>6 DEF JanitorStep

(* `cleanup`: its snapshots of expired runs are complete, being final.      *)
LEMMA JanitorRecordsKept ==
  ASSUME IInv, RecordInv, Next, AccountKept, JanitorStep
  PROVE  RecordInv'
<1>a. TypeOK /\ Labelled /\ OwnInv /\ FileInv /\ JanitorInv
  BY DEF IInv, RecordInv
<1>b. /\ Runs \subseteq Actors /\ Janitor \in Actors /\ Operator \in Actors
      /\ Actors = Runs \cup {Janitor, Operator}
      /\ Janitor \notin Runs /\ Operator \notin Runs /\ Janitor # Operator
  BY ActorsDiffer DEF Actors
<1>1. evicted' = evicted /\ \A a \in Actors \ {Janitor} : pc'[a] = pc[a] /\ mem'[a] = mem[a]
  BY <1>a, JanitorFrame DEF OwnInv
<1>2. CASE ~(\E i \in Ids : JanitorReaps(i))
  <2>1. /\ NoSave /\ UNCHANGED cloudVars
        /\ \A q \in Runs : snap'[q] \in {snap[q], disk[q], NoState(q)}
        /\ todo' = {} \/ (todo' \subseteq todo /\ snap' = snap) \/ snap' = disk
        /\ \/ mem'[Janitor] = mem[Janitor] /\ pc'[Janitor] \notin DestroySteps
           \/ \E q \in Runs : mem'[Janitor] = NoState(q) /\ pc'[Janitor] \notin DestroySteps
           \/ \E q \in todo : mem'[Janitor] = snap[q] /\ pc'[Janitor] = "volume1"
        /\ \A a \in Actors \ {Janitor} : failed'[a] = failed[a]
    BY <1>a, <1>2, JanitorReads
  <2>2. disk' = disk /\ saved' = saved /\ owner' = owner /\ st' = st /\ todo \subseteq Runs
    BY <2>1, <1>a DEF NoSave, cloudVars, TypeOK
  <2>3. \A q \in Runs : Settled(snap'[q]) /\ IdsOf(snap'[q]) \subseteq saved
    BY <2>1, <1>a, NothingRecorded DEF FileInv
  <2>4. Settled(mem'[Janitor]) /\ IdsOf(mem'[Janitor]) \subseteq saved /\ Cleared(Janitor)'
    BY <2>1, <2>2, <1>a, <1>b, NothingRecorded DEF FileInv, Cleared, DestroySteps
  <2>5. FileInv'
    <3>1. \A q \in Runs : StageInv(q)'
      BY <2>2, <1>1, <1>a, <1>b DEF FileInv, StageInv
    <3>2. \A a \in Actors : Settled(mem'[a]) /\ Cleared(a)'
      BY <2>1, <2>4, <1>1, <1>a DEF FileInv, Cleared
    <3>3. QED
      BY <3>1, <3>2, <2>2, <2>3, <2>4, <1>1, <1>a, <1>b DEF FileInv
  <2>6. ASSUME NEW q \in Runs \ evicted'
        PROVE  Known(q)'
    <3>1. Known(q) /\ Outstanding(q)' = Outstanding(q)
      BY <1>1, <2>2 DEF RecordInv, Outstanding
    <3>2. q \in todo' => Outstanding(q) \subseteq IdsOf(snap'[q])
      BY <3>1, <2>1 DEF Known
    <3>3. pc'[Janitor] \in DestroySteps /\ mem'[Janitor].run = q =>
            Outstanding(q) \subseteq IdsOf(mem'[Janitor])
      <4>1. ASSUME NEW p \in todo, mem'[Janitor] = snap[p], mem'[Janitor].run = q
            PROVE  p = q
        BY <4>1, <2>2, <1>a DEF OwnInv
      <4>2. QED
        BY <4>1, <3>1, <2>1 DEF Known
    <3>4. QED
      BY <3>1, <3>2, <3>3, <2>2, <1>1, <1>b DEF Known, Alive
  <2>7. QED
    BY <2>5, <2>6 DEF RecordInv
<1>3. ASSUME NEW i \in Ids, JanitorReaps(i)
      PROVE  RecordInv'
  <2>1. /\ UNCHANGED <<pc, mem, failed, snap, todo, owner>>
        /\ i \in reap
    BY <1>3 DEF JanitorReaps
  <2>2. owner[i] \in Runs
    BY <2>1, <1>a DEF JanitorInv
  <2>. DEFINE r == owner[i]
              s == Forgotten(disk[r], i)
  <2>3. disk[r] \in RunState /\ disk \in [Runs -> RunState] /\ Settled(disk[r])
    BY <2>2, <1>a DEF TypeOK, FileInv
  <2>4. s.run = r /\ Settled(s) /\ IdsOf(s) = IdsOf(disk[r]) \ {i}
    BY <2>2, <2>3, <1>a, ForgottenFields, ForgottenRecords DEF OwnInv
  <2>5. NoSave \/ (Save(s) /\ Delete(i, Configured))
    BY <1>3 DEF JanitorReaps, DeleteOk
  <2>. HIDE DEF s
  <2>6. /\ saved' = saved
        /\ \/ disk' = disk
           \/ /\ disk' = [disk EXCEPT ![r] = s]
              /\ st'[i] # "live"
    <3>1. CASE NoSave
      BY <3>1 DEF NoSave
    <3>2. CASE Save(s) /\ Delete(i, Configured)
      <4>1. IdsOf(disk[r]) \subseteq saved
        BY <2>2, <1>a DEF FileInv
      <4>2. QED
        BY <3>2, <4>1, <2>2, <2>4, <1>a, DeleteWorks DEF Save, IdsOf
    <3>3. QED
      BY <2>5, <3>1, <3>2
  <2>7. \A q \in Runs : /\ Settled(disk'[q])
                        /\ IdsOf(disk'[q]) \subseteq IdsOf(disk[q])
                        /\ \A x \in IdsOf(disk[q]) \ IdsOf(disk'[q]) : st'[x] # "live"
    BY <2>2, <2>3, <2>4, <2>6, <1>a DEF FileInv
  <2>8. FileInv'
    BY <2>1, <2>6, <2>7, <1>a DEF FileInv, StageInv, Cleared
  <2>9. ASSUME NEW q \in Runs \ evicted'
        PROVE  Known(q)'
    <3>1. Known(q)
      BY <1>1 DEF RecordInv
    <3>2. Outstanding(q)' \subseteq Outstanding(q)
      BY <2>6, <1>a, SavedStable DEF Outstanding
    <3>3. \A x \in Outstanding(q)' : st'[x] = "live"
      BY DEF Outstanding
    <3>4. Outstanding(q)' \subseteq IdsOf(disk'[q])
      BY <3>1, <3>2, <3>3, <2>7 DEF Known
    <3>5. QED
      BY <3>1, <3>2, <3>4, <2>1 DEF Known, Alive
  <2>10. QED
    BY <2>8, <2>9 DEF RecordInv
<1>4. QED
  BY <1>2, <1>3

(* `destroy`, the provider and the clock.                                   *)
LEMMA OtherRecordsKept ==
  ASSUME IInv, RecordInv, Next, OperatorStep \/ (\E i \in Ids : ProviderRemoves(i)) \/ Tick
  PROVE  RecordInv'
<1>a. TypeOK /\ OwnInv /\ FileInv
  BY DEF IInv, RecordInv
<1>b. /\ Runs \subseteq Actors /\ Janitor \in Actors /\ Operator \in Actors
      /\ Actors = Runs \cup {Janitor, Operator}
      /\ Janitor \notin Runs /\ Operator \notin Runs /\ Janitor # Operator
  BY ActorsDiffer DEF Actors
<1>1. /\ disk' = disk /\ snap' = snap /\ todo' = todo
      /\ \A a \in Actors \ {Operator} : pc'[a] = pc[a] /\ mem'[a] = mem[a]
  BY <1>a, OthersFrame
<1>2. saved' = saved
  BY DEF OperatorStep, OperatorDestroys, OperatorStops, ProviderRemoves, Tick, NoSave
<1>3. /\ evicted \subseteq evicted'
      /\ \/ mem'[Operator] = mem[Operator] /\ pc'[Operator] = pc[Operator]
                /\ failed'[Operator] = failed[Operator]
         \/ \E r \in Runs : mem'[Operator] = disk[r] /\ pc'[Operator] = "volume1"
         \/ \E r \in Runs : mem'[Operator] = NoState(r) /\ pc'[Operator] = "idle"
      /\ \A a \in Actors \ {Operator} : failed'[a] = failed[a]
  <2>a. /\ mem \in [Actors -> RunState] /\ failed \in [Actors -> BOOLEAN]
        /\ pc \in [Actors -> {"idle"} \cup RunStages \cup RunEnds \cup DestroySteps \cup JanitorStages]
        /\ mem[Operator].run \in Runs
    BY <1>a, <1>b, Fields DEF TypeOK
  <2>1. CASE \E r \in Runs : OperatorDestroys(r)
    BY <2>1, <2>a, <1>b DEF OperatorDestroys, Goto
  <2>2. CASE OperatorStops
    BY <2>2, <2>a, <1>b DEF OperatorStops, Goto
  <2>3. CASE (\E i \in Ids : ProviderRemoves(i)) \/ Tick
    BY <2>3 DEF ProviderRemoves, Tick
  <2>4. QED
    BY <2>1, <2>2, <2>3 DEF OperatorStep
<1>4. Settled(mem'[Operator]) /\ Cleared(Operator)' /\ IdsOf(mem'[Operator]) \subseteq saved
  BY <1>3, <1>a, <1>b, NothingRecorded DEF FileInv, Cleared
<1>5. FileInv'
  <2>1. \A i \in saved' : owner'[i] # None
    BY <1>2, <1>a, SavedStable DEF FileInv
  <2>2. \A q \in Runs : StageInv(q)'
    BY <1>1, <1>2, <1>a, <1>b DEF FileInv, StageInv
  <2>3. \A a \in Actors : Settled(mem'[a]) /\ Cleared(a)'
    BY <1>1, <1>3, <1>4, <1>a DEF FileInv, Cleared
  <2>4. QED
    BY <2>1, <2>2, <2>3, <1>1, <1>2, <1>4, <1>a, <1>b DEF FileInv
<1>6. ASSUME NEW q \in Runs \ evicted'
      PROVE  Known(q)'
  <2>1. Known(q)
    BY <1>3 DEF RecordInv
  <2>2. Outstanding(q)' \subseteq Outstanding(q)
    BY <1>2, <1>a, SavedStable DEF Outstanding
  <2>3. QED
    BY <2>1, <2>2, <1>1, <1>b DEF Known, Alive
<1>7. QED
  BY <1>5, <1>6 DEF RecordInv

(* At the beginning nothing is recorded.                                    *)
LEMMA RecordInit == Init => RecordInv
<1> SUFFICES ASSUME Init PROVE RecordInv
  OBVIOUS
<1>1. /\ \A a \in Actors : (\E r \in Runs : mem[a] = NoState(r)) /\ pc[a] = "idle"
      /\ \A r \in Runs : disk[r] = NoState(r) /\ snap[r] = NoState(r)
      /\ saved = {}
  BY ConstantsAssumption DEF Init, Actors
<1>2. Runs \subseteq Actors /\ {Janitor, Operator} \subseteq Actors
  BY DEF Actors
<1>3. \A r \in Runs : StageInv(r)
  BY <1>1, <1>2, NothingRecorded DEF StageInv, EarlyStages, HostStages
<1>4. FileInv
  BY <1>1, <1>2, <1>3, NothingRecorded DEF FileInv, Cleared
<1>5. \A r \in Runs : Outstanding(r) = {}
  BY <1>1 DEF Outstanding
<1>6. QED
  BY <1>4, <1>5 DEF RecordInv, Known

(* Whatever crashes, fails or is repeated, and whoever writes a state file   *)
(* last: it names every resource that was recorded once and still runs.      *)
THEOREM RecordsComplete ==
  ASSUME RunLimit < StaleAfter, AccountKept
  PROVE  Spec => []RecordInv
<1>1. Init => RecordInv
  BY RecordInit
<1>2. IInv /\ RecordInv /\ [Next]_vars => RecordInv'
  <2> SUFFICES ASSUME IInv, RecordInv, [Next]_vars PROVE RecordInv'
    OBVIOUS
  <2>1. CASE Next
    BY <2>1, RunRecordsKept, DestroyRecordsKept, JanitorRecordsKept, OtherRecordsKept DEF Next
  <2>2. CASE UNCHANGED vars
    <3>. USE <2>2 DEF vars
    <3>1. FileInv'
      BY DEF RecordInv, FileInv, StageInv, Cleared
    <3>2. \A r \in Runs \ evicted' : Known(r)'
      BY DEF RecordInv, Known, Outstanding, Alive
    <3>3. QED
      BY <3>1, <3>2 DEF RecordInv
  <2>3. QED
    BY <2>1, <2>2
<1>3. QED
  BY <1>1, <1>2, InductiveInvariant, PTL DEF Spec

(* cleanup_status "done" is the truth: none of the resources the run ever    *)
(* recorded is still running, for any number of runs and any interleaving of *)
(* run and `cleanup`, stale snapshots of the janitor included.               *)
THEOREM DoneIsGone ==
  ASSUME RunLimit < StaleAfter, AccountKept
  PROVE  Spec => []DoneMeansGone
<1>1. RecordInv => DoneMeansGone
  <2> SUFFICES ASSUME RecordInv, NEW r \in Runs \ evicted, disk[r].cleanup = "done"
               PROVE  \A i \in saved : owner[i] = r => st[i] # "live"
    BY DEF DoneMeansGone
  <2>1. IdsOf(disk[r]) = {}
    BY DEF RecordInv, FileInv, Settled
  <2>2. QED
    BY <2>1 DEF RecordInv, Known, Outstanding
<1>2. QED
  BY <1>1, RecordsComplete, PTL

(* keep_runs removes a state file only when nothing it recorded still runs.  *)
THEOREM PrunedIsGone ==
  ASSUME RunLimit < StaleAfter, AccountKept
  PROVE  Spec => []PrunedOwnsNothing
<1>1. RecordInv => PrunedOwnsNothing
  <2> SUFFICES ASSUME RecordInv, NEW r \in Runs \ evicted, disk[r].status = "absent"
               PROVE  \A i \in saved : owner[i] = r => st[i] # "live"
    BY DEF PrunedOwnsNothing
  <2>1. IdsOf(disk[r]) = {}
    BY DEF RecordInv, FileInv, Settled
  <2>2. QED
    BY <2>1 DEF RecordInv, Known, Outstanding
<1>2. QED
  BY <1>1, RecordsComplete, PTL

-----------------------------------------------------------------------------
(* The refinement: state files, janitor, operator and cloud API together     *)
(* implement HostLease, for any number of runs, servers, volumes, faults.    *)
(* Every step is one step of the lease, or none.                             *)

(* What a step may do to the needs when the lives stay as they are: nothing, *)
(* or end the need of some runs.                                             *)
NeedsEnd ==
    \A q \in Runs : \/ Need'[q] = Need[q]
                    \/ Need[q] = "needed" /\ Need'[q] = "over"

(* A run that has started is never idle again, and only Start starts it.    *)
LEMMA IdleSteps ==
  ASSUME IInv, Next, NEW q \in Runs, ~Start(q)
  PROVE  pc'[q] = "idle" <=> pc[q] = "idle"
<1>a. TypeOK /\ Labelled /\ OwnInv /\ mem[q].run = q /\ q \in Actors /\ q # Operator /\ q # Janitor
  BY ActorsDiffer DEF IInv, OwnInv, Actors
<1>1. CASE RunStep(q)
  <2>1. pc[q] # "idle"
    BY <1>1 DEF RunStep, Inspect, CreateServer, RecordServer, Boot, CreateVolume,
         RecordVolume, Work, Fail, Interrupt, Report, Cleanup, Verify, Finish,
         Escape, Crash, Alive, HostStages
  <2>2. pc'[q] # "idle"
    BY <1>1, <1>a, RunEffect DEF EarlyStages, HostStages
  <2>3. QED
    BY <2>1, <2>2
<1>2. CASE DestroyRun(q)
  BY <1>2, <1>a, DestroyFrame DEF DestroySteps
<1>3. CASE OthersStep(q)
  BY <1>3 DEF OthersStep
<1>4. QED
  BY <1>1, <1>2, <1>3, <1>a, StepsOfARun

(* Without Start and `destroy` needs only end.                              *)
LEMMA NeedSteps ==
  ASSUME IInv, Next, evicted' = evicted, \A q \in Runs : ~Start(q)
  PROVE  NeedsEnd
<1> SUFFICES ASSUME NEW q \in Runs
             PROVE  Need'[q] = Need[q] \/ (Need[q] = "needed" /\ Need'[q] = "over")
  BY DEF NeedsEnd
<1>1. pc'[q] = "idle" <=> pc[q] = "idle"
  BY IdleSteps
<1>2. q \notin evicted /\ Over(q) => Over(q)'
  BY OverStable
<1>3. QED
  BY <1>1, <1>2 DEF Need

(* Needs that end while nothing is rented or returned are a Release.        *)
LEMMA ReleaseStep ==
  ASSUME NeedsEnd, owner' = owner, Life' = Life
  PROVE  [Lease!LeaseNext]_(Lease!leaseVars)
<1>. DEFINE done == {q \in Runs : Need'[q] # Need[q]}
<1>1. \A q \in done : Need[q] = "needed" /\ Need'[q] = "over"
  BY DEF NeedsEnd
<1>2. Need' = [q \in Runs |-> IF q \in done THEN "over" ELSE Need[q]]
  <2>1. \A q \in Runs : Need'[q] = IF q \in done THEN "over" ELSE Need[q]
    BY <1>1
  <2>2. Need' = [q \in Runs |-> Need'[q]]
    BY DEF Need
  <2>3. QED
    BY <2>1, <2>2
<1>3. done \in SUBSET Runs
  OBVIOUS
<1>. HIDE DEF done
<1>4. Lease!Release(done)
  BY <1>1, <1>2 DEF Lease!Release
<1>5. QED
  BY <1>3, <1>4 DEF Lease!LeaseNext

(* An accepted deletion is a Return, if nobody needs the resource.          *)
LEMMA ReturnStep ==
  ASSUME TypeOK, NEW x \in Ids, NEW account, Delete(x, account),
         Need[owner[x]] \in {"over", "waived"}, Need' = Need, owner' = owner
  PROVE  [Lease!LeaseNext]_(Lease!leaseVars)
<1>a. st \in [Ids -> {"unused", "live", "deleting", "gone"}]
  BY DEF TypeOK
<1>1. CASE st' = st
  BY <1>1 DEF Life, Lease!leaseVars
<1>2. ASSUME NEW after \in {"deleting", "gone"}, Exists(x), st' = [st EXCEPT ![x] = after]
      PROVE  [Lease!LeaseNext]_(Lease!leaseVars)
  <2>1. \A i \in Ids : st'[i] = IF i = x THEN after ELSE st[i]
    BY <1>a, <1>2
  <2>2. CASE st[x] = "live"
    <3>1. Life[x] = "rented"
      BY <2>2 DEF Life
    <3>2. Life' = [Life EXCEPT ![x] = "returned"]
      BY <2>1 DEF Life
    <3>3. Lease!Return(x)
      BY <3>1, <3>2 DEF Lease!Return
    <3>4. QED
      BY <3>3 DEF Lease!LeaseNext
  <2>3. CASE st[x] = "deleting"
    <3>1. Life' = Life
      BY <2>1, <2>3 DEF Life
    <3>2. QED
      BY <3>1 DEF Lease!leaseVars
  <2>4. QED
    BY <1>2, <2>2, <2>3 DEF Exists
<1>3. QED
  BY <1>1, <1>2 DEF Delete

(* A create call rents what it made, for a run that needs it.               *)
LEMMA RentStep ==
  ASSUME IInv, Next, NEW r \in Runs, CreateServer(r) \/ CreateVolume(r)
  PROVE  [Lease!LeaseNext]_(Lease!leaseVars)
<1>a. TypeOK /\ OwnInv /\ MemInv(r) /\ mem[r].run = r /\ r \in Actors
  BY DEF IInv, RunInv, OwnInv, Actors
<1>b. mem[r] \in RunState /\ mem \in [Actors -> RunState] /\ disk \in [Runs -> RunState]
      /\ pc \in [Actors -> {"idle"} \cup RunStages \cup RunEnds \cup DestroySteps \cup JanitorStages]
  BY <1>a DEF TypeOK
<1>1. PICK got, extra \in Unused(Ids) \cup {None} : Create(r, got, extra)
  BY DEF CreateServer, CreateVolume, Unused, Ids
<1>2. /\ pc[r] \in {"provision", "volume"} /\ pc'[r] \in {"record", "attach", "report"}
      /\ mem'[r].status = mem[r].status /\ evicted' = evicted
  <2>1. /\ pc[r] \in {"provision", "volume"} /\ pc'[r] \in {"record", "attach", "report"}
        /\ evicted' = evicted
    BY <1>a, <1>b DEF CreateServer, CreateVolume, Goto, Fatal
  <2>2. mem'[r].status = mem[r].status
    <3>1. pc[r] # "inspect" /\ pc[r] # "work"
      BY <2>1
    <3>2. RunStep(r)
      BY DEF RunStep
    <3>3. QED
      BY <2>1, <3>1, <3>2, <1>a, RunEffect DEF Alive, EarlyStages, HostStages
  <2>3. QED
    BY <2>1, <2>2
<1>3. mem[r].status = "running"
  BY <1>2, <1>a DEF MemInv, UsingStages, EarlyStages, HostStages, ClosingStages
<1>4. ~Over(r) /\ ~Over(r)' /\ pc'[r] # "idle" /\ pc[r] # "idle"
  BY <1>2, <1>3 DEF Over, EarlyStages, HostStages, ClosingStages
<1>5. Need'[r] = Need[r] /\ Need[r] \in {"needed", "waived"}
  BY <1>2, <1>4 DEF Need
<1>6. ASSUME NEW q \in Runs \ {r} PROVE Need'[q] = Need[q]
  <2>1. pc'[q] = pc[q] /\ mem'[q] = mem[q] /\ disk'[q] = disk[q] /\ now' = now
    BY <1>a, <1>b DEF CreateServer, CreateVolume, Save, NoSave, Goto, Fatal, Actors
  <2>2. QED
    BY <2>1, <1>2 DEF Need, Over
<1>7. Need' = Need
  <2>1. Need = [q \in Runs |-> Need[q]] /\ Need' = [q \in Runs |-> Need'[q]]
    BY DEF Need
  <2>2. \A q \in Runs : Need'[q] = Need[q]
    BY <1>5, <1>6
  <2>3. QED
    BY <2>1, <2>2
<1>. DEFINE new == {got, extra} \ {None}
<1>8. new \in SUBSET Ids /\ \A i \in new : st[i] = "unused"
  BY <1>1 DEF Unused
<1>9. /\ \A i \in Ids : st'[i] = IF i \in new THEN "live" ELSE st[i]
      /\ owner' = [i \in Ids |-> IF i \in new THEN r ELSE owner[i]]
  BY <1>1 DEF Create
<1>. HIDE DEF new
<1>10. Life' = [i \in Ids |-> IF i \in new THEN "rented" ELSE Life[i]]
  BY <1>9 DEF Life
<1>11. \A i \in new : Life[i] = "unrented"
  BY <1>8 DEF Life
<1>12. Lease!Rent(r, new)
  BY <1>5, <1>7, <1>9, <1>10, <1>11 DEF Lease!Rent
<1>13. QED
  BY <1>8, <1>12 DEF Lease!LeaseNext

(* A deletion within destroy_run.                                           *)
LEMMA DestroyReturns ==
  ASSUME IInv, Next, NEW a \in Actors, DestroyRun(a)
  PROVE  [Lease!LeaseNext]_(Lease!leaseVars)
<1>. DEFINE d == mem[a].run
<1>a. TypeOK /\ OwnInv /\ JanitorInv
  BY DEF IInv
<1>b. /\ Runs \subseteq Actors /\ Janitor \notin Runs /\ Operator \notin Runs /\ Janitor # Operator
      /\ Actors = Runs \cup {Janitor, Operator}
  BY ActorsDiffer DEF Actors
<1>c. /\ d \in Runs /\ (a \in Runs => d = a) /\ mem[a] \in RunState
      /\ mem[a].server \in ServerIds \cup {None} /\ mem[a].volume \in VolumeIds \cup {None}
  BY <1>a, Fields DEF TypeOK, OwnInv
<1>. HIDE DEF d
<1>1. /\ evicted' = evicted /\ now' = now
      /\ pc[a] \in DestroySteps
      /\ \A b \in Actors \ {a} : pc'[b] = pc[b] /\ mem'[b] = mem[b]
  BY <1>a, <1>c, DestroyFrame DEF d
<1>2. CASE UNCHANGED cloudVars
  <2>1. NeedsEnd
    <3>1. \A q \in Runs : ~Start(q)
      <4>1. ASSUME NEW q \in Runs, Start(q) PROVE FALSE
        <5>1. evicted' = evicted /\ pc[q] = "idle" /\ pc'[q] = "inspect"
          BY <4>1, <1>a, <1>b DEF Start, Goto, TypeOK
        <5>2. q = a
          BY <5>1, <1>1, <1>b
        <5>3. QED
          BY <5>1, <5>2, <1>1 DEF DestroySteps
      <4>2. QED
        BY <4>1
    <3>2. QED
      BY <3>1, <1>1, NeedSteps
  <2>2. QED
    BY <2>1, <1>2, ReleaseStep DEF cloudVars, Life
<1>3. CASE DestroyVolume(a, "volume1", "server") \/ DestroyServer(a)
           \/ DestroyVolume(a, "volume2", "conclude")
  <2>1. /\ disk' = disk /\ owner' = owner /\ born' = born
        /\ pc'[a] \in DestroySteps
    BY <1>3, <1>a DEF DestroyVolume, DestroyServer, NoSave, destroyFrame, Goto,
         DestroySteps, TypeOK
  <2>2. \/ UNCHANGED st
        \/ \E x \in {mem[a].server, mem[a].volume} \ {None} : \E account : Delete(x, account)
    BY <1>3 DEF DestroyVolume, DestroyServer, DeleteOk, DeleteError
  <2>3. Need' = Need
    <3>1. ASSUME NEW q \in Runs PROVE Over(q)' = Over(q) /\ (pc'[q] = "idle" <=> pc[q] = "idle")
      <4>1. CASE q = a
        BY <4>1, <1>1, <2>1 DEF Over, DestroySteps, EarlyStages, HostStages, ClosingStages
      <4>2. CASE q # a
        BY <4>2, <1>1, <1>b, <2>1 DEF Over
      <4>3. QED
        BY <4>1, <4>2
    <3>2. QED
      BY <3>1, <1>1 DEF Need
  <2>4. d \notin evicted => pc[d] # "idle" /\ Over(d)
    <3>1. CASE a \in Runs
      <4>1. (d = a /\ DiskInv(d)) \/ d \in evicted
        BY <3>1, <1>c DEF IInv, RunInv
      <4>2. QED
        BY <3>1, <4>1, <1>1, <1>c DEF Over, DestroySteps, EarlyStages, HostStages,
             ClosingStages, DiskInv, RunEnds
    <3>2. CASE a \in {Janitor, Operator}
      BY <3>2, <1>1, <1>a DEF JanitorInv, RunEnds, d
    <3>3. QED
      BY <3>1, <3>2, <1>b
  <2>5. ASSUME NEW x \in {mem[a].server, mem[a].volume} \ {None}, NEW account, Delete(x, account)
        PROVE  [Lease!LeaseNext]_(Lease!leaseVars)
    <3>1. x \in Ids /\ owner[x] = d
      BY <1>a, <1>c DEF OwnInv, Owns, Ids, d
    <3>2. pc[d] # "idle"
      BY <3>1, <1>a, <1>c DEF OwnInv
    <3>3. Need[d] \in {"over", "waived"}
      BY <2>4, <3>2, <1>c DEF Need
    <3>4. QED
      BY <3>1, <3>3, <2>1, <2>3, <2>5, <1>a, ReturnStep
  <2>6. QED
    BY <1>2, <2>1, <2>2, <2>5 DEF cloudVars
<1>4. QED
  BY <1>2, <1>3 DEF DestroyRun, Conclude

(* `cleanup` outside destroy_run.                                           *)
LEMMA JanitorReturns ==
  ASSUME IInv, Next, JanitorStep
  PROVE  [Lease!LeaseNext]_(Lease!leaseVars)
<1>a. TypeOK /\ Labelled /\ OwnInv /\ JanitorInv
  BY DEF IInv
<1>b. Runs \subseteq Actors \ {Janitor}
  BY ActorsDiffer DEF Actors
<1>1. /\ evicted' = evicted /\ now' = now
      /\ \A q \in Runs : pc'[q] = pc[q] /\ mem'[q] = mem[q]
  BY <1>a, <1>b, JanitorFrame DEF OwnInv
<1>2. CASE UNCHANGED cloudVars
  <2>1. \A q \in Runs : ~Start(q)
    BY <1>1, <1>a, <1>b DEF Start, Goto, TypeOK
  <2>2. NeedsEnd
    BY <2>1, <1>1, NeedSteps
  <2>3. QED
    BY <2>2, <1>2, ReleaseStep DEF cloudVars, Life
<1>3. ASSUME NEW i \in Ids, JanitorReaps(i)
      PROVE  [Lease!LeaseNext]_(Lease!leaseVars)
  <2>1. i \in reap /\ owner' = owner /\ (UNCHANGED st \/ Delete(i, Configured)) /\ born' = born
    BY <1>3 DEF JanitorReaps, DeleteOk, DeleteError
  <2>2. owner[i] \in Runs /\ (owner[i] \notin evicted => Over(owner[i])) /\ pc[owner[i]] # "idle"
    BY <2>1, <1>a DEF JanitorInv, OwnInv
  <2>3. Need[owner[i]] \in {"over", "waived"}
    BY <2>2 DEF Need
  <2>4. \A q \in Runs \ {owner[i]} : disk'[q] = disk[q]
    <3>1. disk[owner[i]] \in RunState /\ disk \in [Runs -> RunState] /\ disk[owner[i]].run = owner[i]
      BY <2>2, <1>a DEF TypeOK, OwnInv
    <3>2. Forgotten(disk[owner[i]], i).run = owner[i]
      BY <3>1, ForgottenFields
    <3>3. QED
      BY <3>1, <3>2, <1>3 DEF JanitorReaps, Save, NoSave
  <2>5. Need' = Need
    <3>1. ASSUME NEW q \in Runs
          PROVE  q \in evicted \/ Over(q)' = Over(q)
      <4>1. CASE q = owner[i]
        <5>1. q \notin evicted => Over(q) /\ Over(q)'
          BY <4>1, <2>2, <1>1, OverStable
        <5>2. QED
          BY <5>1 DEF Over
      <4>2. CASE q # owner[i]
        BY <4>2, <2>4, <1>1 DEF Over
      <4>3. QED
        BY <4>1, <4>2
    <3>2. QED
      BY <3>1, <1>1 DEF Need
  <2>6. CASE UNCHANGED st
    BY <1>2, <2>1, <2>6 DEF cloudVars
  <2>7. CASE Delete(i, Configured)
    BY <2>1, <2>3, <2>5, <2>7, <1>a, ReturnStep
  <2>8. QED
    BY <2>1, <2>6, <2>7
<1>4. QED
  BY <1>2, <1>3 DEF JanitorStep, JanitorWakes, JanitorLists, JanitorFinds,
       JanitorDone, JanitorStops, JanitorExpires

(* A run begins, rents, and ends its need, one at a time.                   *)
LEMMA RunLeases ==
  ASSUME IInv, Next, NEW r \in Runs, RunStep(r)
  PROVE  [Lease!LeaseNext]_(Lease!leaseVars)
<1>a. TypeOK /\ OwnInv /\ MemInv(r) /\ mem[r].run = r /\ r \in Actors
  BY DEF IInv, RunInv, OwnInv, Actors
<1>b. /\ evicted' = evicted /\ now' = now
      /\ \A q \in Runs \ {r} : pc'[q] = pc[q] /\ mem'[q] = mem[q]
  BY <1>a, RunFrame DEF Actors
<1>1. CASE Start(r)
  <2>1. /\ pc[r] = "idle" /\ pc'[r] = "inspect" /\ UNCHANGED cloudVars
        /\ \A q \in Runs \ {r} : disk'[q] = disk[q]
    <3>1. [NoState(r) EXCEPT !.status = "running", !.started = now].run = r
      BY DEF NoState
    <3>2. QED
      BY <3>1, <1>1, <1>a DEF Start, Goto, Save, TypeOK
  <2>2. r \notin evicted
    BY <2>1, <1>a DEF MemInv
  <2>3. Need[r] = "none" /\ Need'[r] = "needed"
    BY <2>1, <2>2, <1>b DEF Need, Over, EarlyStages
  <2>4. \A q \in Runs \ {r} : Need'[q] = Need[q]
    BY <2>1, <1>b DEF Need, Over
  <2>5. Need' = [Need EXCEPT ![r] = "needed"]
    <3>1. Need = [q \in Runs |-> Need[q]] /\ Need' = [q \in Runs |-> Need'[q]]
      BY DEF Need
    <3>2. QED
      BY <2>3, <2>4, <3>1
  <2>6. Lease!Begin(r)
    BY <2>1, <2>3, <2>5 DEF Lease!Begin, Life, cloudVars
  <2>7. QED
    BY <2>6 DEF Lease!LeaseNext
<1>2. CASE CreateServer(r) \/ CreateVolume(r)
  BY <1>2, RentStep
<1>3. CASE ~Start(r) /\ UNCHANGED cloudVars
  <2>1. \A q \in Runs : ~Start(q)
    BY <1>3, <1>a, <1>b DEF Start, Goto, TypeOK, Actors
  <2>2. NeedsEnd
    BY <2>1, <1>b, NeedSteps
  <2>3. QED
    BY <2>2, <1>3, ReleaseStep DEF cloudVars, Life
<1>4. QED
  BY <1>1, <1>2, <1>3 DEF RunStep, Inspect, RecordServer, Boot, RecordVolume, Work,
       Fail, Interrupt, Report, Cleanup, Verify, Finish, Escape, Crash

(* `destroy` waives a claim, the clock ends needs, the provider does neither.*)
LEMMA OthersLease ==
  ASSUME IInv, Next, OperatorStep \/ (\E i \in Ids : ProviderRemoves(i)) \/ Tick
  PROVE  [Lease!LeaseNext]_(Lease!leaseVars)
<1>a. TypeOK /\ OwnInv
  BY DEF IInv
<1>b. /\ disk' = disk /\ \A q \in Runs : pc'[q] = pc[q] /\ mem'[q] = mem[q]
  BY <1>a, OthersFrame, ActorsDiffer DEF Actors
<1>1. ASSUME NEW r \in Runs, OperatorDestroys(r)
      PROVE  [Lease!LeaseNext]_(Lease!leaseVars)
  <2>1. evicted' = evicted \cup {r} /\ UNCHANGED cloudVars /\ now' = now
        /\ disk[r].status # "absent"
    BY <1>1 DEF OperatorDestroys
  <2>2. pc[r] # "idle"
    BY <2>1 DEF IInv, RunInv, MemInv
  <2>3. Need[r] # "none" /\ Need' = [Need EXCEPT ![r] = "waived"]
    BY <2>1, <2>2, <1>b DEF Need, Over
  <2>4. Lease!Waive(r)
    BY <2>1, <2>3 DEF Lease!Waive, Life, cloudVars
  <2>5. QED
    BY <2>4 DEF Lease!LeaseNext
<1>2. CASE OperatorStops \/ Tick
  <2>1. evicted' = evicted /\ UNCHANGED cloudVars
    BY <1>2 DEF OperatorStops, Tick
  <2>2. \A q \in Runs : ~Start(q)
    BY <1>b, <1>a DEF Start, Goto, TypeOK, Actors
  <2>3. NeedsEnd
    BY <2>1, <2>2, NeedSteps
  <2>4. QED
    BY <2>1, <2>3, ReleaseStep DEF cloudVars, Life
<1>3. ASSUME NEW i \in Ids, ProviderRemoves(i)
      PROVE  [Lease!LeaseNext]_(Lease!leaseVars)
  <2>1. /\ evicted' = evicted /\ now' = now /\ owner' = owner
        /\ st[i] = "deleting" /\ st' = [st EXCEPT ![i] = "gone"]
    BY <1>3 DEF ProviderRemoves
  <2>2. Need' = Need
    BY <2>1, <1>b DEF Need, Over
  <2>3. Life' = Life
    BY <2>1, <1>a DEF Life, TypeOK
  <2>4. QED
    BY <2>1, <2>2, <2>3 DEF Lease!leaseVars
<1>4. QED
  BY <1>1, <1>2, <1>3 DEF OperatorStep

(* Servers and volumes are given back only when nobody needs them, and rented *)
(* only while somebody does: the processes of Lifecycle, which share nothing  *)
(* but the state files and the cloud account, implement HostLease.            *)
THEOREM LeaseImplemented ==
  ASSUME RunLimit < StaleAfter
  PROVE  Spec => LeaseKept
<1>1. Init => Lease!LeaseInit
  <2> SUFFICES ASSUME Init PROVE Lease!LeaseInit
    OBVIOUS
  <2>1. \A r \in Runs : pc[r] = "idle"
    BY DEF Init, Actors
  <2>2. Need = [r \in Runs |-> "none"]
    BY <2>1 DEF Need
  <2>3. Life = [i \in Ids |-> "unrented"]
    BY DEF Init, Life
  <2>4. QED
    BY <2>2, <2>3 DEF Init, Lease!LeaseInit
<1>2. IInv /\ [Next]_vars => [Lease!LeaseNext]_(Lease!leaseVars)
  <2> SUFFICES ASSUME IInv, [Next]_vars PROVE [Lease!LeaseNext]_(Lease!leaseVars)
    OBVIOUS
  <2>1. CASE Next
    BY <2>1, RunLeases, DestroyReturns, JanitorReturns, OthersLease DEF Next
  <2>2. CASE UNCHANGED vars
    BY <2>2 DEF vars, Need, Over, Life, Lease!leaseVars
  <2>3. QED
    BY <2>1, <2>2
<1>3. QED
  BY <1>1, <1>2, InductiveInvariant, PTL DEF Spec, LeaseKept, Lease!LeaseSpec
=============================================================================
