--------------------------- MODULE LifecycleTypes ---------------------------
(***************************************************************************)
(* Lifecycle keeps its types, for any number of runs, servers and volumes,  *)
(* and what its steps do to a run, its state file and its resources, stated *)
(* without EXCEPT: the lemmas that the proof of its safety                  *)
(* (LifecycleProofs) is made of.                                            *)
(***************************************************************************)
EXTENDS LifecycleLease, TLAPS

(* Consequences of the assumption on the constants. *)
LEMMA ActorsDiffer ==
  Janitor \notin Runs /\ Operator \notin Runs /\ Janitor # Operator
BY ConstantsAssumption

(* "No resource" is neither a resource nor a run.                           *)
LEMMA NoneDiffers == None \notin Ids /\ None \notin Runs
BY ConstantsAssumption

(* A retention lasts a positive number of hours.                            *)
LEMMA RetainType == RetainFor \in Nat \ {0}
BY ConstantsAssumption

(* --dry-run is given or not.                                               *)
LEMMA DryType == DryModes \subseteq BOOLEAN
BY ConstantsAssumption

-----------------------------------------------------------------------------
(* State objects.                                                           *)

(* The fields of a state object have their types.                           *)
LEMMA Fields ==
  ASSUME NEW s \in RunState
  PROVE  /\ s.run \in Runs
         /\ s.status \in {"absent", "running", "retained", "finished",
                          "failed", "interrupted"}
         /\ s.cleanup \in {"pending", "done", "failed", "not_needed"}
         /\ s.server \in ServerIds \cup {None}
         /\ s.volume \in VolumeIds \cup {None}
         /\ s.until \in Nat
         /\ s.started \in Nat
BY DEF RunState

(* Assigning to a field of a state object leaves a state object.            *)
LEMMA Updates ==
  ASSUME NEW s \in RunState
  PROVE  /\ \A v \in {"absent", "running", "retained", "finished", "failed",
                      "interrupted"} : [s EXCEPT !.status = v] \in RunState
         /\ \A v \in {"pending", "done", "failed", "not_needed"} :
              [s EXCEPT !.cleanup = v] \in RunState
         /\ \A v \in ServerIds \cup {None} : [s EXCEPT !.server = v] \in RunState
         /\ \A v \in VolumeIds \cup {None} : [s EXCEPT !.volume = v] \in RunState
         /\ \A v \in Nat : [s EXCEPT !.until = v] \in RunState
BY DEF RunState

(* The object a run starts with, and the stand-in for a missing file.       *)
LEMMA NoStateType ==
  \A r \in Runs, t \in Nat :
    /\ NoState(r) \in RunState
    /\ [NoState(r) EXCEPT !.status = "running", !.started = t] \in RunState
BY ConstantsAssumption DEF NoState, RunState

(* What destroy_run makes of a state object.                                *)
LEMMA ConcludedType ==
  ASSUME NEW s \in RunState, NEW ok \in BOOLEAN
  PROVE  Concluded(s, ok) \in RunState
<1>1. CASE ok
  BY <1>1 DEF Concluded, RunState
<1>2. CASE ~ok
  BY <1>2, Updates DEF Concluded
<1>3. QED
  BY <1>1, <1>2

(* What destroy_resources makes of a state object.                          *)
LEMMA ForgottenType ==
  ASSUME NEW s \in RunState, NEW i \in Ids
  PROVE  Forgotten(s, i) \in RunState
BY DEF Forgotten, RunState, HasCloudResources

-----------------------------------------------------------------------------
(* Types.                                                                   *)

(* The initial state has the types.                                         *)
LEMMA TypeInit == Init => TypeOK
<1> SUFFICES ASSUME Init PROVE TypeOK
  OBVIOUS
<1>1. \A a \in Actors : (IF a \in Runs THEN a ELSE CHOOSE r \in Runs : TRUE) \in Runs
  BY ConstantsAssumption
<1>2. mem \in [Actors -> RunState]
  BY <1>1, NoStateType DEF Init
<1>3. disk \in [Runs -> RunState] /\ snap \in [Runs -> RunState]
  BY NoStateType DEF Init
<1>4. /\ now \in Nat /\ asOf \in Nat /\ faults \in Nat
      /\ todo \subseteq Runs /\ reap \subseteq Ids /\ saved \subseteq Ids
      /\ evicted \subseteq Runs /\ dry \in BOOLEAN
  BY DEF Init
<1>5. /\ pc \in [Actors -> {"idle"} \cup RunStages \cup RunEnds
                           \cup DestroySteps \cup JanitorStages]
      /\ failed \in [Actors -> BOOLEAN]
      /\ bad \in [Runs -> BOOLEAN]
      /\ out \in [Runs -> {"not started", "none", "retained", "destroyed", "error"}]
  BY DEF Init
<1>6. /\ st \in [Ids -> {"unused", "live", "deleting", "gone"}]
      /\ owner \in [Ids -> Runs \cup {None}]
      /\ born \in [Ids -> Nat]
  BY DEF Init
<1>7. QED
  BY <1>2, <1>3, <1>4, <1>5, <1>6 DEF TypeOK

(* The groups of variables TypeOK types. *)
FileTypes == disk \in [Runs -> RunState] /\ saved \subseteq Ids
ProcTypes ==
    /\ mem \in [Actors -> RunState]
    /\ pc \in [Actors -> {"idle"} \cup RunStages \cup RunEnds
                           \cup DestroySteps \cup JanitorStages]
    /\ failed \in [Actors -> BOOLEAN]
ReportTypes ==
    /\ bad \in [Runs -> BOOLEAN]
    /\ out \in [Runs -> {"not started", "none", "retained", "destroyed", "error"}]
CloudTypes ==
    /\ st \in [Ids -> {"unused", "live", "deleting", "gone"}]
    /\ owner \in [Ids -> Runs \cup {None}]
    /\ born \in [Ids -> Nat]
JanitorTypes ==
    /\ snap \in [Runs -> RunState]
    /\ asOf \in Nat
    /\ todo \subseteq Runs
    /\ reap \subseteq Ids
    /\ dry \in BOOLEAN
CountTypes == now \in Nat /\ faults \in Nat /\ evicted \subseteq Runs

(* TypeOK is its groups.                                                    *)
LEMMA TypeGroups ==
  TypeOK <=> /\ FileTypes /\ ProcTypes /\ ReportTypes
             /\ CloudTypes /\ JanitorTypes /\ CountTypes
BY DEF TypeOK, FileTypes, ProcTypes, ReportTypes, CloudTypes, JanitorTypes,
     CountTypes

(* Saving a state object. *)
LEMMA SaveType ==
  ASSUME FileTypes, NEW s \in RunState, Save(s)
  PROVE  FileTypes'
<1>1. s.run \in Runs /\ s.server \in Ids \cup {None} /\ s.volume \in Ids \cup {None}
  BY Fields DEF Ids
<1>2. QED
  BY <1>1 DEF FileTypes, Save

(* Moving a process to another stage, with a new state object. *)
LEMMA ProcType ==
  ASSUME ProcTypes, NEW a \in Actors,
         \/ UNCHANGED mem
         \/ \E s \in RunState : mem' = [mem EXCEPT ![a] = s],
         \/ UNCHANGED pc
         \/ \E stage \in {"idle"} \cup RunStages \cup RunEnds \cup DestroySteps
                           \cup JanitorStages : Goto(a, stage),
         \/ UNCHANGED failed
         \/ \E b \in BOOLEAN : failed' = [failed EXCEPT ![a] = b]
  PROVE  ProcTypes'
<1>1. mem' \in [Actors -> RunState]
  BY DEF ProcTypes
<1>2. pc' \in [Actors -> {"idle"} \cup RunStages \cup RunEnds
                           \cup DestroySteps \cup JanitorStages]
  BY DEF ProcTypes, Goto
<1>3. failed' \in [Actors -> BOOLEAN]
  BY DEF ProcTypes
<1>4. QED
  BY <1>1, <1>2, <1>3 DEF ProcTypes

(* What a run's step does to the other groups of variables. *)
LEMMA RunOthers ==
  ASSUME TypeOK, NEW r \in Runs, RunStep(r)
  PROVE  ReportTypes' /\ CloudTypes' /\ JanitorTypes' /\ CountTypes'
<1> USE TypeGroups DEF RunStep, Goto, Fault, NoSave, Fatal, Leave, cloudVars, janitorVars, runVars
<1>0. r \in Actors
  BY DEF Actors
<1>1. JanitorTypes'
  BY DEF JanitorTypes, Start, Inspect, CreateServer, RecordServer, Boot,
       CreateVolume, RecordVolume, Work, Fail, Interrupt, Report, Cleanup,
       Verify, Finish, Escape, Crash
<1>2. CountTypes'
  BY DEF CountTypes, Create, Start, Inspect, CreateServer, RecordServer, Boot,
       CreateVolume, RecordVolume, Work, Fail, Interrupt, Report, Cleanup,
       Verify, Finish, Escape, Crash
<1>3. ReportTypes'
  BY DEF ReportTypes, Start, Inspect, CreateServer, RecordServer, Boot,
       CreateVolume, RecordVolume, Work, Fail, Interrupt, Report, Cleanup,
       Verify, Finish, Escape, Crash
<1>4. CloudTypes'
  <2>1. CASE CreateServer(r) \/ CreateVolume(r)
    BY <2>1 DEF CreateServer, CreateVolume, Create, CloudTypes, CountTypes
  <2>2. CASE UNCHANGED cloudVars
    BY <2>2 DEF CloudTypes
  <2>3. QED
    BY <2>1, <2>2 DEF Start, Inspect, RecordServer, Boot, RecordVolume, Work,
         Fail, Interrupt, Report, Cleanup, Verify, Finish, Escape, Crash
<1>5. QED
  BY <1>1, <1>2, <1>3, <1>4

(* ... to its own process. *)
LEMMA RunProc ==
  ASSUME TypeOK, NEW r \in Runs, RunStep(r)
  PROVE  ProcTypes'
<1> USE DEF Goto, Fault, NoSave, Fatal, Leave, cloudVars, janitorVars, runVars
<1>a. r \in Actors
  BY DEF Actors
<1>b. mem[r] \in RunState /\ ProcTypes /\ now \in Nat
  BY <1>a, TypeGroups DEF ProcTypes, CountTypes
<1>c. now + RetainFor \in Nat
  BY <1>b, RetainType
<1>. DEFINE NewMem == UNCHANGED mem \/ \E s \in RunState : mem' = [mem EXCEPT ![r] = s]
            NewPc == UNCHANGED pc \/ \E stage \in {"idle"} \cup RunStages \cup RunEnds \cup DestroySteps
                           \cup JanitorStages : Goto(r, stage)
            NewFailed == UNCHANGED failed \/ \E b \in BOOLEAN : failed' = [failed EXCEPT ![r] = b]
<1>1. NewMem
 <2> USE <1>b, Updates, NoStateType
 <2>1. CASE Start(r)
    BY <2>1 DEF Start
 <2>2. CASE CreateServer(r) \/ CreateVolume(r)
    BY <2>2 DEF CreateServer, CreateVolume, Unused, ProcTypes
 <2>3. CASE Inspect(r) \/ Interrupt(r) 
    BY <2>3 DEF Inspect, Interrupt, ProcTypes
 <2>4. CASE Report(r)
    <3>2. (IF Retains(r) THEN [mem[r] EXCEPT !.until = now + RetainFor] ELSE mem[r]) \in RunState
      BY <1>c
    <3>3. QED
      BY <2>4, <3>2 DEF Report
 <2>5. CASE Cleanup(r) 
    BY <2>5 DEF Cleanup, ProcTypes
 <2>6. CASE Verify(r) 
    BY <2>6 DEF Verify
 <2>7. CASE Finish(r) \/ Escape(r) \/ Crash(r)
    BY <2>7 DEF Finish, Escape, Crash
 <2>8. CASE UNCHANGED mem
    BY <2>8
 <2>9. QED
    BY <2>1, <2>2, <2>3, <2>4, <2>5, <2>6, <2>7, <2>8 DEF RunStep,
         RecordServer, Boot, RecordVolume, Work, Fail
<1>2. NewPc
  BY DEF RunStages, RunEnds, HostStages, DestroySteps, RunStep, Start, Inspect,
       CreateServer, RecordServer, Boot, CreateVolume, RecordVolume, Work, Fail,
       Interrupt, Report, Cleanup, Verify, Finish, Escape, Crash
<1>3. NewFailed
  BY DEF RunStep, Start, Inspect, CreateServer, RecordServer, Boot,
       CreateVolume, RecordVolume, Work, Fail, Interrupt, Report, Cleanup,
       Verify, Finish, Escape, Crash
<1>4. QED
  BY <1>a, <1>b, <1>1, <1>2, <1>3, ProcType

(* ... and to the state files. *)
LEMMA RunFile ==
  ASSUME TypeOK, NEW r \in Runs, RunStep(r)
  PROVE  FileTypes'
<1> USE DEF ProcTypes, CountTypes
<1>a. r \in Actors
  BY DEF Actors
<1>b. mem[r] \in RunState /\ ProcTypes /\ now \in Nat /\ FileTypes
  BY <1>a, TypeGroups
<1>1. CASE Start(r)
  BY <1>1, <1>b, NoStateType, SaveType DEF Start
<1>2. CASE \/ Inspect(r) \/ CreateServer(r) \/ RecordServer(r) \/ Boot(r)
           \/ RecordVolume(r) \/ Work(r)
  BY <1>2, <1>b, SaveType DEF Inspect, CreateServer, RecordServer, Boot,
       RecordVolume, Work
<1>3. CASE Report(r)
  <2>1. now + RetainFor \in Nat
    BY <1>b, ConstantsAssumption
  <2>2. (IF Retains(r) THEN [mem[r] EXCEPT !.until = now + RetainFor] ELSE mem[r]) \in RunState
    BY <2>1, <1>b, Updates
  <2>3. QED
    BY <1>3, <2>2, <1>b, SaveType DEF Report
<1>4. CASE Cleanup(r) \/ Verify(r)
  <2>1. CASE NoSave
    BY <2>1, <1>b DEF NoSave, FileTypes
  <2>2. CASE \/ Save([mem[r] EXCEPT !.status = "retained"])
             \/ Save([mem[r] EXCEPT !.cleanup = "failed"])
    BY <2>2, <1>b, SaveType, Updates
  <2>3. QED
    BY <1>4, <2>1, <2>2 DEF Cleanup, Verify
<1>5. CASE Finish(r)
  <2>. DEFINE s == IF mem[r].status \in {"retained", "interrupted"} THEN mem[r]
                   ELSE [mem[r] EXCEPT !.status =
                           IF bad[r] \/ out[r] = "error" THEN "failed" ELSE "finished"]
  <2>1. s \in RunState
    BY <1>b, Updates
  <2>2. s.server \in Ids \cup {None} /\ s.volume \in Ids \cup {None}
    BY <2>1, Fields DEF Ids
  <2>3. saved' \subseteq Ids
    BY <1>5, <1>b, <2>2 DEF Finish, FileTypes
  <2>. HIDE DEF s
  <2>4. \A q \in Runs : disk'[q] \in {NoState(q), s, disk[q]}
    BY <1>5, <1>b DEF Finish, FileTypes, s
  <2>6. \A q \in Runs : disk'[q] \in RunState
    BY <2>1, <2>4, <1>b, NoStateType DEF FileTypes
  <2>5. QED
    BY <1>5, <2>3, <2>6 DEF Finish, FileTypes
<1>6. CASE NoSave
  BY <1>6, <1>b DEF NoSave, FileTypes
<1>7. QED
  BY <1>1, <1>2, <1>3, <1>4, <1>5, <1>6 DEF RunStep, CreateVolume, Fail,
       Interrupt, Escape, Crash

(* destroy_run, executed by anybody. *)
LEMMA TypeDestroy ==
  ASSUME TypeOK, NEW a \in Actors, DestroyRun(a)
  PROVE  TypeOK'
<1> USE DEF ProcTypes, CountTypes, Goto
<1>b. mem[a] \in RunState /\ ProcTypes /\ FileTypes /\ CloudTypes
  BY TypeGroups
<1>c. failed[a] \in BOOLEAN /\ (~failed[a]) \in BOOLEAN
  BY <1>b
<1>d. Concluded(mem[a], ~failed[a]) \in RunState
  BY <1>b, <1>c, ConcludedType
<1>1. JanitorTypes' /\ CountTypes'
  <2>1. UNCHANGED <<now, evicted, janitorVars>>
    BY DEF DestroyRun, DestroyVolume, DestroyServer, Conclude, destroyFrame
  <2>2. faults' = faults \/ faults' = faults + 1
    BY DEF DestroyRun, DestroyVolume, DestroyServer, Conclude, DeleteOk,
         DeleteError, Fault
  <2>3. QED
    BY <2>1, <2>2, TypeGroups DEF JanitorTypes, janitorVars
<1>2. ReportTypes'
  <2>1. bad' = bad /\ (out' = out \/ out' = [out EXCEPT ![a] = "error"])
    <3>1. CASE Conclude(a)
      BY <3>1 DEF Conclude
    <3>2. CASE UNCHANGED destroyFrame
      BY <3>2 DEF destroyFrame, runVars
    <3>3. QED
      BY <3>1, <3>2 DEF DestroyRun, DestroyVolume, DestroyServer
  <2>2. QED
    BY <2>1, TypeGroups DEF ReportTypes
<1>3. CloudTypes'
  BY TypeGroups DEF DestroyRun, DestroyVolume, DestroyServer, Conclude,
       destroyFrame, cloudVars, runVars, janitorVars, CloudTypes, DeleteOk,
       DeleteError, Delete
<1>4. FileTypes'
  BY <1>b, <1>d, SaveType DEF FileTypes, NoSave, DestroyRun, DestroyVolume,
       DestroyServer, Conclude
<1>5. UNCHANGED mem \/ \E s \in RunState : mem' = [mem EXCEPT ![a] = s]
  <2>1. Concluded(mem[a], ~failed[a]).run \in Runs
    BY <1>d, Fields
  <2>2. CASE Conclude(a)
    BY <2>2, <2>1, <1>d, NoStateType DEF Conclude
  <2>3. CASE ~Conclude(a)
    BY <2>3, <1>b, Updates DEF DestroyRun, DestroyVolume, DestroyServer
  <2>4. QED
    BY <2>2, <2>3
<1>6. \E stage \in {"idle"} \cup RunStages \cup RunEnds \cup DestroySteps
                           \cup JanitorStages : Goto(a, stage)
  <2>1. a \in Runs \/ a = Janitor \/ a = Operator
    BY DEF Actors
  <2>2. QED
  BY <2>1, <1>c DEF DestroyRun, DestroyVolume, DestroyServer, Conclude,
       DestroySteps, RunStages, JanitorStages
<1>7. UNCHANGED failed \/ \E b \in BOOLEAN : failed' = [failed EXCEPT ![a] = b]
  BY DEF DestroyRun, DestroyVolume, DestroyServer, Conclude
<1>8. ProcTypes'
  BY <1>b, <1>5, <1>6, <1>7, ProcType
<1>9. QED
  BY <1>1, <1>2, <1>3, <1>4, <1>8 DEF TypeOK, FileTypes, ReportTypes,
       CloudTypes, JanitorTypes

(* Whatever exists, and whatever the janitor is going to destroy, carries a *)
(* run label.                                                               *)
Labelled ==
    /\ \A i \in Ids : owner[i] = None => st[i] = "unused"
    /\ \A i \in reap : owner[i] # None

(* The steps of the janitor outside destroy_run keep the types.             *)
LEMMA TypeJanitor ==
  ASSUME TypeOK, Labelled, JanitorStep
  PROVE  TypeOK'
<1> USE DEF ProcTypes, CountTypes, Goto
<1>a. Janitor \in Actors
  BY DEF Actors
<1>b. mem[Janitor] \in RunState /\ ProcTypes /\ FileTypes /\ CloudTypes /\ JanitorTypes
  BY <1>a, TypeGroups
<1>c. mem[Janitor].run \in Runs
  BY <1>b, Fields
<1>1. CountTypes' /\ ReportTypes'
  <2>1. now' = now /\ evicted' = evicted /\ bad' = bad /\ out' = out
    BY DEF JanitorStep, JanitorWakes, JanitorLists, JanitorFinds, JanitorDone,
         JanitorStops, JanitorExpires, JanitorReaps, runVars
  <2>2. faults' = faults \/ faults' = faults + 1
    BY DEF JanitorStep, JanitorWakes, JanitorLists, JanitorFinds, JanitorDone,
         JanitorStops, JanitorExpires, JanitorReaps, DeleteOk, DeleteError,
         Fault
  <2>3. ReportTypes /\ CountTypes
    BY TypeGroups
  <2>4. CountTypes'
    BY <2>1, <2>2, <2>3
  <2>5. ReportTypes'
    BY <2>1, <2>3 DEF ReportTypes
  <2>6. QED
    BY <2>4, <2>5
<1>2. CloudTypes'
  <2>1. CASE UNCHANGED cloudVars
    BY <2>1, <1>b DEF cloudVars, CloudTypes
  <2>2. CASE \E i \in Ids : JanitorReaps(i)
    BY <2>2, <1>b DEF JanitorReaps, CloudTypes, DeleteOk, DeleteError, Delete
  <2>3. QED
    BY <2>1, <2>2 DEF JanitorStep, JanitorWakes, JanitorLists, JanitorFinds,
         JanitorDone, JanitorStops, JanitorExpires
<1>3. JanitorTypes'
  <2>1. CASE JanitorWakes \/ JanitorLists
    <3>1. snap' \in [Runs -> RunState] /\ asOf' \in Nat
      BY <2>1, <1>b, TypeGroups DEF JanitorWakes, JanitorLists, FileTypes
    <3>2. todo' \subseteq Runs
      <4>1. CASE JanitorWakes
        BY <4>1 DEF JanitorWakes
      <4>2. CASE JanitorLists
        BY <4>2, <1>b DEF JanitorLists, JanitorTypes
      <4>3. QED
        BY <2>1, <4>1, <4>2
    <3>3. reap' = reap /\ dry' \in DryModes \cup {dry}
      BY <2>1 DEF JanitorWakes, JanitorLists
    <3>4. QED
      BY <3>1, <3>2, <3>3, <1>b, DryType DEF JanitorTypes
  <2>2. CASE JanitorRests
    BY <2>2, NoStateType DEF JanitorRests, JanitorTypes
  <2>3. CASE JanitorFinds /\ ~JanitorRests
    BY <2>3, <1>b DEF JanitorFinds, JanitorTypes, Listed
  <2>4. CASE \E r \in Runs : JanitorExpires(r)
    BY <2>4, <1>b DEF JanitorExpires, JanitorTypes
  <2>5. CASE \E i \in Ids : JanitorReaps(i)
    BY <2>5, <1>b DEF JanitorReaps, JanitorTypes
  <2>6. QED
    BY <2>1, <2>2, <2>3, <2>4, <2>5 DEF JanitorStep, JanitorDone, JanitorStops
<1>4. FileTypes'
  <2>1. CASE NoSave
    BY <2>1, <1>b DEF NoSave, FileTypes
  <2>2. CASE \E i \in Ids : /\ JanitorReaps(i)
                            /\ disk[owner[i]].status # "absent"
                            /\ Save(Forgotten(disk[owner[i]], i))
    <3>1. PICK i \in Ids : JanitorReaps(i) /\ Save(Forgotten(disk[owner[i]], i))
      BY <2>2
    <3>2. owner[i] \in Runs
      BY <3>1, <1>b DEF JanitorReaps, Labelled, CloudTypes
    <3>3. Forgotten(disk[owner[i]], i) \in RunState
      BY <3>2, <1>b, ForgottenType DEF FileTypes
    <3>4. QED
      BY <3>1, <3>3, <1>b, SaveType
  <2>3. QED
    BY <2>1, <2>2 DEF JanitorStep, JanitorWakes, JanitorLists, JanitorFinds,
         JanitorDone, JanitorStops, JanitorExpires, JanitorReaps
<1>5. UNCHANGED mem \/ \E s \in RunState : mem' = [mem EXCEPT ![Janitor] = s]
  BY <1>b, <1>c, NoStateType DEF JanitorStep, JanitorWakes, JanitorLists,
       JanitorFinds, JanitorDone, JanitorStops, JanitorExpires, JanitorReaps,
       JanitorTypes
<1>6. UNCHANGED pc \/ \E stage \in {"idle"} \cup RunStages \cup RunEnds \cup DestroySteps
                           \cup JanitorStages : Goto(Janitor, stage)
  BY DEF JanitorStep, JanitorWakes, JanitorLists, JanitorFinds, JanitorDone,
       JanitorStops, JanitorExpires, JanitorReaps, JanitorRests, DestroySteps,
       JanitorStages
<1>7. UNCHANGED failed \/ \E b \in BOOLEAN : failed' = [failed EXCEPT ![Janitor] = b]
  BY DEF JanitorStep, JanitorWakes, JanitorLists, JanitorFinds, JanitorDone,
       JanitorStops, JanitorExpires, JanitorReaps
<1>8. ProcTypes'
  BY <1>a, <1>b, <1>5, <1>6, <1>7, ProcType
<1>9. QED
  BY <1>1, <1>2, <1>3, <1>4, <1>8 DEF TypeOK, FileTypes, ReportTypes,
       CloudTypes, JanitorTypes

(* So do `destroy`, the provider and the clock.                             *)
LEMMA TypeRest ==
  ASSUME TypeOK, Labelled,
         \/ OperatorStep
         \/ \E i \in Ids : ProviderRemoves(i)
         \/ Tick
  PROVE  TypeOK'
<1>b. ProcTypes /\ FileTypes /\ CloudTypes /\ JanitorTypes /\ CountTypes /\ ReportTypes
  BY TypeGroups
<1>1. CASE \E r \in Runs : OperatorDestroys(r)
  <2>1. PICK r \in Runs : OperatorDestroys(r)
    BY <1>1
  <2>2. FileTypes' /\ CloudTypes' /\ JanitorTypes' /\ ReportTypes'
    BY <2>1, <1>b DEF OperatorDestroys, NoSave, runVars, cloudVars,
         janitorVars, FileTypes, CloudTypes, JanitorTypes, ReportTypes
  <2>3. CountTypes'
    BY <2>1, <1>b DEF OperatorDestroys, CountTypes
  <2>4. Operator \in Actors /\ disk[r] \in RunState
    BY <1>b DEF Actors, FileTypes
  <2>5. ProcTypes'
    BY <2>1, <2>4, <1>b, ProcType DEF OperatorDestroys, DestroySteps
  <2>6. QED
    BY <2>2, <2>3, <2>5 DEF TypeOK, FileTypes, ProcTypes, CloudTypes,
         JanitorTypes, CountTypes, ReportTypes
<1>2. CASE \E i \in Ids : ProviderRemoves(i)
  <2>1. FileTypes' /\ ProcTypes' /\ JanitorTypes' /\ ReportTypes'
    BY <1>2, <1>b DEF ProviderRemoves, runVars, janitorVars, FileTypes,
         ProcTypes, JanitorTypes, ReportTypes
  <2>2. CountTypes' /\ CloudTypes'
    BY <1>2, <1>b DEF ProviderRemoves, CountTypes, CloudTypes
  <2>3. QED
    BY <2>1, <2>2 DEF TypeOK, FileTypes, ProcTypes, CloudTypes, JanitorTypes,
         CountTypes, ReportTypes
<1>3. CASE Tick
  <2>1. FileTypes' /\ ProcTypes' /\ CloudTypes' /\ JanitorTypes' /\ ReportTypes'
    BY <1>3, <1>b DEF Tick, runVars, janitorVars, cloudVars, FileTypes,
         ProcTypes, CloudTypes, JanitorTypes, ReportTypes
  <2>2. CountTypes'
    BY <1>3, <1>b DEF Tick, CountTypes
  <2>3. QED
    BY <2>1, <2>2 DEF TypeOK, FileTypes, ProcTypes, CloudTypes, JanitorTypes,
         CountTypes, ReportTypes
<1>4. CASE OperatorStops
  <2>1. FileTypes' /\ CloudTypes' /\ JanitorTypes' /\ ReportTypes'
    BY <1>4, <1>b DEF OperatorStops, NoSave, runVars, cloudVars,
         janitorVars, FileTypes, CloudTypes, JanitorTypes, ReportTypes
  <2>2. CountTypes'
    BY <1>4, <1>b DEF OperatorStops, Fault, CountTypes
  <2>3. Operator \in Actors
    BY DEF Actors
  <2>4. NoState(mem[Operator].run) \in RunState
    BY <2>3, <1>b, Fields, NoStateType DEF ProcTypes
  <2>5. ProcTypes'
    BY <1>4, <2>3, <2>4, <1>b, ProcType DEF OperatorStops
  <2>6. QED
    BY <2>1, <2>2, <2>5 DEF TypeOK, FileTypes, ProcTypes, CloudTypes,
         JanitorTypes, CountTypes, ReportTypes
<1>5. QED
  BY <1>1, <1>2, <1>3, <1>4 DEF OperatorStep

(* What a step does to the cloud account.                                   *)
LEMMA CloudSteps ==
  ASSUME Next
  PROVE  \/ UNCHANGED cloudVars
         \/ \E r \in Runs, pool \in {ServerIds, VolumeIds} :
              \E got, extra \in Unused(pool) \cup {None} :
                pc[r] \in {"provision", "volume"} /\ Create(r, got, extra)
         \/ /\ UNCHANGED <<owner, born>>
            /\ \E i \in Ids \cup {mem[a].server : a \in Actors} \cup {mem[a].volume : a \in Actors} :
                 \E account : Delete(i, account)
         \/ \E i \in Ids : ProviderRemoves(i)
<1>1. ASSUME NEW r \in Runs, RunStep(r)
      PROVE  \/ UNCHANGED cloudVars
             \/ \E pool \in {ServerIds, VolumeIds} :
                  \E got, extra \in Unused(pool) \cup {None} :
                    pc[r] \in {"provision", "volume"} /\ Create(r, got, extra)
  BY <1>1 DEF RunStep, Start, Inspect, CreateServer, RecordServer, Boot,
       CreateVolume, RecordVolume, Work, Fail, Interrupt, Report, Cleanup,
       Verify, Finish, Escape, Crash
<1>2. ASSUME NEW a \in Actors, DestroyRun(a)
      PROVE  \/ UNCHANGED cloudVars
             \/ /\ UNCHANGED <<owner, born>>
                /\ \E account : Delete(mem[a].server, account) \/ Delete(mem[a].volume, account)
  BY <1>2 DEF DestroyRun, DestroyVolume, DestroyServer, Conclude, destroyFrame,
       DeleteOk, DeleteError, cloudVars
<1>3. CASE JanitorStep
  BY <1>3 DEF JanitorStep, JanitorWakes, JanitorLists, JanitorFinds,
       JanitorDone, JanitorStops, JanitorExpires, JanitorReaps, DeleteOk,
       DeleteError, cloudVars
<1>4. CASE OperatorStep
  BY <1>4 DEF OperatorStep, OperatorDestroys, OperatorStops
<1>5. QED
  BY <1>1, <1>2, <1>3, <1>4 DEF Next, Tick

(* What a step does to the janitor's list of stale resources.               *)
LEMMA ReapSteps ==
  ASSUME Next
  PROVE  reap' \subseteq reap \/ (JanitorFinds /\ reap' \subseteq Listed(Configured))
<1>. USE DEF janitorVars
<1>1. ASSUME NEW r \in Runs, RunStep(r)
      PROVE  reap' = reap
  BY <1>1 DEF RunStep, Start, Inspect, CreateServer, RecordServer, Boot,
       CreateVolume, RecordVolume, Work, Fail, Interrupt, Report, Cleanup,
       Verify, Finish, Escape, Crash
<1>2. ASSUME NEW a \in Actors, DestroyRun(a)
      PROVE  reap' = reap
  BY <1>2 DEF DestroyRun, DestroyVolume, DestroyServer, Conclude, destroyFrame
<1>3. CASE JanitorFinds
  <2>1. reap' \subseteq {i \in Listed(Configured) : Stale(i, snap, asOf)}
    BY <1>3 DEF JanitorFinds, JanitorRests
  <2>2. QED
    BY <1>3, <2>1
<1>4. CASE JanitorStep /\ ~JanitorFinds
  <2>1. \/ reap' = reap
        \/ reap' = {}
        \/ \E i \in Ids : reap' = reap \ {i}
    BY <1>4 DEF JanitorStep, JanitorWakes, JanitorLists, JanitorDone,
         JanitorStops, JanitorExpires, JanitorReaps, JanitorRests
  <2>2. QED
    BY <2>1
<1>5. CASE OperatorStep \/ Tick \/ \E i \in Ids : ProviderRemoves(i)
  BY <1>5 DEF OperatorStep, OperatorDestroys, OperatorStops, Tick, ProviderRemoves
<1>6. QED
  <2>1. (\E r \in Runs : RunStep(r)) => reap' \subseteq reap
    BY <1>1
  <2>2. (\E a \in Actors : DestroyRun(a)) => reap' \subseteq reap
    BY <1>2
  <2>3. QED
    BY <2>1, <2>2, <1>3, <1>4, <1>5 DEF Next

(* No step takes a label away or reaps something without one.               *)
LEMMA LabelledNext ==
  ASSUME TypeOK, Labelled, Next
  PROVE  Labelled'
<1>a. CloudTypes /\ JanitorTypes /\ ProcTypes
  BY TypeGroups
<1>1. \A i \in Ids : owner'[i] = None => st'[i] = "unused"
  <2>1. CASE UNCHANGED cloudVars
    BY <2>1 DEF cloudVars, Labelled
  <2>2. CASE \E r \in Runs, got, extra \in Ids \cup {None} : Create(r, got, extra)
    BY <2>2, <1>a, NoneDiffers DEF Create, CloudTypes, Labelled
  <2>3. CASE UNCHANGED owner /\ \E i, account : Delete(i, account)
    BY <2>3, <1>a DEF Delete, Exists, CloudTypes, Labelled
  <2>4. CASE \E i \in Ids : ProviderRemoves(i)
    BY <2>4, <1>a DEF ProviderRemoves, CloudTypes, Labelled
  <2>5. QED
    BY <2>1, <2>2, <2>3, <2>4, CloudSteps DEF Unused, Ids
<1>2. \A i \in reap' : owner'[i] # None
  <2>1. \A i \in Ids : owner'[i] = owner[i] \/ owner'[i] # None
    <3>1. CASE UNCHANGED owner
      BY <3>1
    <3>2. CASE \E r \in Runs, got, extra \in Ids \cup {None} : Create(r, got, extra)
      BY <3>2, NoneDiffers DEF Create
    <3>3. QED
      BY <3>1, <3>2, CloudSteps DEF Unused, Ids, cloudVars, ProviderRemoves
  <2>2. CASE reap' \subseteq reap
    BY <2>1, <2>2, <1>a DEF Labelled, JanitorTypes
  <2>3. CASE JanitorFinds /\ reap' \subseteq Listed(Configured)
    BY <2>1, <2>3 DEF Listed, Exists, Labelled
  <2>4. QED
    BY <2>2, <2>3, ReapSteps
<1>3. QED
  BY <1>1, <1>2 DEF Labelled

(* The inductive invariant of the types. *)
TypeInv == TypeOK /\ Labelled

(* Every step keeps the types and the labels.                               *)
LEMMA TypeNext ==
  ASSUME TypeInv, [Next]_vars
  PROVE  TypeInv'
<1>1. CASE UNCHANGED vars
  BY <1>1 DEF vars, TypeInv, TypeOK, Labelled
<1>2. ASSUME NEW r \in Runs, RunStep(r)
      PROVE  TypeOK'
  <2>1. ProcTypes'
    BY <1>2, RunProc DEF TypeInv
  <2>2. FileTypes'
    BY <1>2, RunFile DEF TypeInv
  <2>3. ReportTypes' /\ CloudTypes' /\ JanitorTypes' /\ CountTypes'
    BY <1>2, RunOthers DEF TypeInv
  <2>4. QED
    BY <2>1, <2>2, <2>3 DEF TypeOK, FileTypes, ProcTypes, ReportTypes, CloudTypes,
         JanitorTypes, CountTypes
<1>3. CASE Next
  <2>1. TypeOK'
    BY <1>2, <1>3, TypeDestroy, TypeJanitor, TypeRest DEF Next, TypeInv
  <2>2. Labelled'
    BY <1>3, LabelledNext DEF TypeInv
  <2>3. QED
    BY <2>1, <2>2 DEF TypeInv
<1>4. QED
  BY <1>1, <1>3

(* Every variable keeps its type in every behaviour of the lifecycle, for    *)
(* any number of runs, servers, volumes and faults.                          *)
THEOREM TypeCorrect == Spec => []TypeOK
<1>1. Init => TypeInv
  BY TypeInit DEF Init, Labelled, TypeInv
<1>2. TypeInv /\ [Next]_vars => TypeInv'
  BY TypeNext
<1>3. TypeInv => TypeOK
  BY DEF TypeInv
<1>4. QED
  BY <1>1, <1>2, <1>3, PTL DEF Spec

(* The same for the invariant the proofs of safety start from. *)
LEMMA TypeInvHolds == Spec => []TypeInv
<1>1. Init => TypeInv
  BY TypeInit DEF Init, Labelled, TypeInv
<1>2. TypeInv /\ [Next]_vars => TypeInv'
  BY TypeNext
<1>3. QED
  BY <1>1, <1>2, PTL DEF Spec

-----------------------------------------------------------------------------
(* What the steps do to a run, its state file and its resources.           *)

(* The ids in a state object were created for its run. *)
Owns(s) ==
    \A i \in {s.server, s.volume} \ {None} : owner[i] = s.run /\ st[i] # "unused"

OwnInv ==
    /\ \A r \in Runs : mem[r].run = r /\ disk[r].run = r /\ snap[r].run = r
    /\ \A a \in Actors : Owns(mem[a])
    /\ \A r \in Runs : Owns(disk[r]) /\ Owns(snap[r])
    /\ \A i \in Ids : st[i] = "unused" <=> owner[i] = None
    /\ \A i \in Ids, r \in Runs : owner[i] = r => pc[r] # "idle"

-----------------------------------------------------------------------------
(* What a step does, free of EXCEPT.                                        *)

(* Assigning to one field leaves the others alone.                          *)
LEMMA FieldUpdates ==
  ASSUME NEW s \in RunState, NEW v
  PROVE  /\ [s EXCEPT !.status = v].status = v
         /\ [s EXCEPT !.status = v].run = s.run
         /\ [s EXCEPT !.status = v].server = s.server
         /\ [s EXCEPT !.status = v].volume = s.volume
         /\ [s EXCEPT !.status = v].until = s.until
         /\ [s EXCEPT !.status = v].started = s.started
         /\ [s EXCEPT !.cleanup = v].status = s.status
         /\ [s EXCEPT !.cleanup = v].run = s.run
         /\ [s EXCEPT !.cleanup = v].server = s.server
         /\ [s EXCEPT !.cleanup = v].volume = s.volume
         /\ [s EXCEPT !.cleanup = v].until = s.until
         /\ [s EXCEPT !.cleanup = v].started = s.started
         /\ [s EXCEPT !.server = v].status = s.status
         /\ [s EXCEPT !.server = v].run = s.run
         /\ [s EXCEPT !.server = v].server = v
         /\ [s EXCEPT !.server = v].volume = s.volume
         /\ [s EXCEPT !.server = v].until = s.until
         /\ [s EXCEPT !.server = v].started = s.started
         /\ [s EXCEPT !.volume = v].status = s.status
         /\ [s EXCEPT !.volume = v].run = s.run
         /\ [s EXCEPT !.volume = v].server = s.server
         /\ [s EXCEPT !.volume = v].volume = v
         /\ [s EXCEPT !.volume = v].until = s.until
         /\ [s EXCEPT !.volume = v].started = s.started
         /\ [s EXCEPT !.until = v].status = s.status
         /\ [s EXCEPT !.until = v].run = s.run
         /\ [s EXCEPT !.until = v].server = s.server
         /\ [s EXCEPT !.until = v].volume = s.volume
         /\ [s EXCEPT !.until = v].until = v
         /\ [s EXCEPT !.until = v].started = s.started
BY DEF RunState

(* The stand-in for a missing state file.                                   *)
LEMMA NoStateFields ==
  ASSUME NEW r
  PROVE  /\ NoState(r).run = r
         /\ NoState(r).status = "absent"
         /\ NoState(r).server = None /\ NoState(r).volume = None
         /\ NoState(r).until = 0 /\ NoState(r).started = 0
BY DEF NoState

(* destroy_run changes nothing of a state object but its status, cleanup    *)
(* and until.                                                               *)
LEMMA ConcludedFields ==
  ASSUME NEW s \in RunState, NEW ok \in BOOLEAN
  PROVE  /\ Concluded(s, ok).run = s.run
         /\ Concluded(s, ok).server = s.server
         /\ Concluded(s, ok).volume = s.volume
         /\ Concluded(s, ok).until \in {0, s.until}
         /\ Concluded(s, ok).started = s.started
         /\ \/ Concluded(s, ok).status = s.status
            \/ /\ Concluded(s, ok).status = "finished"
               /\ s.status \in {"running", "retained"}
         /\ Concluded(s, ok).status = "retained" => Concluded(s, ok).until = s.until
BY DEF Concluded, RunState

(* destroy_resources only clears ids, and may set the status to finished.   *)
LEMMA ForgottenFields ==
  ASSUME NEW s \in RunState, NEW i \in Ids
  PROVE  /\ Forgotten(s, i).run = s.run
         /\ Forgotten(s, i).server \in {s.server, None}
         /\ Forgotten(s, i).volume \in {s.volume, None}
         /\ Forgotten(s, i).until = s.until
         /\ Forgotten(s, i).started = s.started
         /\ Forgotten(s, i).status \in {s.status, "finished"}
BY DEF Forgotten, RunState, HasCloudResources

(* A check run leaves every other process alone, and every other state file *)
(* except those it prunes.                                                  *)
LEMMA RunFrame ==
  ASSUME TypeOK, NEW r \in Runs, mem[r].run = r, RunStep(r)
  PROVE  /\ now' = now /\ evicted' = evicted
         /\ snap' = snap /\ asOf' = asOf /\ todo' = todo /\ reap' = reap
         /\ \A a \in Actors \ {r} : pc'[a] = pc[a] /\ mem'[a] = mem[a]
         /\ \A q \in Runs \ {r} :
              \/ disk'[q] = disk[q]
              \/ /\ disk'[q] = NoState(q)
                 /\ disk[q].status \notin {"absent", "running", "retained"}
<1>a. r \in Actors /\ FileTypes /\ ProcTypes
  BY TypeGroups DEF Actors
<1>b. mem[r] \in RunState /\ disk \in [Runs -> RunState] /\ mem \in [Actors -> RunState]
      /\ pc \in [Actors -> {"idle"} \cup RunStages \cup RunEnds \cup DestroySteps \cup JanitorStages]
  BY <1>a DEF ProcTypes, FileTypes
<1>1. now' = now /\ evicted' = evicted
  BY DEF RunStep, Start, Inspect, CreateServer, RecordServer, Boot, CreateVolume,
       RecordVolume, Work, Fail, Interrupt, Report, Cleanup, Verify, Finish, Escape, Crash
<1>2. snap' = snap /\ asOf' = asOf /\ todo' = todo /\ reap' = reap
  BY DEF RunStep, Start, Inspect, CreateServer, RecordServer, Boot, CreateVolume,
       RecordVolume, Work, Fail, Interrupt, Report, Cleanup, Verify, Finish, Escape, Crash,
       janitorVars
<1>3. \A a \in Actors \ {r} : pc'[a] = pc[a]
  BY <1>b DEF RunStep, Start, Inspect, CreateServer, RecordServer, Boot,
       CreateVolume,
       RecordVolume, Work, Fail, Interrupt, Report, Cleanup, Verify, Finish, Escape, Crash,
       Goto, Fatal, Leave
<1>4. \A a \in Actors \ {r} : mem'[a] = mem[a]
  BY <1>b DEF RunStep, Start, Inspect, CreateServer, RecordServer, Boot,
       CreateVolume,
       RecordVolume, Work, Fail, Interrupt, Report, Cleanup, Verify, Finish, Escape, Crash,
       Leave
<1>5. \A q \in Runs \ {r} :
              \/ disk'[q] = disk[q]
              \/ /\ disk'[q] = NoState(q)
                 /\ disk[q].status \notin {"absent", "running", "retained"}
  <2>1. CASE Finish(r)
    BY <2>1, <1>b DEF Finish, Pruned, Prunable
  <2>2. ASSUME NEW s, s.run = r, Save(s)
        PROVE  \A q \in Runs \ {r} : disk'[q] = disk[q]
    BY <2>2, <1>b DEF Save
  <2>3. CASE NoSave
    BY <2>3 DEF NoSave
  <2>4. CASE Save(mem'[r]) /\ mem'[r].run = r
    BY <2>4, <2>2
  <2>5. CASE Save(mem[r])
    BY <2>5, <2>2
  <2>6. ASSUME Start(r) \/ Report(r) \/ Cleanup(r) \/ Verify(r)
        PROVE  NoSave \/ (Save(mem'[r]) /\ mem'[r].run = r)
    <3>1. CASE Start(r)
      BY <3>1, <1>a, <1>b, NoStateType DEF Start, NoState
    <3>2. CASE Report(r)
      BY <3>2, <1>a, <1>b, FieldUpdates DEF Report
    <3>3. CASE Cleanup(r)
      <4>1. CASE mem' = [mem EXCEPT ![r].status = "retained"]
                   /\ Save([mem[r] EXCEPT !.status = "retained"])
        BY <4>1, <1>a, <1>b, FieldUpdates
      <4>2. QED
        BY <3>3, <4>1 DEF Cleanup
    <3>4. CASE Verify(r)
      <4>1. CASE mem' = [mem EXCEPT ![r].cleanup = "failed"]
                   /\ Save([mem[r] EXCEPT !.cleanup = "failed"])
        BY <4>1, <1>a, <1>b, FieldUpdates
      <4>2. QED
        BY <3>4, <4>1 DEF Verify
    <3>5. QED
      BY <2>6, <3>1, <3>2, <3>3, <3>4
  <2>7. QED
    BY <2>1, <2>3, <2>4, <2>5, <2>6 DEF RunStep, Inspect, CreateServer,
         RecordServer, Boot, CreateVolume,
       RecordVolume, Work, Fail, Interrupt, Escape, Crash
<1>6. QED
  BY <1>1, <1>2, <1>3, <1>4, <1>5

(* destroy_run, whoever executes it. *)
DestroyResult(d, s) ==
    /\ d.run = s.run /\ d.started = s.started
    /\ d.server = s.server /\ d.volume = s.volume
    /\ d.until \in {0, s.until}
    /\ \/ d.status = s.status
       \/ d.status = "finished" /\ s.status \in {"running", "retained"}

(* A step of destroy_run executed by process a: it writes the state file    *)
(* of its target only, when it is concluded.                                *)
LEMMA DestroyFrame ==
  ASSUME TypeOK, NEW a \in Actors, DestroyRun(a), NEW d \in Runs, d = mem[a].run
  PROVE  /\ now' = now /\ evicted' = evicted
         /\ snap' = snap /\ asOf' = asOf /\ todo' = todo /\ reap' = reap
         /\ pc[a] \in DestroySteps
         /\ pc'[a] \in DestroySteps \cup {"verify", "finish", "expire", "idle"}
         /\ \A b \in Actors \ {a} : pc'[b] = pc[b] /\ mem'[b] = mem[b]
         /\ \A q \in Runs \ {d} : disk'[q] = disk[q]
         /\ mem'[a].run = d
         /\ mem'[a].server \in {mem[a].server, None}
         /\ mem'[a].volume \in {mem[a].volume, None}
         /\ \/ /\ disk' = disk
               /\ mem'[a].status = mem[a].status
               /\ mem'[a].until = mem[a].until
               /\ mem'[a].started = mem[a].started
               /\ pc'[a] \in DestroySteps
            \/ /\ DestroyResult(disk'[d], mem[a])
               /\ mem'[a] = IF a \in Runs THEN disk'[d] ELSE NoState(d)
               /\ pc'[a] = IF a = Janitor THEN "expire" ELSE
                             IF a = Operator THEN "idle" ELSE pc'[a]
               /\ a \in Runs => pc'[a] \in {"verify", "finish"}
<1>a. FileTypes /\ ProcTypes
  BY TypeGroups
<1>b. mem[a] \in RunState /\ disk \in [Runs -> RunState] /\ mem \in [Actors -> RunState]
      /\ pc \in [Actors -> {"idle"} \cup RunStages \cup RunEnds \cup DestroySteps \cup JanitorStages]
  BY <1>a DEF ProcTypes, FileTypes
<1>c. failed[a] \in BOOLEAN /\ (~failed[a]) \in BOOLEAN
  BY <1>a DEF ProcTypes
<1>1. now' = now /\ evicted' = evicted
  BY DEF DestroyRun, DestroyVolume, DestroyServer, Conclude, destroyFrame
<1>2. snap' = snap /\ asOf' = asOf /\ todo' = todo /\ reap' = reap
  BY DEF DestroyRun, DestroyVolume, DestroyServer, Conclude, destroyFrame,
       janitorVars
<1>3. pc[a] \in DestroySteps
  BY DEF DestroyRun, DestroyVolume, DestroyServer, Conclude, DestroySteps
<1>4. \A b \in Actors \ {a} : pc'[b] = pc[b] /\ mem'[b] = mem[b]
  BY <1>b DEF DestroyRun, DestroyVolume, DestroyServer, Conclude, Goto
<1>5. CASE Conclude(a)
  <2>. DEFINE s == Concluded(mem[a], ~failed[a])
  <2>1. s \in RunState /\ s.run = d
    BY <1>b, <1>c, ConcludedType, ConcludedFields
  <2>2. Save(s) /\ mem' = [mem EXCEPT ![a] = IF a \in Runs THEN s ELSE NoState(s.run)]
    BY <1>5 DEF Conclude
  <2>3. disk' = [disk EXCEPT ![d] = s]
    BY <2>1, <2>2 DEF Save
  <2>4. disk'[d] = s /\ mem'[a] = IF a \in Runs THEN s ELSE NoState(d)
    BY <2>1, <2>2, <2>3, <1>b
  <2>5. /\ a \in Runs => pc'[a] \in {"verify", "finish"}
        /\ a = Janitor => pc'[a] = "expire"
        /\ a = Operator => pc'[a] = "idle"
    BY <1>5, <1>b, ActorsDiffer DEF Conclude, Goto
  <2>6. DestroyResult(s, mem[a])
    BY <1>b, <1>c, ConcludedFields DEF DestroyResult
  <2>7. mem'[a].run = d /\ mem'[a].server \in {mem[a].server, None}
         /\ mem'[a].volume \in {mem[a].volume, None}
    BY <2>1, <2>4, <2>6, NoStateFields DEF DestroyResult
  <2>. HIDE DEF s
  <2>8. \A q \in Runs \ {d} : disk'[q] = disk[q]
    BY <2>3, <1>b
  <2>9. a \in Runs \/ a = Janitor \/ a = Operator
    BY DEF Actors
  <2>10. QED
    BY <1>1, <1>2, <1>3, <1>4, <2>1, <2>4, <2>5, <2>6, <2>7, <2>8, <2>9
<1>6. CASE ~Conclude(a)
  <2>1. disk' = disk
    BY <1>6 DEF DestroyRun, DestroyVolume, DestroyServer, NoSave
  <2>2. /\ mem'[a].status = mem[a].status
        /\ mem'[a].until = mem[a].until
        /\ mem'[a].started = mem[a].started
        /\ mem'[a].run = d
        /\ mem'[a].server \in {mem[a].server, None}
        /\ mem'[a].volume \in {mem[a].volume, None}
    <3>1. \/ mem' = mem
          \/ mem' = [mem EXCEPT ![a].server = None]
          \/ mem' = [mem EXCEPT ![a].volume = None]
      BY <1>6 DEF DestroyRun, DestroyVolume, DestroyServer
    <3>2. \/ mem'[a] = mem[a]
          \/ mem'[a] = [mem[a] EXCEPT !.server = None]
          \/ mem'[a] = [mem[a] EXCEPT !.volume = None]
      BY <3>1, <1>b
    <3>3. CASE mem'[a] = mem[a]
      BY <3>3
    <3>4. CASE mem'[a] = [mem[a] EXCEPT !.server = None]
      BY <3>4, <1>b, FieldUpdates
    <3>5. CASE mem'[a] = [mem[a] EXCEPT !.volume = None]
      BY <3>5, <1>b, FieldUpdates
    <3>6. QED
      BY <3>2, <3>3, <3>4, <3>5
  <2>3. pc'[a] \in DestroySteps
    BY <1>6, <1>b DEF DestroyRun, DestroyVolume, DestroyServer, DestroySteps, Goto
  <2>4. QED
    BY <1>1, <1>2, <1>3, <1>4, <2>1, <2>2, <2>3
<1>7. QED
  BY <1>5, <1>6

(* The stages of a run and its RunState object. *)
LEMMA RunEffect ==
  ASSUME TypeOK, NEW r \in Runs, mem[r].run = r, RunStep(r)
  PROVE
    /\ mem'[r].run = r
    /\ \/ (* starts *)
          /\ pc[r] = "idle" /\ pc'[r] = "inspect"
          /\ mem'[r].status = "running" /\ mem'[r].until = 0 /\ mem'[r].started = now
          /\ disk'[r] = mem'[r]
       \/ (* uses its host *)
          /\ pc[r] \in EarlyStages \cup HostStages
          /\ pc'[r] \in EarlyStages \cup HostStages \cup {"report"}
          /\ mem'[r].status = mem[r].status
          /\ mem'[r].until = mem[r].until /\ mem'[r].started = mem[r].started
          /\ disk'[r] \in {disk[r], mem[r]}
       \/ (* is interrupted *)
          /\ r \in Interruptible
          /\ pc[r] \in {"inspect", "work"} /\ pc'[r] = "report"
          /\ mem'[r].status = "interrupted"
          /\ mem'[r].until = mem[r].until /\ mem'[r].started = mem[r].started
          /\ disk'[r] = disk[r]
       \/ (* reports *)
          /\ pc[r] = "report" /\ pc'[r] = "cleanup"
          /\ mem'[r].status = mem[r].status /\ mem'[r].started = mem[r].started
          /\ mem'[r].until # mem[r].until =>
               /\ mem[r].server # None
               /\ mem[r].status = "interrupted" => r \in RetainOption
          /\ disk'[r] = mem'[r]
       \/ (* leaves its resources alone, retains or begins to destroy them *)
          /\ pc[r] = "cleanup" /\ pc'[r] \in {"finish", "volume1"}
          /\ mem'[r].until = mem[r].until /\ mem'[r].started = mem[r].started
          /\ \/ mem'[r].status = mem[r].status /\ disk'[r] = disk[r]
                  /\ (pc'[r] = "volume1" => mem[r].until = 0)
             \/ pc'[r] = "finish" /\ mem[r].until # 0
                  /\ mem'[r].status = "retained" /\ disk'[r] = mem'[r]
       \/ (* verifies *)
          /\ pc[r] = "verify" /\ pc'[r] = "finish"
          /\ mem'[r].status = mem[r].status
          /\ mem'[r].until = mem[r].until /\ mem'[r].started = mem[r].started
          /\ disk'[r] \in {disk[r], mem'[r]}
       \/ (* ends *)
          /\ pc[r] = "finish" /\ pc'[r] = "ended" /\ mem'[r] = NoState(r)
          /\ disk'[r].run = r
          /\ disk'[r].status \in {mem[r].status, "absent", "finished", "failed"}
          /\ disk'[r].until \in {mem[r].until, 0}
          /\ disk'[r].server \in {mem[r].server, None}
          /\ disk'[r].volume \in {mem[r].volume, None}
          /\ mem[r].status = "retained" => disk'[r] = mem[r]
          /\ disk'[r].status = "retained" => mem[r].status = "retained"
       \/ (* dies *)
          /\ Alive(r) /\ pc'[r] \in {"crashed", "escaped"} /\ mem'[r] = NoState(r)
          /\ disk'[r] = disk[r]
<1>a. r \in Actors /\ FileTypes /\ ProcTypes
  BY TypeGroups DEF Actors
<1>b. mem[r] \in RunState /\ disk \in [Runs -> RunState] /\ mem \in [Actors -> RunState]
      /\ pc \in [Actors -> {"idle"} \cup RunStages \cup RunEnds \cup DestroySteps \cup JanitorStages]
  BY <1>a DEF ProcTypes, FileTypes
<1>s. ASSUME Save(mem[r]) PROVE disk'[r] = mem[r]
  BY <1>s, <1>b DEF Save
<1>n. ASSUME NoSave PROVE disk'[r] = disk[r]
  BY <1>n DEF NoSave
<1>1. CASE Start(r)
  <2>1. pc[r] = "idle" /\ pc'[r] = "inspect"
    BY <1>1, <1>a, <1>b DEF Start, Goto
  <2>. DEFINE s == [NoState(r) EXCEPT !.status = "running", !.started = now]
  <2>2. mem'[r] = s /\ Save(s)
    BY <1>1, <1>a, <1>b DEF Start
  <2>3. s.run = r /\ s.status = "running" /\ s.until = 0 /\ s.started = now
    BY DEF NoState
  <2>. HIDE DEF s
  <2>4. disk'[r] = s
    BY <2>2, <2>3, <1>b DEF Save
  <2>5. QED
    BY <2>1, <2>2, <2>3, <2>4
<1>2. CASE \/ Inspect(r) \/ CreateServer(r) \/ RecordServer(r) \/ Boot(r)
           \/ CreateVolume(r) \/ RecordVolume(r) \/ Work(r) \/ Fail(r)
  <2>1. /\ pc[r] \in EarlyStages \cup HostStages
        /\ pc'[r] \in EarlyStages \cup HostStages \cup {"report"}
    BY <1>2, <1>a, <1>b DEF Inspect, CreateServer, RecordServer, Boot, CreateVolume,
         RecordVolume, Work, Fail, Fatal, Goto, EarlyStages, HostStages
  <2>2. disk'[r] \in {disk[r], mem[r]}
    BY <1>2, <1>s, <1>n DEF Inspect, CreateServer, RecordServer, Boot, CreateVolume,
         RecordVolume, Work, Fail
  <2>3. /\ mem'[r].run = r
        /\ mem'[r].status = mem[r].status
        /\ mem'[r].until = mem[r].until /\ mem'[r].started = mem[r].started
    <3>1. \/ mem'[r] = mem[r]
          \/ mem'[r] = [mem[r] EXCEPT !.cleanup = "not_needed"]
          \/ \E got : mem'[r] = [mem[r] EXCEPT !.server = got]
          \/ \E got : mem'[r] = [mem[r] EXCEPT !.volume = got]
      BY <1>2, <1>a, <1>b DEF Inspect, CreateServer, RecordServer, Boot,
           CreateVolume,
         RecordVolume, Work, Fail
    <3>2. CASE mem'[r] = mem[r]
      BY <3>2
    <3>3. CASE mem'[r] = [mem[r] EXCEPT !.cleanup = "not_needed"]
      BY <3>3, <1>b, FieldUpdates
    <3>4. ASSUME NEW got, mem'[r] = [mem[r] EXCEPT !.server = got]
          PROVE  /\ mem'[r].run = r
                 /\ mem'[r].status = mem[r].status
                 /\ mem'[r].until = mem[r].until /\ mem'[r].started = mem[r].started
      BY <3>4, <1>b, FieldUpdates
    <3>5. ASSUME NEW got, mem'[r] = [mem[r] EXCEPT !.volume = got]
          PROVE  /\ mem'[r].run = r
                 /\ mem'[r].status = mem[r].status
                 /\ mem'[r].until = mem[r].until /\ mem'[r].started = mem[r].started
      BY <3>5, <1>b, FieldUpdates
    <3>6. QED
      BY <3>1, <3>2, <3>3, <3>4, <3>5
  <2>4. QED
    BY <2>1, <2>2, <2>3
<1>3. CASE Interrupt(r)
  <2>1. r \in Interruptible /\ pc[r] \in {"inspect", "work"} /\ pc'[r] = "report"
    BY <1>3, <1>a, <1>b DEF Interrupt, Fatal, Goto
  <2>2. mem'[r] = [mem[r] EXCEPT !.status = "interrupted"] /\ disk'[r] = disk[r]
    BY <1>3, <1>a, <1>b, <1>n DEF Interrupt
  <2>3. QED
    BY <2>1, <2>2, <1>b, FieldUpdates
<1>4. CASE Report(r)
  <2>1. pc[r] = "report" /\ pc'[r] = "cleanup"
    BY <1>4, <1>a, <1>b DEF Report, Goto
  <2>2. /\ mem'[r] = IF Retains(r) THEN [mem[r] EXCEPT !.until = now + RetainFor] ELSE mem[r]
        /\ Save(mem'[r])
    BY <1>4, <1>a, <1>b DEF Report
  <2>3. /\ mem'[r].run = r /\ mem'[r].status = mem[r].status
        /\ mem'[r].started = mem[r].started
        /\ mem'[r].until # mem[r].until => Retains(r)
    <3>1. CASE Retains(r)
      BY <3>1, <2>2, <1>b, FieldUpdates
    <3>2. CASE ~Retains(r)
      BY <3>2, <2>2
    <3>3. QED
      BY <3>1, <3>2
  <2>4. Retains(r) => /\ mem[r].server # None
                      /\ mem[r].status = "interrupted" => r \in RetainOption
    BY DEF Retains
  <2>5. disk'[r] = mem'[r]
    BY <2>2, <2>3, <1>b DEF Save
  <2>6. QED
    BY <2>1, <2>3, <2>4, <2>5
<1>5. CASE Cleanup(r)
  <2>1. pc[r] = "cleanup" /\ pc'[r] \in {"finish", "volume1"}
    BY <1>5, <1>a, <1>b DEF Cleanup, Goto
  <2>2. CASE /\ mem' = [mem EXCEPT ![r].cleanup = "not_needed"]
             /\ Goto(r, "finish") /\ NoSave
    <3>1. mem'[r] = [mem[r] EXCEPT !.cleanup = "not_needed"] /\ disk'[r] = disk[r]
          /\ pc'[r] = "finish"
      BY <2>2, <1>a, <1>b, <1>n DEF Goto
    <3>2. QED
      BY <2>1, <3>1, <1>b, FieldUpdates
  <2>3. CASE /\ mem[r].until # 0
             /\ mem' = [mem EXCEPT ![r] = [mem[r] EXCEPT !.status = "retained"]]
             /\ Save([mem[r] EXCEPT !.status = "retained"])
             /\ Goto(r, "finish")
    <3>1. mem'[r] = [mem[r] EXCEPT !.status = "retained"] /\ pc'[r] = "finish"
      BY <2>3, <1>a, <1>b DEF Goto
    <3>2. /\ mem'[r].run = r /\ mem'[r].status = "retained"
          /\ mem'[r].until = mem[r].until /\ mem'[r].started = mem[r].started
      BY <3>1, <1>b, FieldUpdates
    <3>3. disk'[r] = mem'[r]
      BY <2>3, <3>1, <3>2, <1>b DEF Save
    <3>4. QED
      BY <2>1, <2>3, <3>1, <3>2, <3>3
  <2>4. CASE mem[r].until = 0 /\ mem' = mem /\ NoSave
    BY <2>4, <2>1, <1>n
  <2>5. QED
    BY <1>5, <2>2, <2>3, <2>4 DEF Cleanup
<1>6. CASE Verify(r)
  <2>1. pc[r] = "verify" /\ pc'[r] = "finish"
    BY <1>6, <1>a, <1>b DEF Verify, Goto
  <2>2. CASE mem' = mem /\ NoSave
    BY <2>1, <2>2, <1>n
  <2>3. CASE /\ mem' = [mem EXCEPT ![r] = [mem[r] EXCEPT !.cleanup = "failed"]]
             /\ Save([mem[r] EXCEPT !.cleanup = "failed"])
    <3>1. mem'[r] = [mem[r] EXCEPT !.cleanup = "failed"]
      BY <2>3, <1>a, <1>b
    <3>2. /\ mem'[r].run = r /\ mem'[r].status = mem[r].status
          /\ mem'[r].until = mem[r].until /\ mem'[r].started = mem[r].started
      BY <3>1, <1>b, FieldUpdates
    <3>3. disk'[r] = mem'[r]
      BY <2>3, <3>1, <3>2, <1>b DEF Save
    <3>4. QED
      BY <2>1, <3>2, <3>3
  <2>4. QED
    BY <1>6, <2>2, <2>3 DEF Verify
<1>7. CASE Finish(r)
  <2>1. pc[r] = "finish" /\ pc'[r] = "ended" /\ mem'[r] = NoState(r)
    BY <1>7, <1>a, <1>b DEF Finish, Leave, Goto
  <2>. DEFINE s == IF mem[r].status \in {"retained", "interrupted"} THEN mem[r]
                   ELSE [mem[r] EXCEPT !.status =
                           IF bad[r] \/ out[r] = "error" THEN "failed" ELSE "finished"]
              d == [disk EXCEPT ![r] = s]
  <2>2. disk'[r] = IF r \in Pruned(d) THEN NoState(r) ELSE d[r]
    BY <1>7 DEF Finish
  <2>3. d[r] = s
    BY <1>b
  <2>4. s.status = "retained" => r \notin Pruned(d)
    BY <2>3 DEF Pruned, Prunable
  <2>5. /\ s.run = r
        /\ s.status \in {mem[r].status, "finished", "failed"}
        /\ s.until = mem[r].until /\ s.server = mem[r].server /\ s.volume = mem[r].volume
        /\ mem[r].status = "retained" => s = mem[r]
        /\ s.status = "retained" => mem[r].status = "retained"
    <3>1. CASE mem[r].status \in {"retained", "interrupted"}
      BY <3>1
    <3>2. CASE mem[r].status \notin {"retained", "interrupted"}
      BY <3>2, <1>b, FieldUpdates
    <3>3. QED
      BY <3>1, <3>2
  <2>6. disk'[r] = NoState(r) \/ disk'[r] = s
    BY <2>2, <2>3
  <2>7. mem[r].status = "retained" => disk'[r] = s
    BY <2>2, <2>3, <2>4, <2>5
  <2>. HIDE DEF s, d
  <2>8. mem'[r].run = r
    BY <2>1, NoStateFields
  <2>9. /\ disk'[r].run = r
        /\ disk'[r].status \in {mem[r].status, "absent", "finished", "failed"}
        /\ disk'[r].until \in {mem[r].until, 0}
        /\ disk'[r].server \in {mem[r].server, None}
        /\ disk'[r].volume \in {mem[r].volume, None}
        /\ mem[r].status = "retained" => disk'[r] = mem[r]
        /\ disk'[r].status = "retained" => mem[r].status = "retained"
    <3>1. CASE disk'[r] = s
      BY <3>1, <2>5
    <3>2. CASE disk'[r] = NoState(r)
      BY <3>2, <2>5, <2>7, NoStateFields
    <3>3. QED
      BY <2>6, <3>1, <3>2
  <2>10. QED
    BY <2>1, <2>8, <2>9
<1>8. CASE Escape(r) \/ Crash(r)
  <2>1. Alive(r)
    BY <1>8 DEF Escape, Crash, Alive, RunEnds
  <2>2. pc'[r] \in {"crashed", "escaped"} /\ mem'[r] = NoState(r) /\ disk'[r] = disk[r]
    BY <1>8, <1>a, <1>b, <1>n DEF Escape, Crash, Leave, Goto
  <2>3. QED
    BY <2>1, <2>2, NoStateFields
<1>9. QED
  BY <1>1, <1>2, <1>3, <1>4, <1>5, <1>6, <1>7, <1>8 DEF RunStep

(* The janitor outside destroy_run, and the other steps. *)
LEMMA JanitorFrame ==
  ASSUME TypeOK, Labelled, JanitorStep, \A r \in Runs : disk[r].run = r
  PROVE  /\ now' = now /\ evicted' = evicted
         /\ \A a \in Actors \ {Janitor} : pc'[a] = pc[a] /\ mem'[a] = mem[a]
         /\ \A q \in Runs :
              \/ disk'[q] = disk[q]
              \/ \E i \in reap : owner[i] = q /\ disk'[q] = Forgotten(disk[q], i)
<1>a. FileTypes /\ ProcTypes /\ JanitorTypes /\ CloudTypes /\ Janitor \in Actors
  BY TypeGroups DEF Actors
<1>b. disk \in [Runs -> RunState] /\ mem \in [Actors -> RunState]
      /\ pc \in [Actors -> {"idle"} \cup RunStages \cup RunEnds \cup DestroySteps \cup JanitorStages]
  BY <1>a DEF ProcTypes, FileTypes
<1>1. now' = now /\ evicted' = evicted
  BY DEF JanitorStep, JanitorWakes, JanitorLists, JanitorFinds, JanitorDone,
       JanitorStops, JanitorExpires, JanitorReaps
<1>2. \A a \in Actors \ {Janitor} : pc'[a] = pc[a] /\ mem'[a] = mem[a]
  BY <1>b DEF JanitorStep, JanitorWakes, JanitorLists, JanitorFinds,
       JanitorDone, JanitorStops, JanitorExpires, JanitorReaps, JanitorRests,
       Goto
<1>3. disk' = disk \/ \E i \in Ids : i \in reap /\ Save(Forgotten(disk[owner[i]], i))
  BY DEF JanitorStep, JanitorWakes, JanitorLists, JanitorFinds, JanitorDone,
       JanitorStops, JanitorExpires, JanitorReaps, NoSave
<1>4. ASSUME NEW i \in Ids, i \in reap, Save(Forgotten(disk[owner[i]], i)), NEW q \in Runs
      PROVE  disk'[q] = disk[q] \/ (owner[i] = q /\ disk'[q] = Forgotten(disk[q], i))
  <2>1. owner[i] \in Runs
    BY <1>4, <1>a DEF Labelled, CloudTypes
  <2>2. Forgotten(disk[owner[i]], i).run = owner[i]
    BY <2>1, <1>4, <1>b, ForgottenFields
  <2>3. QED
    BY <2>1, <2>2, <1>4, <1>b DEF Save
<1>5. \A q \in Runs : \/ disk'[q] = disk[q]
                      \/ \E i \in reap : owner[i] = q /\ disk'[q] = Forgotten(disk[q], i)
  BY <1>3, <1>4
<1>6. QED
  BY <1>1, <1>2, <1>5
(* `destroy`, the provider and the clock write no state file.               *)
LEMMA OthersFrame ==
  ASSUME TypeOK, OperatorStep \/ (\E i \in Ids : ProviderRemoves(i)) \/ Tick
  PROVE  /\ disk' = disk /\ snap' = snap /\ asOf' = asOf /\ todo' = todo /\ reap' = reap
         /\ \A a \in Actors \ {Operator} : pc'[a] = pc[a] /\ mem'[a] = mem[a]
         /\ now' = now \/ Tick
         /\ \/ evicted' = evicted /\ pc' = pc /\ mem' = mem
            \/ \E r \in Runs : /\ disk[r].status # "absent"
                               /\ evicted' = evicted \cup {r}
                               /\ mem'[Operator] = disk[r]
                               /\ pc'[Operator] = "volume1"
                               /\ now' = now
            \/ \E r \in Runs : /\ evicted' = evicted
                               /\ mem'[Operator] = NoState(r)
                               /\ pc'[Operator] = "idle"
                               /\ now' = now
<1>a. FileTypes /\ ProcTypes /\ JanitorTypes /\ CloudTypes /\ Operator \in Actors
  BY TypeGroups DEF Actors
<1>b. disk \in [Runs -> RunState] /\ mem \in [Actors -> RunState]
      /\ pc \in [Actors -> {"idle"} \cup RunStages \cup RunEnds \cup DestroySteps \cup JanitorStages]
  BY <1>a DEF ProcTypes, FileTypes
<1>1. CASE \E r \in Runs : OperatorDestroys(r)
  BY <1>1, <1>a, <1>b DEF OperatorDestroys, NoSave, janitorVars, Goto
<1>2. CASE \E i \in Ids : ProviderRemoves(i)
  BY <1>2 DEF ProviderRemoves, janitorVars
<1>3. CASE Tick
  BY <1>3 DEF Tick, janitorVars
<1>4. CASE OperatorStops
  <2>1. mem[Operator].run \in Runs
    BY <1>a, <1>b, Fields
  <2>2. QED
    BY <1>4, <2>1, <1>a, <1>b DEF OperatorStops, NoSave, janitorVars, Goto
<1>5. QED
  BY <1>1, <1>2, <1>3, <1>4 DEF OperatorStep

(* What the other processes do to run r: nothing but write its state file.  *)
OthersStep(r) ==
    /\ pc'[r] = pc[r] /\ mem'[r] = mem[r]
    /\ \/ disk'[r] = disk[r]
       \/ /\ disk'[r] = NoState(r)
          /\ disk[r].status \notin {"absent", "running", "retained"}
       \/ \E i \in reap : owner[i] = r /\ disk'[r] = Forgotten(disk[r], i)
       \/ \E a \in {Janitor, Operator} :
            /\ pc[a] \in DestroySteps /\ mem[a].run = r
            /\ DestroyResult(disk'[r], mem[a])

(* Every step is one of run r itself or of others.                          *)
LEMMA StepsOfARun ==
  ASSUME TypeOK, Labelled, OwnInv, Next, NEW r \in Runs
  PROVE  RunStep(r) \/ DestroyRun(r) \/ OthersStep(r)
<1>a. FileTypes /\ ProcTypes
  BY TypeGroups
<1>b. \A q \in Runs : mem[q].run = q /\ disk[q].run = q
  BY DEF OwnInv
<1>c. r \in Actors /\ Runs \subseteq Actors /\ Janitor \in Actors /\ Operator \in Actors
      /\ r # Janitor /\ r # Operator
  BY ActorsDiffer DEF Actors
<1>1. ASSUME NEW q \in Runs \ {r}, RunStep(q) PROVE OthersStep(r)
  BY <1>1, <1>b, <1>c, RunFrame DEF OthersStep
<1>2. ASSUME NEW a \in Actors \ {r}, DestroyRun(a) PROVE OthersStep(r)
  <2>1. mem[a].run \in Runs
    BY <1>a, Fields DEF ProcTypes
  <2>2. pc'[r] = pc[r] /\ mem'[r] = mem[r]
    BY <1>2, <1>c, <2>1, DestroyFrame
  <2>3. CASE mem[a].run # r
    BY <1>2, <1>c, <2>1, <2>2, <2>3, DestroyFrame DEF OthersStep
  <2>4. CASE mem[a].run = r
    <3>1. a \in {Janitor, Operator}
      BY <1>2, <2>4, <1>b DEF Actors
    <3>2. pc[a] \in DestroySteps /\ (disk' = disk \/ DestroyResult(disk'[r], mem[a]))
      BY <1>2, <2>4, DestroyFrame
    <3>3. QED
      BY <2>2, <2>4, <3>1, <3>2 DEF OthersStep
  <2>5. QED
    BY <2>3, <2>4
<1>3. CASE JanitorStep
  BY <1>3, <1>b, <1>c, JanitorFrame DEF OthersStep
<1>4. CASE OperatorStep \/ (\E i \in Ids : ProviderRemoves(i)) \/ Tick
  BY <1>4, <1>c, OthersFrame DEF OthersStep
<1>5. QED
  BY <1>1, <1>2, <1>3, <1>4 DEF Next

(* Time passes alone; only `destroy` waives the claim of a run, which then   *)
(* has a state file.                                                         *)
LEMMA ClockSteps ==
  ASSUME TypeOK, Labelled, OwnInv, Next
  PROVE  /\ now' = now \/ (Tick /\ now' = now + 1)
         /\ evicted \subseteq evicted'
         /\ \A r \in evicted' \ evicted : r \in Runs /\ disk[r].status # "absent"
         /\ asOf' = asOf \/ asOf' = now \/ asOf' = 0
<1>b. \A q \in Runs : mem[q].run = q /\ disk[q].run = q
  BY DEF OwnInv
<1>c. \A a \in Actors : mem[a].run \in Runs
  BY TypeGroups, Fields DEF ProcTypes
<1>1. CASE \E q \in Runs : RunStep(q)
  BY <1>1, <1>b, RunFrame
<1>2. CASE \E a \in Actors : DestroyRun(a)
  BY <1>2, <1>c, DestroyFrame
<1>3. CASE JanitorStep
  <2>1. now' = now /\ evicted' = evicted
    BY <1>3, <1>b, JanitorFrame
  <2>2. asOf' = asOf \/ asOf' = now \/ asOf' = 0
    BY <1>3 DEF JanitorStep, JanitorWakes, JanitorLists, JanitorFinds,
         JanitorDone, JanitorStops, JanitorExpires, JanitorReaps, JanitorRests
  <2>3. QED
    BY <2>1, <2>2
<1>4. CASE OperatorStep \/ (\E i \in Ids : ProviderRemoves(i)) \/ Tick
  <2>1. now' = now \/ (Tick /\ now' = now + 1)
    BY <1>4, OthersFrame DEF Tick
  <2>2. /\ evicted \subseteq evicted'
        /\ \A r \in evicted' \ evicted : r \in Runs /\ disk[r].status # "absent"
        /\ asOf' = asOf
    BY <1>4, OthersFrame
  <2>3. QED
    BY <2>1, <2>2
<1>5. QED
  BY <1>1, <1>2, <1>3, <1>4 DEF Next

(* The resources a run gets to know. *)
IdsOf(s) == {s.server, s.volume} \ {None}

(* A run gets to know only resources created for it, and saves only what    *)
(* it knows.                                                                *)
LEMMA RunIds ==
  ASSUME TypeOK, NEW r \in Runs, mem[r].run = r, RunStep(r)
  PROVE  /\ \A i \in IdsOf(mem'[r]) :
              \/ i \in IdsOf(mem[r])
              \/ i \in Ids /\ st[i] = "unused" /\ owner'[i] = r /\ st'[i] = "live"
         /\ \A i \in IdsOf(disk'[r]) : i \in IdsOf(disk[r]) \cup IdsOf(mem[r])
<1>a. r \in Actors /\ FileTypes /\ ProcTypes
  BY TypeGroups DEF Actors
<1>b. mem[r] \in RunState /\ disk \in [Runs -> RunState] /\ mem \in [Actors -> RunState]
  BY <1>a DEF ProcTypes, FileTypes
<1>s. ASSUME Save(mem[r]) PROVE disk'[r] = mem[r]
  BY <1>s, <1>b DEF Save
<1>n. ASSUME NoSave PROVE disk'[r] = disk[r]
  BY <1>n DEF NoSave
<1>1. CASE CreateServer(r)
  <2>1. disk'[r] = mem[r]
    BY <1>1, <1>s DEF CreateServer
  <2>2. PICK got \in Unused(ServerIds) \cup {None}, extra \in Unused(ServerIds) \cup {None} :
          /\ Create(r, got, extra)
          /\ mem'[r] = mem[r] \/ (got # None /\ mem'[r] = [mem[r] EXCEPT !.server = got])
    BY <1>1, <1>a, <1>b DEF CreateServer
  <2>3. CASE mem'[r] = mem[r]
    BY <2>1, <2>3
  <2>4. CASE got # None /\ mem'[r] = [mem[r] EXCEPT !.server = got]
    <3>1. mem'[r].server = got /\ mem'[r].volume = mem[r].volume
      BY <2>4, <1>b, FieldUpdates
    <3>2. got \in Ids /\ st[got] = "unused" /\ owner'[got] = r /\ st'[got] = "live"
      BY <2>2, <2>4 DEF Create, Unused, Ids
    <3>3. QED
      BY <2>1, <3>1, <3>2 DEF IdsOf
  <2>5. QED
    BY <2>2, <2>3, <2>4
<1>2. CASE CreateVolume(r)
  <2>1. disk'[r] = disk[r]
    BY <1>2, <1>n DEF CreateVolume
  <2>2. PICK got \in Unused(VolumeIds) \cup {None}, extra \in Unused(VolumeIds) \cup {None} :
          /\ Create(r, got, extra)
          /\ mem'[r] = mem[r] \/ (got # None /\ mem'[r] = [mem[r] EXCEPT !.volume = got])
    BY <1>2, <1>a, <1>b DEF CreateVolume
  <2>3. CASE mem'[r] = mem[r]
    BY <2>1, <2>3
  <2>4. CASE got # None /\ mem'[r] = [mem[r] EXCEPT !.volume = got]
    <3>1. mem'[r].volume = got /\ mem'[r].server = mem[r].server
      BY <2>4, <1>b, FieldUpdates
    <3>2. got \in Ids /\ st[got] = "unused" /\ owner'[got] = r /\ st'[got] = "live"
      BY <2>2, <2>4 DEF Create, Unused, Ids
    <3>3. QED
      BY <2>1, <3>1, <3>2 DEF IdsOf
  <2>5. QED
    BY <2>2, <2>3, <2>4
<1>3. CASE Start(r)
  <2>. DEFINE s == [NoState(r) EXCEPT !.status = "running", !.started = now]
  <2>1. mem'[r] = s /\ Save(s)
    BY <1>3, <1>a, <1>b DEF Start
  <2>2. s.run = r /\ s.server = None /\ s.volume = None
    BY DEF NoState
  <2>. HIDE DEF s
  <2>3. disk'[r] = s
    BY <2>1, <2>2, <1>b DEF Save
  <2>4. QED
    BY <2>1, <2>2, <2>3 DEF IdsOf
<1>4. CASE ~CreateServer(r) /\ ~CreateVolume(r) /\ ~Start(r)
  <2>1. \/ mem'[r] = mem[r]
        \/ mem'[r] = NoState(r)
        \/ \E v : mem'[r] = [mem[r] EXCEPT !.cleanup = v]
        \/ \E v : mem'[r] = [mem[r] EXCEPT !.status = v]
        \/ \E v : mem'[r] = [mem[r] EXCEPT !.until = v]
    BY <1>4, <1>a, <1>b DEF RunStep, Inspect, RecordServer, Boot,
         RecordVolume, Work,
         Fail, Interrupt, Report, Cleanup, Verify, Finish, Escape, Crash, Leave
  <2>2. IdsOf(mem'[r]) \subseteq IdsOf(mem[r])
    <3>1. ASSUME NEW v, mem'[r] = [mem[r] EXCEPT !.cleanup = v]
          PROVE  IdsOf(mem'[r]) \subseteq IdsOf(mem[r])
      BY <3>1, <1>b, FieldUpdates DEF IdsOf
    <3>2. ASSUME NEW v, mem'[r] = [mem[r] EXCEPT !.status = v]
          PROVE  IdsOf(mem'[r]) \subseteq IdsOf(mem[r])
      BY <3>2, <1>b, FieldUpdates DEF IdsOf
    <3>3. ASSUME NEW v, mem'[r] = [mem[r] EXCEPT !.until = v]
          PROVE  IdsOf(mem'[r]) \subseteq IdsOf(mem[r])
      BY <3>3, <1>b, FieldUpdates DEF IdsOf
    <3>4. CASE mem'[r] = NoState(r)
      BY <3>4, NoStateFields DEF IdsOf
    <3>5. QED
      BY <2>1, <3>1, <3>2, <3>3, <3>4
  <2>3. \/ disk'[r] \in {disk[r], mem[r], mem'[r]}
        \/ Finish(r)
    BY <1>4, <1>a, <1>b, <1>s, <1>n, RunEffect DEF RunStep, Inspect,
         RecordServer, Boot,
         RecordVolume, Work, Fail, Interrupt, Report, Cleanup, Verify, Escape, Crash
  <2>4. CASE Finish(r)
    <3>1. disk'[r].server \in {mem[r].server, None} /\ disk'[r].volume \in {mem[r].volume, None}
      <4>1. pc[r] = "finish" /\ pc'[r] = "ended"
        BY <2>4, <1>a DEF Finish, Leave, Goto, ProcTypes
      <4>2. QED
        BY <2>4, <4>1, <1>4, RunEffect DEF EarlyStages, HostStages, Alive
    <3>2. QED
      BY <2>2, <3>1 DEF IdsOf
  <2>5. QED
    BY <2>2, <2>3, <2>4
<1>5. QED
  BY <1>1, <1>2, <1>3, <1>4
=============================================================================
