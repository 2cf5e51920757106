--------------------------- MODULE RestoreProofs ---------------------------
(***************************************************************************)
(* Theorems about RestoreSession: the types, that no command is started    *)
(* twice (AtMostOnce) and that up to the verification nothing runs beside a *)
(* command that changes the server (NothingBeside); that samples are laid   *)
(* where something was restored and that a report that passes describes the *)
(* server; and, for quarantines that work, that the server is isolated from *)
(* production. All for every plan, retry budget and pattern of failures but *)
(* those the theorems exclude.                                              *)
(***************************************************************************)
EXTENDS RestoreSession, SequenceTheorems, TLAPS

-----------------------------------------------------------------------------
(* The script.                                                             *)

VerifyCmds == {"app-settings", "health", "mail-verify"}

BootCmds ==
    {"wait-ready", "deploy", "wait-cloud-init", "mount-volume", "install-yunohost",
     "deploy-credentials", "install-borg-client", "borg-test", "quarantine",
     "domains", "postinstall", "reopen-port", "install-borg-app"}

FrontStep ==
    [cmd : BootCmds, of : {"host"}]
    \cup [cmd : {"restore-core"}, of : AppSet \cup {"system"}]
    \cup [cmd : {"add-domain"}, of : AppSet]
    \cup [cmd : {"extract-payload", "describe"}, of : Parts]

VerifyStep ==
    [cmd : {"app-settings", "health"}, of : AppSet] \cup [cmd : {"mail-verify"}, of : Parts]

Front == Prepared \o Restores \o Samples

(* Quotient and remainder of an index of Each stay within the bounds. *)
LEMMA EachIndex ==
    ASSUME NEW m \in Nat, NEW n \in Nat, NEW i \in 1 .. m * n
    PROVE  /\ m > 0
           /\ ((i - 1) % m) + 1 \in 1 .. m
           /\ ((i - 1) \div m) + 1 \in 1 .. n
<1>1. m > 0
  BY SMT
<1>2. ((i - 1) % m) + 1 \in 1 .. m
  BY <1>1, SMT
<1> DEFINE q == (i - 1) \div m
<1>3. q \in Nat /\ m * q <= i - 1
  BY <1>1, SMT
<1>4. q < n
  <2>1. SUFFICES ASSUME q >= n PROVE FALSE
    BY <1>3, SMT
  <2>2. m * q >= m * n
    BY <2>1, <1>3, SMT
  <2>3. QED
    BY <2>2, <1>3, SMT
<1>5. QED
  BY <1>1, <1>2, <1>3, <1>4, SMT

(* Each yields steps of the set R when every pair it may form is one. *)
LEMMA EachType ==
    ASSUME NEW R, NEW C, NEW D, NEW cmds \in Seq(C), NEW comps \in Seq(D),
           \A c \in DOMAIN cmds, x \in DOMAIN comps :
              [cmd |-> cmds[c], of |-> comps[x]] \in R
    PROVE  Each(cmds, comps) \in Seq(R)
<1> DEFINE m == Len(cmds)
           n == Len(comps)
<1>1. m \in Nat /\ n \in Nat /\ DOMAIN cmds = 1 .. m /\ DOMAIN comps = 1 .. n
  OBVIOUS
<1>2. m * n \in Nat
  BY <1>1, SMT
<1>3. ASSUME NEW i \in 1 .. m * n
      PROVE  [cmd |-> cmds[((i - 1) % m) + 1], of |-> comps[((i - 1) \div m) + 1]] \in R
  BY <1>1, <1>3, EachIndex
<1>4. QED
  BY <1>2, <1>3 DEF Each

(* A list of commands for the server as a whole. *)
LEMMA OnceType ==
    ASSUME NEW cmds \in Seq(BootCmds)
    PROVE  Once(cmds) \in Seq(FrontStep)
<1>2. <<"host">> \in Seq({"host"}) /\ DOMAIN <<"host">> = {1}
        /\ <<"host">>[1] = "host"
  BY SMT
<1>3. ASSUME NEW c \in DOMAIN cmds, NEW x \in DOMAIN <<"host">>
      PROVE  [cmd |-> cmds[c], of |-> <<"host">>[x]] \in FrontStep
  <2>1. cmds[c] \in BootCmds /\ <<"host">>[x] = "host"
    BY <1>2, <1>3, SMT
  <2>2. QED
    BY <2>1 DEF FrontStep
<1>4. QED
  BY <1>2, <1>3, EachType DEF Once

(* The lists of commands of the stages before the applications. *)
LEMMA BootSeqs ==
    /\ <<>> \in Seq(BootCmds)
    /\ <<"wait-ready", "deploy", "wait-cloud-init">> \in Seq(BootCmds)
    /\ <<"mount-volume">> \in Seq(BootCmds)
    /\ <<"install-yunohost", "deploy-credentials", "install-borg-client",
         "borg-test">> \in Seq(BootCmds)
    /\ <<"quarantine">> \in Seq(BootCmds)
    /\ <<"domains">> \in Seq(BootCmds)
    /\ <<"postinstall", "reopen-port">> \in Seq(BootCmds)
    /\ <<"install-borg-app">> \in Seq(BootCmds)
BY SMT DEF BootCmds

(* The applications and the data parts are listed in sequences. *)
LEMMA PlanTyped ==
    /\ Apps \in Seq(AppSet) /\ DataParts \in Seq(Parts)
    /\ Apps \in Seq(Parts) /\ Apps \o DataParts \in Seq(Parts)
<1>1. Apps \in Seq(AppSet) /\ DataParts \in Seq(Parts)
  BY PlanAssumption
<1>2. AppSet \subseteq Parts
  BY DEF Parts
<1>3. Apps \in Seq(Parts)
  BY <1>1, <1>2, SeqMonotonic
<1>4. QED
  BY <1>1, <1>3, ConcatProperties

(* The steps before the verification are those of the stages bootstrap,      *)
(* restore core and samples.                                                 *)
LEMMA FrontTyped == Front \in Seq(FrontStep)
<1> DEFINE R == Seq(FrontStep)
<1>1. Bootstrap \in R
  <2>1. Once(<<"wait-ready", "deploy", "wait-cloud-init">>) \in R
    BY BootSeqs, OnceType
  <2>2. Once(IF WithVolume THEN <<"mount-volume">> ELSE <<>>) \in R
    BY BootSeqs, OnceType
  <2>3. Once(<<"install-yunohost", "deploy-credentials", "install-borg-client",
               "borg-test">>) \in R
    BY BootSeqs, OnceType
  <2>4. QED
    BY <2>1, <2>2, <2>3, ConcatProperties DEF Bootstrap
<1>2. IsolateFirst \in R /\ IsolateAgain \in R
  BY BootSeqs, OnceType DEF IsolateFirst, IsolateAgain
<1>3. System \in R
  <2>1. Each(<<"restore-core">>, <<"system">>) \in R
    <3>1. <<"restore-core">> \in Seq({"restore-core"}) /\ <<"system">> \in Seq({"system"})
      BY SMT
    <3>2. ASSUME NEW c \in DOMAIN <<"restore-core">>, NEW x \in DOMAIN <<"system">>
          PROVE  [cmd |-> <<"restore-core">>[c], of |-> <<"system">>[x]] \in FrontStep
      <4>1. <<"restore-core">>[c] = "restore-core" /\ <<"system">>[x] = "system"
        BY <3>2, SMT
      <4>2. QED
        BY <4>1 DEF FrontStep
    <3>3. QED
      BY <3>1, <3>2, EachType
  <2>2. Once(<<"domains">>) \in R /\ Once(<<"postinstall", "reopen-port">>) \in R
    BY BootSeqs, OnceType
  <2>3. Each(<<"add-domain">>, AddedDomains) \in R
    <3>1. AddedDomains \in Seq(AppSet)
      <4>1. Apps # <<>> => Tail(Apps) \in Seq(AppSet)
        BY PlanTyped, HeadTailProperties
      <4>2. QED
        BY <4>1, PlanTyped DEF AddedDomains
    <3>3. <<"add-domain">> \in Seq({"add-domain"})
      BY SMT
    <3>4. ASSUME NEW c \in DOMAIN <<"add-domain">>, NEW x \in DOMAIN AddedDomains
          PROVE  [cmd |-> <<"add-domain">>[c], of |-> AddedDomains[x]] \in FrontStep
      <4>1. <<"add-domain">>[c] = "add-domain" /\ AddedDomains[x] \in AppSet
        BY <3>1, <3>4, SMT
      <4>2. QED
        BY <4>1 DEF FrontStep
    <3>5. QED
      BY <3>1, <3>3, <3>4, EachType
  <2>4. QED
    BY <1>2, <2>1, <2>2, <2>3, ConcatProperties DEF System
<1>4. Restores \in R
  <2>1. Once(IF BorgApp THEN <<"install-borg-app">> ELSE <<>>) \in R
    BY BootSeqs, OnceType
  <2>2. Each(<<"restore-core">>, Apps) \in R
    <3>2. <<"restore-core">> \in Seq({"restore-core"})
      BY SMT
    <3>3. ASSUME NEW c \in DOMAIN <<"restore-core">>, NEW x \in DOMAIN Apps
          PROVE  [cmd |-> <<"restore-core">>[c], of |-> Apps[x]] \in FrontStep
      <4>1. <<"restore-core">>[c] = "restore-core" /\ Apps[x] \in AppSet
        BY <3>3, PlanTyped, SMT
      <4>2. QED
        BY <4>1 DEF FrontStep
    <3>4. QED
      BY PlanTyped, <3>2, <3>3, EachType
  <2>3. QED
    BY <2>1, <2>2, ConcatProperties DEF Restores
<1>5. Samples \in R
  <2> DEFINE comps == Apps \o DataParts
             cmds == <<"extract-payload", "describe">>
  <2>1. comps \in Seq(Parts)
    BY PlanTyped
  <2>2. cmds \in Seq({"extract-payload", "describe"})
    BY SMT
  <2>3. ASSUME NEW c \in DOMAIN cmds, NEW x \in DOMAIN comps
        PROVE  [cmd |-> cmds[c], of |-> comps[x]] \in FrontStep
    <3>1. comps[x] \in Parts
      BY <2>1, <2>3, ElementOfSeq
    <3>2. cmds[c] \in {"extract-payload", "describe"}
      BY <2>3, SMT
    <3>3. QED
      BY <3>1, <3>2 DEF FrontStep
  <2>4. QED
    BY <2>1, <2>2, <2>3, EachType DEF Samples
<1>6. QED
  BY <1>1, <1>2, <1>3, <1>4, <1>5, ConcatProperties DEF Front, Prepared

(* The steps of the verification are the caught ones.                        *)
LEMMA VerifyTyped == Verify \in Seq(VerifyStep)
<1>1. Each(<<"app-settings", "health", "mail-verify">>, Apps) \in Seq(VerifyStep)
  <2> DEFINE cmds == <<"app-settings", "health", "mail-verify">>
  <2>1. cmds \in Seq(VerifyCmds)
    BY SMT DEF VerifyCmds
  <2>2. ASSUME NEW c \in DOMAIN cmds, NEW x \in DOMAIN Apps
        PROVE  [cmd |-> cmds[c], of |-> Apps[x]] \in VerifyStep
    <3>1. cmds[c] \in VerifyCmds /\ Apps[x] \in AppSet
      BY <2>1, <2>2, PlanTyped, ElementOfSeq
    <3>2. QED
      BY <3>1 DEF VerifyStep, VerifyCmds, Parts
  <2>3. QED
    BY PlanTyped, <2>1, <2>2, EachType
<1>2. Each(<<"mail-verify">>, DataParts) \in Seq(VerifyStep)
  <2>1. <<"mail-verify">> \in Seq({"mail-verify"})
    BY SMT
  <2>2. ASSUME NEW c \in DOMAIN <<"mail-verify">>, NEW x \in DOMAIN DataParts
        PROVE  [cmd |-> <<"mail-verify">>[c], of |-> DataParts[x]] \in VerifyStep
    <3>1. <<"mail-verify">>[c] = "mail-verify" /\ DataParts[x] \in Parts
      BY <2>2, PlanTyped, SMT
    <3>2. QED
      BY <3>1 DEF VerifyStep
  <2>3. QED
    BY PlanTyped, <2>1, <2>2, EachType
<1>3. QED
  BY <1>1, <1>2, ConcatProperties DEF Verify

ScriptStep == FrontStep \cup VerifyStep

LEMMA ScriptTyped ==
    /\ Script \in Seq(ScriptStep)
    /\ Len(Script) \in Nat
    /\ Steps = 1 .. Len(Script)
    /\ \A i \in Steps : Script[i] \in ScriptStep
<1>1. Front \in Seq(ScriptStep) /\ Verify \in Seq(ScriptStep)
  BY FrontTyped, VerifyTyped, SeqMonotonic DEF ScriptStep
<1>2. Script = Front \o Verify
  BY DEF Script, Front
<1>3. Script \in Seq(ScriptStep)
  BY <1>1, <1>2, ConcatProperties
<1>4. QED
  BY <1>3, LenProperties, ElementOfSeq DEF Steps

(* After a step whose errors are caught there are only such steps. *)
LEMMA ScriptOrder ==
    ASSUME NEW i \in Steps, NEW j \in Steps, i < j, Caught(Script[i])
    PROVE  Caught(Script[j])
<1> DEFINE n == Len(Front)
<1>1. /\ Script = Front \o Verify
      /\ n \in Nat /\ Len(Verify) \in Nat
      /\ Len(Script) = n + Len(Verify)
      /\ \A k \in 1 .. n : Script[k] = Front[k] /\ Front[k] \in FrontStep
      /\ \A k \in 1 .. Len(Verify) : Verify[k] \in VerifyStep
  <2>1. Script = Front \o Verify
    BY DEF Script, Front
  <2>2. Front \in Seq(ScriptStep) /\ Verify \in Seq(ScriptStep)
    BY FrontTyped, VerifyTyped, SeqMonotonic DEF ScriptStep
  <2>3. QED
    BY <2>1, <2>2, FrontTyped, VerifyTyped, ConcatProperties, LenProperties, ElementOfSeq
<1>2. i \notin 1 .. n
  <2>1. ASSUME NEW k \in 1 .. n PROVE ~ Caught(Script[k])
    BY <1>1, <2>1 DEF Caught, FrontStep, BootCmds
  <2>2. QED
    BY <2>1
<1>3. j \in n + 1 .. n + Len(Verify)
  BY <1>1, <1>2, ScriptTyped, SMT
<1>4. Script[j] = Verify[j - n] /\ j - n \in 1 .. Len(Verify)
  <2>1. j - n \in 1 .. Len(Verify)
    BY <1>1, <1>3, SMT
  <2>2. Front \in Seq(ScriptStep) /\ Verify \in Seq(ScriptStep)
    BY FrontTyped, VerifyTyped, SeqMonotonic DEF ScriptStep
  <2>3. QED
    BY <1>1, <1>3, <2>1, <2>2, ConcatProperties, SMT
<1>5. Script[j] \in VerifyStep
  BY <1>1, <1>4
<1>6. QED
  BY <1>5 DEF VerifyStep, Caught

-----------------------------------------------------------------------------
(* Types.                                                                  *)

(* There is an ssh command only for a step of a session that goes on, and    *)
(* only an open one has an answer.                                           *)
Position ==
    /\ call # "idle" => at \in Steps /\ fatal = "none"
    /\ call # "open" => reply = "none"

(* The component of a step that is judged in the report has a report.        *)
LEMMA ComponentTyped ==
    ASSUME NEW s \in ScriptStep
    PROVE  /\ s.cmd = "restore-core" => s.of \in AppSet \cup {"system"}
           /\ s.cmd = "add-domain" => s.of \in AppSet
           /\ s.cmd \in {"extract-payload", "describe", "mail-verify"} => s.of \in Parts
           /\ s.cmd \in {"app-settings", "health"} => s.of \in AppSet
           /\ s.cmd \in BootCmds \ {"install-borg-app"} => ~Caught(s)
<1>1. CASE s \in FrontStep
  BY <1>1 DEF FrontStep, BootCmds, Caught
<1>2. CASE s \in VerifyStep
  BY <1>2 DEF VerifyStep, BootCmds, Caught
<1>3. QED
  BY <1>1, <1>2 DEF ScriptStep

LEMMA DomainsTyped ==
    /\ AppSet \subseteq Domains /\ MainDomain \subseteq Domains
    /\ OtherDomains \subseteq Domains /\ FirstDomain \subseteq Domains
<1>1. CASE MainDomain # {} \/ Apps = <<>>
  BY <1>1 DEF Domains, FirstDomain
<1>2. CASE ~ (MainDomain # {} \/ Apps = <<>>)
  <2>1. 1 \in DOMAIN Apps
    BY <1>2, PlanTyped, EmptySeq, LenProperties, SMT
  <2>2. Apps[1] \in AppSet
    BY <2>1 DEF AppSet
  <2>3. QED
    BY <1>2, <2>2 DEF Domains, FirstDomain
<1>3. QED
  BY <1>1, <1>2

(* What a helper may do to the server keeps its type. *)
LEMMA OutcomesTyped ==
    ASSUME NEW s \in ScriptStep, NEW h \in HostType, NEW ds \in SUBSET Domains,
           NEW o \in Outcomes(s, h, ds)
    PROVE  o.says \in Replies /\ o.host \in HostType
<1>1. /\ HostsWritten(h, ds) \in HostType /\ KeysRemoved(h, ds) \in HostType
      /\ Quarantined(h, ds) \in HostType
  BY DEF HostsWritten, KeysRemoved, Quarantined, HostType
<1>2. Unpacked(h) \in HostType
  BY DomainsTyped DEF Unpacked, HostType
<1>3. ASSUME s.cmd = "restore-core"
      PROVE  /\ CoreRestored(s, h) \in HostType
             /\ CoreLeftovers(s, h) \subseteq HostType
             /\ \A g \in HostType : Reverted(g, h.sources) \in HostType
  <2>1. s.of \in AppSet \cup {"system"}
    BY <1>3, ComponentTyped
  <2>2. s.of # "system" => WithSources(h, s.of) \in HostType
    BY <2>1 DEF WithSources, HostType
  <2>3. CoreRestored(s, h) \in HostType
    BY <1>2, <2>1, <2>2 DEF CoreRestored, HostType
  <2>4. CoreLeftovers(s, h) \subseteq HostType
    BY <1>2, <2>2 DEF CoreLeftovers
  <2>5. \A g \in HostType : Reverted(g, h.sources) \in HostType
    BY DEF Reverted, HostType
  <2>6. QED
    BY <2>3, <2>4, <2>5
<1>4. Done(s, h, ds) \in HostType
  <2>1. CASE s.cmd = "add-domain"
    BY <2>1, ComponentTyped, DomainsTyped DEF Done, HostType
  <2>2. CASE s.cmd = "extract-payload"
    BY <2>2, ComponentTyped DEF Done, HostType
  <2>3. CASE s.cmd = "postinstall"
    BY <2>3, DomainsTyped DEF Done, HostType
  <2>4. CASE s.cmd = "install-yunohost"
    BY <2>4 DEF Done, HostType
  <2>5. QED
    BY <1>1, <1>3, <2>1, <2>2, <2>3, <2>4 DEF Done
<1>5. Undone(s, h) \subseteq HostType
  BY <1>3 DEF Undone
<1>6. Halfway(s, h, ds) \subseteq HostType
  BY <1>1, <1>3, <1>4 DEF Halfway
<1>7. Answers(s, h) \subseteq Replies
  BY DEF Answers, Replies
<1>8. QED
  BY <1>4, <1>5, <1>6, <1>7 DEF Outcomes, Replies

(* The parts of TypeOK that an action changes together. *)
FlowOK ==
    /\ at \in 1 .. Len(Script) + 1
    /\ call \in {"idle", "dialing", "open"}
    /\ attempt \in Nat /\ waited \in Nat
    /\ reply \in Replies
    /\ fatal \in {"none", "error", "interrupted"}

FindingsOK ==
    /\ payload \in Replies
    /\ known \subseteq Domains
    /\ checks \in [Reported -> SUBSET Checks]
    /\ samples \in [Reported -> {"none", "readable", "some", "unreadable"}]
    /\ warned \in BOOLEAN

EndOK == asked \in BOOLEAN /\ ended \in {"no", "retained", "released"}

WorldOK ==
    /\ started \in [Steps -> Nat]
    /\ procs \subseteq [step : Steps, run : Nat]
    /\ \A p \in procs : p.run \in 1 .. started[p.step]
    /\ host \in HostType

LEMMA TypeParts ==
    /\ TypeOK <=> FlowOK /\ FindingsOK /\ EndOK /\ WorldOK
    /\ TypeOK' <=> FlowOK' /\ FindingsOK' /\ EndOK' /\ WorldOK'
BY DEF TypeOK, FlowOK, FindingsOK, EndOK, WorldOK

(* Proceed, Stop, Redial and Errs keep the types of what they change. *)
LEMMA FlowKept ==
    ASSUME FlowOK, Position, at \in Steps
    PROVE  /\ Proceed /\ fatal' = fatal => FlowOK' /\ Position'
           /\ Redial /\ call # "idle" => FlowOK' /\ Position'
           /\ \A why \in {"error", "interrupted"} : Stop(why) => FlowOK' /\ Position'
<1>1. at + 1 \in 1 .. Len(Script) + 1
  BY ScriptTyped, SMT DEF FlowOK
<1>2. ASSUME Proceed, fatal' = fatal PROVE FlowOK' /\ Position'
  BY <1>1, <1>2 DEF Proceed, FlowOK, Position, Replies
<1>3. ASSUME Redial, call # "idle" PROVE FlowOK' /\ Position'
  <2>1. Delay \in Nat
    BY SMT DEF Delay
  <2>2. attempt' \in Nat /\ waited' \in Nat
    BY <1>3, <2>1, SMT DEF Redial, FlowOK
  <2>3. QED
    BY <1>3, <2>2 DEF Redial, FlowOK, Position, Replies, outcome
<1>4. ASSUME NEW why \in {"error", "interrupted"}, Stop(why) PROVE FlowOK' /\ Position'
  BY <1>4 DEF Stop, FlowOK, Position, Replies
<1>5. QED
  BY <1>2, <1>3, <1>4

LEMMA CheckKept ==
    ASSUME NEW c, NEW names \in SUBSET Checks, checks \in [Reported -> SUBSET Checks],
           Check(c, names)
    PROVE  checks' \in [Reported -> SUBSET Checks]
BY DEF Check

LEMMA ErrsKept ==
    ASSUME TypeOK, Position, at \in Steps, Errs, UNCHANGED world
    PROVE  TypeOK' /\ Position'
<1> USE TypeParts
<1>1. WorldOK'
  BY DEF WorldOK, world
<1>2. CASE Check(Current.of, {"unreachable"}) /\ Proceed /\ UNCHANGED outcome
  <2>1. checks' \in [Reported -> SUBSET Checks]
    BY <1>2, CheckKept DEF FindingsOK, Checks, FailChecks
  <2>2. FlowOK' /\ Position'
    BY <1>2, FlowKept DEF outcome
  <2>3. QED
    BY <1>1, <1>2, <2>1, <2>2 DEF Errs, FindingsOK, EndOK, outcome
<1>3. CASE Stop("error") /\ UNCHANGED checks
  <2>1. FlowOK' /\ Position'
    BY <1>3, FlowKept
  <2>2. QED
    BY <1>1, <1>3, <2>1 DEF Errs, FindingsOK, EndOK, Stop
<1>4. QED
  BY <1>2, <1>3 DEF Errs

(* The answers: the session was open, so the step is one of the script. *)
LEMMA AnswersKept ==
    ASSUME TypeOK, Position, Judge
    PROVE  TypeOK' /\ Position'
<1> USE TypeParts
<1>1. ASSUME NEW cmds, Answered(cmds)
      PROVE  /\ at \in Steps /\ Current \in ScriptStep /\ Current.cmd \in cmds
             /\ FlowOK /\ FindingsOK /\ EndOK /\ WorldOK
  BY <1>1, ScriptTyped DEF Answered, Position, Current
<1>2. ASSUME at \in Steps, Proceed, UNCHANGED <<outcome, world>>
      PROVE  FlowOK' /\ Position' /\ EndOK' /\ WorldOK'
  BY <1>2, FlowKept DEF EndOK, WorldOK, outcome, world
<1>3. CASE AnswerIgnored
  BY <1>1, <1>2, <1>3 DEF AnswerIgnored, FindingsOK, findings
<1>4. CASE AnswerRequired
  <2>1. at \in Steps /\ FindingsOK'
    BY <1>1, <1>4 DEF AnswerRequired, FindingsOK, findings
  <2>2. CASE Good
    BY <1>2, <1>4, <2>1, <2>2 DEF AnswerRequired
  <2>3. CASE ~Good
    <3>1. Stop("error")
      BY <1>4, <2>3 DEF AnswerRequired
    <3>2. FlowOK' /\ Position'
      BY <2>1, <3>1, FlowKept
    <3>3. EndOK' /\ WorldOK'
      BY <1>4, <3>1 DEF AnswerRequired, Stop, EndOK, WorldOK, world
    <3>4. QED
      BY <2>1, <3>2, <3>3
  <2>4. QED
    BY <2>2, <2>3
<1>5. CASE AnswerBestEffort
  <2>1. FindingsOK'
    BY <1>1, <1>5 DEF AnswerBestEffort, FindingsOK, Good
  <2>2. QED
    BY <1>1, <1>2, <1>5, <2>1 DEF AnswerBestEffort
<1>6. CASE AnswerDomains
  <2>1. FindingsOK'
    BY <1>1, <1>6 DEF AnswerDomains, FindingsOK, WorldOK, HostType
  <2>2. QED
    BY <1>1, <1>2, <1>6, <2>1 DEF AnswerDomains
<1>7. CASE AnswerRestore
  <2>1. {CoreCheck(reply)} \in SUBSET Checks
    BY DEF CoreCheck, Checks, FailChecks, WarnChecks
  <2>2. FindingsOK'
    BY <1>1, <1>7, <2>1, CheckKept DEF AnswerRestore, FindingsOK
  <2>3. CASE Proceed /\ UNCHANGED outcome
    BY <1>1, <1>2, <1>7, <2>2, <2>3 DEF AnswerRestore
  <2>4. CASE SaveRestoreLogFails
    <3>1. at \in Steps /\ Stop("error")
      BY <1>1, <1>7, <2>4 DEF AnswerRestore, SaveRestoreLogFails
    <3>2. FlowOK' /\ Position'
      BY <3>1, FlowKept
    <3>3. EndOK' /\ WorldOK'
      BY <1>7, <3>1 DEF AnswerRestore, Stop, EndOK, WorldOK, world
    <3>4. QED
      BY <2>2, <3>2, <3>3
  <2>5. QED
    BY <1>7, <2>3, <2>4 DEF AnswerRestore
<1>8. ASSUME NEW got PROVE RetrievalChecks(got) \in SUBSET Checks
  BY DEF RetrievalChecks, Checks, FailChecks, WarnChecks
<1>9. CASE AnswerExtract
  <2>1. FindingsOK'
    BY <1>1, <1>8, <1>9, CheckKept DEF AnswerExtract, FindingsOK, FlowOK
  <2>2. QED
    BY <1>1, <1>2, <1>9, <2>1 DEF AnswerExtract
<1>10. CASE AnswerDescribe
  <2> DEFINE names == RetrievalChecks(payload)
                        \cup (IF reply = "alarm" THEN {"content-warn"} ELSE {})
  <2>1. names \in SUBSET Checks
    BY <1>8 DEF Checks, WarnChecks
  <2>2. checks' \in [Reported -> SUBSET Checks]
    BY <1>1, <1>10, <2>1, CheckKept DEF AnswerDescribe, FindingsOK
  <2>3. samples' \in [Reported -> {"none", "readable", "some", "unreadable"}]
    BY <1>1, <1>10 DEF AnswerDescribe, FindingsOK, SampleResult
  <2>4. FindingsOK'
    BY <1>1, <1>10, <2>2, <2>3 DEF AnswerDescribe, FindingsOK
  <2>5. QED
    BY <1>1, <1>2, <1>10, <2>4 DEF AnswerDescribe
<1>11. CASE AnswerHealth
  <2>1. HealthChecks(reply) \in SUBSET Checks
    BY DEF HealthChecks, Checks, FailChecks, WarnChecks
  <2>2. FindingsOK'
    BY <1>1, <1>11, <2>1, CheckKept DEF AnswerHealth, FindingsOK
  <2>3. QED
    BY <1>1, <1>2, <1>11, <2>2 DEF AnswerHealth
<1>12. CASE AnswerMail
  <2>1. {IF reply = "ok" THEN "mail-pass" ELSE "skipped"} \in SUBSET Checks
    BY DEF Checks
  <2>2. FindingsOK'
    BY <1>1, <1>12, <2>1, CheckKept DEF AnswerMail, FindingsOK
  <2>3. QED
    BY <1>1, <1>2, <1>12, <2>2 DEF AnswerMail
<1>13. QED
  BY <1>3, <1>4, <1>5, <1>6, <1>7, <1>9, <1>10, <1>11, <1>12 DEF Judge

LEMMA HelperKept ==
    ASSUME TypeOK, Position, NEW p \in procs, HelperEnds(p)
    PROVE  TypeOK' /\ Position'
<1> USE TypeParts
<1>1. PICK o \in Outcomes(Script[p.step], host, known) :
        /\ host' = o.host
        /\ reply' = IF call = "open" /\ p = [step |-> at, run |-> started[at]]
                    THEN o.says ELSE reply
  BY DEF HelperEnds
<1>2. Script[p.step] \in ScriptStep
  BY ScriptTyped DEF WorldOK
<1>3. o.says \in Replies /\ o.host \in HostType
  BY <1>2, OutcomesTyped DEF WorldOK, FindingsOK
<1>4. WorldOK'
  BY <1>1, <1>3 DEF WorldOK, HelperEnds
<1>5. FlowOK' /\ Position'
  BY <1>1, <1>3 DEF FlowOK, Position, HelperEnds, outcome
<1>6. QED
  BY <1>4, <1>5 DEF FindingsOK, EndOK, HelperEnds, findings, outcome

LEMMA WalkKept ==
    ASSUME TypeOK, Position, Walk \/ Signal
    PROVE  TypeOK' /\ Position'
<1> USE TypeParts
<1>1. CASE NoticeSignal
  <2>1. at \in Steps /\ Stop("interrupted")
    BY <1>1 DEF NoticeSignal, Idle
  <2>2. FlowOK' /\ Position'
    BY <2>1, FlowKept
  <2>3. QED
    BY <1>1, <2>1, <2>2 DEF NoticeSignal, Stop, FindingsOK, EndOK, WorldOK, findings, world
<1>2. CASE Skip
  <2>1. FlowOK' /\ Position'
    BY <1>2, FlowKept DEF Skip, Idle, outcome
  <2>2. QED
    BY <1>2, <2>1 DEF Skip, FindingsOK, EndOK, WorldOK, findings, outcome, world
<1>3. CASE Dial
  BY <1>3 DEF Dial, Idle, FlowOK, Position, FindingsOK, EndOK, WorldOK, findings,
              outcome, world
<1>4. CASE Report
  BY <1>4 DEF Report, FlowOK, Position, FindingsOK, EndOK, WorldOK, findings, wire, world
<1>5. CASE Signal
  BY <1>5 DEF Signal, FlowOK, Position, FindingsOK, EndOK, WorldOK, findings, wire, world
<1>6. QED
  BY <1>1, <1>2, <1>3, <1>4, <1>5 DEF Walk

LEMMA TalkKept ==
    ASSUME TypeOK, Position, Talk
    PROVE  TypeOK' /\ Position'
<1> USE TypeParts
<1>1. at \in Steps /\ call # "idle"
  BY DEF Talk, Refuse, Connect, Break, Position
<1>2. ASSUME Redial, UNCHANGED world PROVE TypeOK' /\ Position'
  <2>1. FlowOK' /\ Position'
    BY <1>1, <1>2, FlowKept
  <2>2. QED
    BY <1>2, <2>1 DEF Redial, FindingsOK, EndOK, WorldOK, findings, outcome, world
<1>3. CASE Refuse
  BY <1>1, <1>2, <1>3, ErrsKept DEF Refuse
<1>4. CASE Break
  BY <1>1, <1>2, <1>4, ErrsKept DEF Break
<1>5. CASE Connect
  <2> DEFINE new == [step |-> at, run |-> started[at] + 1]
  <2>1. started[at] \in Nat /\ started' = [started EXCEPT ![at] = started[at] + 1]
    BY <1>1, <1>5 DEF Connect, WorldOK
  <2>2. started' \in [Steps -> Nat] /\ new \in [step : Steps, run : Nat]
    BY <1>1, <2>1 DEF WorldOK
  <2>3. procs' = procs \cup {new}
    BY <1>5 DEF Connect
  <2>4. ASSUME NEW p \in procs' PROVE p.run \in 1 .. started'[p.step]
    <3>1. CASE p = new
      BY <1>1, <2>1, <3>1, SMT DEF WorldOK
    <3>2. CASE p \in procs
      <4>1. p.step \in Steps /\ p.run \in 1 .. started[p.step]
        BY <3>2 DEF WorldOK
      <4>2. started[p.step] \in Nat /\ started'[p.step] \in Nat
            /\ started[p.step] <= started'[p.step]
        BY <1>1, <2>1, <4>1, SMT DEF WorldOK
      <4>3. QED
        BY <4>1, <4>2, SMT
    <3>3. QED
      BY <2>3, <2>4, <3>1, <3>2
  <2>5. WorldOK'
    BY <1>5, <2>2, <2>3, <2>4 DEF Connect, WorldOK
  <2>6. QED
    BY <1>1, <1>5, <2>5 DEF Connect, FlowOK, Position, FindingsOK, EndOK, findings, outcome
<1>6. QED
  BY <1>3, <1>4, <1>5 DEF Talk

LEMMA TypeInit == Init => TypeOK /\ Position
<1> SUFFICES ASSUME Init PROVE TypeOK /\ Position
  OBVIOUS
<1>1. at \in 1 .. Len(Script) + 1
  BY ScriptTyped, SMT DEF Init
<1>2. host \in HostType
  BY DEF Init, FreshHost, HostType
<1>3. known \subseteq Domains
  BY DomainsTyped DEF Init
<1>4. QED
  BY <1>1, <1>2, <1>3 DEF Init, TypeOK, Position, Replies

LEMMA TypeNext == TypeOK /\ Position /\ [Next]_vars => TypeOK' /\ Position'
<1> SUFFICES ASSUME TypeOK, Position, [Next]_vars PROVE TypeOK' /\ Position'
  OBVIOUS
<1>1. CASE UNCHANGED vars
  BY <1>1 DEF TypeOK, Position, vars, wire, findings, outcome, world
<1>2. CASE Next
  BY <1>2, WalkKept, TalkKept, AnswersKept, HelperKept DEF Next, Orchestrate
<1>3. QED
  BY <1>1, <1>2

(* The types of RestoreSession hold for every plan and every configuration.  *)
THEOREM SessionTyped == Spec => []TypeOK
<1>1. TypeOK /\ Position /\ [Next]_vars => (TypeOK /\ Position)'
  BY TypeNext
<1>2. QED
  BY <1>1, TypeInit, PTL DEF Spec

-----------------------------------------------------------------------------
(* What a command may meet on the server.                                  *)

NotPoll(i) == Script[i].cmd # "wait-ready"

(* A step that has not come yet was not started; nor was the current one     *)
(* while the session is being dialed.                                        *)
Counted ==
    \A i \in Steps :
        /\ i > at => started[i] = 0
        /\ NotPoll(i) /\ i = at /\ call # "open" /\ fatal = "none" => started[i] = 0

(* A helper whose step is not verification runs only under the session that  *)
(* started it and waits for its answer, until an error ends the run.         *)
Attended ==
    \A p \in procs :
        /\ p.step <= at
        /\ NotPoll(p.step) /\ ~Caught(Script[p.step]) /\ fatal = "none"
             => p.step = at /\ call = "open" /\ reply = "none"

Control == Counted /\ AtMostOnce /\ Attended /\ NothingBeside

(* How a step moves the position in the script. *)
Advances ==
    /\ at \in Steps /\ fatal = "none"
    /\ call # "open" \/ reply # "none" \/ Caught(Current)
    /\ Proceed /\ UNCHANGED <<fatal, procs, started>>

Halts == fatal' # "none" /\ call' = "idle" /\ UNCHANGED <<at, procs, started>>

Dials ==
    /\ at \in Steps /\ fatal = "none"
    /\ call # "open" \/ ~NotPoll(at)
    /\ call' = "dialing" /\ UNCHANGED <<at, fatal, procs, started>>

Stays == UNCHANGED <<at, call, reply, fatal, procs, started>>

LEMMA Kinds ==
    ASSUME TypeOK, Position, [Next]_vars
    PROVE  \/ Advances \/ Halts \/ Dials \/ Stays
           \/ Connect \/ \E p \in procs : HelperEnds(p)
<1>1. CASE UNCHANGED vars
  BY <1>1 DEF Stays, vars, wire, outcome, world
<1>2. ASSUME at \in Steps, fatal = "none", Errs, UNCHANGED world
      PROVE  Advances \/ Halts
  BY <1>2 DEF Errs, Advances, Halts, Stop, outcome, world
<1>3. CASE Walk
  <2>1. CASE NoticeSignal
    BY <2>1 DEF NoticeSignal, Stop, Halts, world
  <2>2. CASE Skip
    BY <2>2 DEF Skip, Idle, Advances, outcome, world
  <2>3. CASE Dial
    BY <2>3 DEF Dial, Idle, Dials, outcome, world
  <2>4. CASE Report
    BY <2>4 DEF Report, Stays, wire, world
  <2>5. QED
    BY <1>3, <2>1, <2>2, <2>3, <2>4 DEF Walk
<1>4. CASE Talk
  <2>1. CASE Refuse
    BY <1>2, <2>1 DEF Refuse, Position, Redial, Dials, outcome, world
  <2>2. CASE Break
    BY <1>2, <2>2 DEF Break, Position, Redial, Repeats, Current, NotPoll, Dials, outcome, world
  <2>3. QED
    BY <1>4, <2>1, <2>2 DEF Talk
<1>5. CASE Judge
  <2>1. at \in Steps /\ fatal = "none" /\ reply # "none"
    BY <1>5 DEF Judge, AnswerIgnored, AnswerRequired, AnswerBestEffort, AnswerDomains,
         AnswerRestore, AnswerExtract, AnswerDescribe, AnswerHealth, AnswerMail,
         Answered, Position
  <2>2. CASE AnswerRequired
    BY <2>1, <2>2 DEF AnswerRequired, Advances, Halts, Stop, outcome, world
  <2>3. CASE AnswerRestore
    BY <2>1, <2>3 DEF AnswerRestore, SaveRestoreLogFails, Advances, Halts, Stop, outcome,
         world
  <2>4. CASE ~AnswerRequired /\ ~AnswerRestore
    BY <1>5, <2>1, <2>4 DEF Judge, AnswerIgnored, AnswerBestEffort, AnswerDomains,
         AnswerExtract, AnswerDescribe, AnswerHealth, AnswerMail,
         Advances, outcome, world
  <2>5. QED
    BY <2>2, <2>3, <2>4
<1>6. CASE Signal
  BY <1>6 DEF Signal, Stays, wire, world
<1>7. QED
  BY <1>1, <1>3, <1>4, <1>5, <1>6 DEF Next, Orchestrate

LEMMA NotBoth ==
    ASSUME NEW i \in Steps, Script[i].cmd \in Changing
    PROVE  NotPoll(i)
BY DEF Changing, NotPoll

LEMMA AdvanceKeeps ==
    ASSUME TypeOK, Position, Control, Advances
    PROVE  Control'
<1>1. at \in Nat /\ at' = at + 1 /\ call' = "idle" /\ fatal' = fatal /\ fatal = "none"
      /\ procs' = procs /\ started' = started /\ procs \subseteq [step : Steps, run : Nat]
  BY SMT DEF Advances, Proceed, TypeOK
<1>2. Counted'
  <2> SUFFICES ASSUME NEW i \in Steps, i >= at + 1 PROVE started[i] = 0
    BY <1>1, ScriptTyped, SMT DEF Counted, NotPoll
  <2>1. i > at
    BY <1>1, ScriptTyped, SMT
  <2>2. QED
    BY <2>1 DEF Control, Counted
<1>3. Attended'
  <2>1. ASSUME NEW p \in procs PROVE p.step <= at + 1
    BY <1>1, <2>1, ScriptTyped, SMT DEF Control, Attended
  <2>2. ASSUME NEW p \in procs, NotPoll(p.step), ~Caught(Script[p.step]) PROVE FALSE
    BY <1>1, <2>2 DEF Control, Attended, Advances, Current
  <2>3. QED
    BY <1>1, <2>1, <2>2 DEF Attended, NotPoll
<1>4. QED
  BY <1>1, <1>2, <1>3 DEF Control, AtMostOnce, NothingBeside

LEMMA OthersKeep ==
    ASSUME TypeOK, Position, Control, Halts \/ Dials \/ Stays
    PROVE  Control'
<1>1. at' = at /\ procs' = procs /\ started' = started
  BY DEF Halts, Dials, Stays
<1>2. AtMostOnce' /\ NothingBeside'
  BY <1>1 DEF Control, AtMostOnce, NothingBeside
<1>3. CASE Halts
  BY <1>1, <1>2, <1>3 DEF Halts, Control, Counted, Attended, NotPoll
<1>4. CASE Dials
  <2>1. Counted'
    BY <1>1, <1>4 DEF Dials, Control, Counted, NotPoll
  <2>2. ASSUME NEW p \in procs, NotPoll(p.step), ~Caught(Script[p.step]) PROVE FALSE
    BY <1>4, <2>2 DEF Dials, Control, Attended
  <2>3. Attended'
    BY <1>1, <2>2 DEF Control, Attended, NotPoll
  <2>4. QED
    BY <1>2, <2>1, <2>3 DEF Control
<1>5. CASE Stays
  BY <1>1, <1>2, <1>5 DEF Stays, Control, Counted, Attended, NotPoll
<1>6. QED
  BY <1>3, <1>4, <1>5

LEMMA ConnectKeeps ==
    ASSUME TypeOK, Position, Control, Connect
    PROVE  Control'
<1> DEFINE new == [step |-> at, run |-> started[at] + 1]
<1>1. at \in Steps /\ fatal = "none" /\ call = "dialing" /\ reply = "none"
  BY DEF Connect, Position
<1>2. at' = at /\ call' = "open" /\ fatal' = fatal /\ reply' = reply
      /\ procs' = procs \cup {new} /\ started' = [started EXCEPT ![at] = started[at] + 1]
  BY DEF Connect, outcome
<1>3. started \in [Steps -> Nat] /\ procs \subseteq [step : Steps, run : Nat]
  BY DEF TypeOK
<1>4. Counted'
  BY <1>1, <1>2, <1>3, ScriptTyped, SMT DEF Control, Counted, NotPoll
<1>5. AtMostOnce'
  <2>1. NotPoll(at) => started[at] = 0
    BY <1>1 DEF Control, Counted
  <2>2. QED
    BY <1>1, <1>2, <1>3, <2>1, SMT DEF Control, AtMostOnce, NotPoll
<1>6. ASSUME NEW p \in procs, NotPoll(p.step)
      PROVE  Caught(Script[p.step]) /\ p.step \in Steps /\ p.step <= at
  BY <1>1, <1>3, <1>6 DEF Control, Attended
<1>7. Attended'
  <2> SUFFICES ASSUME NEW p \in procs'
               PROVE  /\ p.step <= at
                      /\ NotPoll(p.step) /\ ~Caught(Script[p.step]) => p.step = at
    BY <1>1, <1>2 DEF Attended, NotPoll
  <2>1. CASE p = new
    BY <1>1, <2>1, ScriptTyped, SMT
  <2>2. CASE p \in procs
    BY <1>6, <2>2 DEF Control, Attended
  <2>3. QED
    BY <1>2, <2>1, <2>2
<1>8. NothingBeside'
  <2> SUFFICES ASSUME NEW p \in procs', NEW q \in procs',
                      Script[p.step].cmd \in Changing, NotPoll(q.step),
                      ~(Caught(Script[p.step]) /\ Caught(Script[q.step]))
               PROVE  p = q
    BY DEF NothingBeside, NotPoll, Caught, Verifying
  <2>1. CASE p \in procs /\ q \in procs
    BY <1>3, <1>6, <2>1, NotBoth DEF Control, NothingBeside, NotPoll
  <2>2. CASE p \in procs /\ q = new
    <3>1. Caught(Script[p.step]) /\ p.step \in Steps /\ p.step <= at
      BY <1>3, <1>6, <2>2, NotBoth
    <3>2. p.step < at
      BY <1>1, <2>2, <3>1, ScriptTyped, SMT
    <3>3. QED
      BY <1>1, <2>2, <3>1, <3>2, ScriptOrder
  <2>3. CASE p = new /\ q \in procs
    <3>1. Caught(Script[q.step]) /\ q.step \in Steps /\ q.step <= at
      BY <1>6, <2>3
    <3>2. q.step < at
      BY <1>1, <2>3, <3>1, ScriptTyped, SMT
    <3>3. QED
      BY <1>1, <2>3, <3>1, <3>2, ScriptOrder
  <2>4. QED
    BY <1>2, <2>1, <2>2, <2>3
<1>9. QED
  BY <1>4, <1>5, <1>7, <1>8 DEF Control

LEMMA HelperKeeps ==
    ASSUME TypeOK, Position, Control, NEW p \in procs, HelperEnds(p)
    PROVE  Control'
<1>1. at' = at /\ call' = call /\ fatal' = fatal /\ started' = started
      /\ procs' = procs \ {p}
      /\ (reply' # reply => call = "open" /\ p = [step |-> at, run |-> started[at]])
  BY DEF HelperEnds, outcome
<1>2. started \in [Steps -> Nat] /\ procs \subseteq [step : Steps, run : Nat]
      /\ \A q \in procs : q.run \in 1 .. started[q.step]
  BY DEF TypeOK
<1>3. Counted' /\ AtMostOnce' /\ NothingBeside'
  BY <1>1 DEF Control, Counted, AtMostOnce, NothingBeside, NotPoll
<1>4. Attended'
  <2> SUFFICES ASSUME NEW q \in procs, q # p
               PROVE  /\ q.step <= at
                      /\ NotPoll(q.step) /\ ~Caught(Script[q.step]) /\ fatal = "none"
                           => q.step = at /\ call = "open" /\ reply' = "none"
    BY <1>1 DEF Attended, NotPoll
  <2>1. q.step <= at
    BY DEF Control, Attended
  <2>2. ASSUME NotPoll(q.step), ~Caught(Script[q.step]), fatal = "none"
        PROVE  q.step = at /\ call = "open" /\ reply' = "none"
    <3>1. q.step = at /\ call = "open" /\ reply = "none"
      BY <2>2 DEF Control, Attended
    <3>2. CASE reply' = reply
      BY <3>1, <3>2
    <3>3. CASE reply' # reply
      <4>1. p = [step |-> at, run |-> started[at]]
        BY <1>1, <3>3
      <4>2. q = [step |-> at, run |-> q.run] /\ at \in Steps /\ q.run \in Nat
        BY <1>2, <3>1
      <4>3. p.run \in 1 .. started[at] /\ q.run \in 1 .. started[at]
        BY <1>2, <3>1, <4>1
      <4>4. started[at] <= 1 /\ started[at] \in Nat
        BY <1>2, <2>2, <3>1, <4>2 DEF Control, AtMostOnce, NotPoll
      <4>5. q.run = started[at]
        BY <4>2, <4>3, <4>4, SMT
      <4>6. QED
        BY <4>1, <4>2, <4>5
    <3>4. QED
      BY <3>2, <3>3
  <2>3. QED
    BY <2>1, <2>2
<1>5. QED
  BY <1>3, <1>4 DEF Control

SessionInv == TypeOK /\ Position /\ Control

(* The inductive invariant: on top of the types, which steps were started,   *)
(* and that only a session that waits for it leaves a changing helper run.   *)
THEOREM SessionInvariant == Spec => []SessionInv
<1>1. Init => SessionInv
  <2> SUFFICES ASSUME Init PROVE SessionInv
    OBVIOUS
  <2>1. Control
    BY DEF Init, Control, Counted, AtMostOnce, Attended, NothingBeside
  <2>2. QED
    BY <2>1, TypeInit DEF SessionInv
<1>2. SessionInv /\ [Next]_vars => SessionInv'
  BY TypeNext, Kinds, AdvanceKeeps, OthersKeep, ConnectKeeps, HelperKeeps DEF SessionInv
<1>3. QED
  BY <1>1, <1>2, PTL DEF Spec

(* However often connections are refused, break or time out: no command but  *)
(* the `echo` of wait_ready is started twice.                                *)
THEOREM StartedOnce == Spec => []AtMostOnce
BY SessionInvariant, PTL DEF SessionInv, Control

(* Up to the verification nothing runs beside a command that changes the     *)
(* server, although a broken session leaves its helper running; in the       *)
(* verification `mail-verify` may run beside an abandoned check, and beside  *)
(* nothing that was started before.                                          *)
THEOREM ChangesAlone == Spec => []NothingBeside
BY SessionInvariant, PTL DEF SessionInv, Control

-----------------------------------------------------------------------------
(* Where in the script a command stands.                                   *)

(* A concatenation has the steps of its first part, then those of its second. *)
LEMMA ConcatSplit ==
    ASSUME NEW A, NEW B, NEW s \in Seq(A), NEW t \in Seq(B)
    PROVE  /\ Len(s \o t) = Len(s) + Len(t) /\ Len(s) \in Nat /\ Len(t) \in Nat
           /\ DOMAIN (s \o t) = 1 .. Len(s) + Len(t)
           /\ \A i \in 1 .. Len(s) : (s \o t)[i] = s[i] /\ s[i] \in A
           /\ \A i \in 1 .. Len(t) : (s \o t)[Len(s) + i] = t[i] /\ t[i] \in B
           /\ \A i \in DOMAIN (s \o t) : i > Len(s) => i - Len(s) \in 1 .. Len(t)
<1>1. s \in Seq(A \cup B) /\ t \in Seq(A \cup B)
  BY SeqMonotonic
<1>2. Len(s) \in Nat /\ Len(t) \in Nat /\ DOMAIN s = 1 .. Len(s) /\ DOMAIN t = 1 .. Len(t)
  BY LenProperties
<1>3. /\ s \o t \in Seq(A \cup B)
      /\ Len(s \o t) = Len(s) + Len(t)
      /\ \A i \in 1 .. Len(s) + Len(t) :
            (s \o t)[i] = IF i <= Len(s) THEN s[i] ELSE t[i - Len(s)]
  BY <1>1, ConcatProperties
<1>4. DOMAIN (s \o t) = 1 .. Len(s) + Len(t)
  BY <1>3, LenProperties
<1>5. ASSUME NEW i \in 1 .. Len(s) PROVE (s \o t)[i] = s[i] /\ s[i] \in A
  BY <1>2, <1>3, ElementOfSeq, SMT
<1>6. ASSUME NEW i \in 1 .. Len(t) PROVE (s \o t)[Len(s) + i] = t[i] /\ t[i] \in B
  <2>1. Len(s) + i \in 1 .. Len(s) + Len(t) /\ ~(Len(s) + i <= Len(s))
        /\ Len(s) + i - Len(s) = i
    BY <1>2, SMT
  <2>2. t[i] \in B
    BY <1>2, ElementOfSeq
  <2>3. QED
    BY <1>3, <2>1, <2>2
<1>7. ASSUME NEW i \in DOMAIN (s \o t), i > Len(s) PROVE i - Len(s) \in 1 .. Len(t)
  BY <1>2, <1>4, <1>7, SMT
<1>8. QED
  BY <1>2, <1>3, <1>4, <1>5, <1>6, <1>7

(* One command for each component, in the order of the components. *)
LEMMA EachOne ==
    ASSUME NEW cmd, NEW D, NEW comps \in Seq(D)
    PROVE  /\ Each(<<cmd>>, comps) \in Seq([cmd : {cmd}, of : D])
           /\ Len(Each(<<cmd>>, comps)) = Len(comps)
           /\ \A i \in 1 .. Len(comps) :
                 Each(<<cmd>>, comps)[i] = [cmd |-> cmd, of |-> comps[i]]
<1> DEFINE n == Len(comps)
           f == [i \in 1 .. n |-> [cmd |-> cmd, of |-> comps[i]]]
<1>1. n \in Nat /\ \A i \in 1 .. n : comps[i] \in D
  BY LenProperties, ElementOfSeq
<1>2. Len(<<cmd>>) = 1 /\ <<cmd>>[1] = cmd
  OBVIOUS
<1>3. \A i \in 1 .. n : (i - 1) % 1 = 0 /\ (i - 1) \div 1 = i - 1 /\ (i - 1) + 1 = i
  BY <1>1, SMT
<1>4. 1 * n = n /\ 0 + 1 = 1
  BY <1>1, SMT
<1>5. Each(<<cmd>>, comps) = f
  BY <1>2, <1>3, <1>4 DEF Each
<1>6. f \in Seq([cmd : {cmd}, of : D]) /\ Len(f) = n
  BY <1>1
<1>7. QED
  BY <1>5, <1>6

BootstrapCmds ==
    {"wait-ready", "deploy", "wait-cloud-init", "mount-volume", "install-yunohost",
     "deploy-credentials", "install-borg-client", "borg-test"}

PrepareCmds == {"postinstall", "reopen-port", "add-domain"}

BootStep == [cmd : BootstrapCmds, of : {"host"}]
PrepareStep == [cmd : PrepareCmds, of : AppSet \cup {"host"}]
CoreStep == [cmd : {"restore-core"}, of : AppSet]
UseStep == [cmd : {"install-borg-app"}, of : {"host"}] \cup CoreStep
SampleStep == [cmd : {"extract-payload", "describe"}, of : Parts]

(* The samples of every component are extracted and then described. *)
LEMMA SamplesPlaced ==
    /\ Samples \in Seq(SampleStep)
    /\ \A k \in 1 .. Len(Apps \o DataParts), c \in {"extract-payload", "describe"} :
          \E i \in 1 .. Len(Samples) : Samples[i] = [cmd |-> c, of |-> (Apps \o DataParts)[k]]
<1> DEFINE comps == Apps \o DataParts
           n == Len(comps)
           cmds == <<"extract-payload", "describe">>
           f == [i \in 1 .. 2 * n |->
                    [cmd |-> cmds[((i - 1) % 2) + 1], of |-> comps[((i - 1) \div 2) + 1]]]
<1>1. comps \in Seq(Parts)
  BY PlanTyped
<1>2. Len(cmds) = 2 /\ cmds[1] = "extract-payload" /\ cmds[2] = "describe"
  OBVIOUS
<1>3. Samples = f
  BY <1>2 DEF Samples, Each
<1> HIDE DEF cmds, comps
<1>4. n \in Nat /\ \A i \in 1 .. n : comps[i] \in Parts
  BY <1>1, LenProperties, ElementOfSeq
<1>5. ASSUME NEW i \in 1 .. 2 * n
      PROVE  [cmd |-> cmds[((i - 1) % 2) + 1], of |-> comps[((i - 1) \div 2) + 1]]
                \in SampleStep
  <2>1. ((i - 1) % 2) + 1 \in {1, 2} /\ ((i - 1) \div 2) + 1 \in 1 .. n
    BY <1>4, SMT
  <2>2. QED
    BY <1>2, <1>4, <2>1 DEF SampleStep
<1>6. f \in Seq(SampleStep) /\ Len(f) = 2 * n
  BY <1>4, <1>5
<1>7. ASSUME NEW k \in 1 .. n, NEW c \in {"extract-payload", "describe"}
      PROVE  \E i \in 1 .. 2 * n : f[i] = [cmd |-> c, of |-> comps[k]]
  <2>1. CASE c = "extract-payload"
    <3>1. /\ 2 * k - 1 \in 1 .. 2 * n /\ ((2 * k - 1 - 1) % 2) + 1 = 1
          /\ ((2 * k - 1 - 1) \div 2) + 1 = k
      BY <1>4, SMT
    <3>2. f[2 * k - 1] = [cmd |-> c, of |-> comps[k]]
      BY <1>2, <2>1, <3>1
    <3>3. QED
      BY <3>1, <3>2
  <2>2. CASE c = "describe"
    <3>1. 2 * k \in 1 .. 2 * n /\ ((2 * k - 1) % 2) + 1 = 2 /\ ((2 * k - 1) \div 2) + 1 = k
      BY <1>4, SMT
    <3>2. f[2 * k] = [cmd |-> c, of |-> comps[k]]
      BY <1>2, <2>2, <3>1
    <3>3. QED
      BY <3>1, <3>2
  <2>3. QED
    BY <2>1, <2>2
<1> HIDE DEF f, n
<1>8. \A k \in 1 .. n, c \in {"extract-payload", "describe"} :
         \E i \in 1 .. Len(Samples) : Samples[i] = [cmd |-> c, of |-> comps[k]]
  BY <1>3, <1>6, <1>7
<1>9. QED
  BY <1>3, <1>6, <1>8 DEF comps, n

(* Commands for the server as a whole, whatever they are. *)
LEMMA OnceSeq ==
    ASSUME NEW C, NEW cmds \in Seq(C)
    PROVE  Once(cmds) \in Seq([cmd : C, of : {"host"}])
<1>1. <<"host">> \in Seq({"host"}) /\ DOMAIN <<"host">> = {1} /\ <<"host">>[1] = "host"
  BY SMT
<1>2. \A c \in DOMAIN cmds : cmds[c] \in C
  BY ElementOfSeq, LenProperties
<1>3. \A c \in DOMAIN cmds, i \in DOMAIN <<"host">> :
         [cmd |-> cmds[c], of |-> <<"host">>[i]] \in [cmd : C, of : {"host"}]
  BY <1>1, <1>2
<1>4. QED
  BY <1>1, <1>3, EachType DEF Once

(* The stages as sequences of their steps. *)
LEMMA StagesTyped ==
    /\ Bootstrap \in Seq(BootStep)
    /\ ~SystemParts => System \in Seq(PrepareStep)
    /\ Restores \in Seq(UseStep)
    /\ Samples \in Seq(SampleStep)
<1>1. Bootstrap \in Seq(BootStep)
  <2>1. /\ <<"wait-ready", "deploy", "wait-cloud-init">> \in Seq(BootstrapCmds)
        /\ <<"mount-volume">> \in Seq(BootstrapCmds) /\ <<>> \in Seq(BootstrapCmds)
        /\ <<"install-yunohost", "deploy-credentials", "install-borg-client",
             "borg-test">> \in Seq(BootstrapCmds)
    BY SMT DEF BootstrapCmds
  <2>2. /\ Once(<<"wait-ready", "deploy", "wait-cloud-init">>) \in Seq(BootStep)
        /\ Once(IF WithVolume THEN <<"mount-volume">> ELSE <<>>) \in Seq(BootStep)
        /\ Once(<<"install-yunohost", "deploy-credentials", "install-borg-client",
                  "borg-test">>) \in Seq(BootStep)
    BY <2>1, OnceSeq DEF BootStep
  <2>3. QED
    BY <2>2, ConcatProperties DEF Bootstrap
<1>2. ASSUME ~SystemParts PROVE System \in Seq(PrepareStep)
  <2>1. Once(<<"postinstall", "reopen-port">>) \in Seq(PrepareStep)
    <3>1. <<"postinstall", "reopen-port">> \in Seq(PrepareCmds)
      BY SMT DEF PrepareCmds
    <3>2. Once(<<"postinstall", "reopen-port">>) \in Seq([cmd : PrepareCmds, of : {"host"}])
      BY <3>1, OnceSeq
    <3>3. [cmd : PrepareCmds, of : {"host"}] \subseteq PrepareStep
      BY DEF PrepareStep
    <3>4. QED
      BY <3>2, <3>3, SeqMonotonic
  <2>2. Each(<<"add-domain">>, AddedDomains) \in Seq(PrepareStep)
    <3>1. AddedDomains \in Seq(AppSet)
      <4>1. Apps # <<>> => Tail(Apps) \in Seq(AppSet)
        BY PlanTyped, HeadTailProperties
      <4>2. QED
        BY <4>1, PlanTyped DEF AddedDomains
    <3>2. Each(<<"add-domain">>, AddedDomains) \in Seq([cmd : {"add-domain"}, of : AppSet])
      BY <3>1, EachOne
    <3>3. [cmd : {"add-domain"}, of : AppSet] \subseteq PrepareStep
      BY DEF PrepareStep, PrepareCmds
    <3>4. QED
      BY <3>2, <3>3, SeqMonotonic
  <2>3. QED
    BY <1>2, <2>1, <2>2, ConcatProperties DEF System
<1>3. Restores \in Seq(UseStep)
  <2>1. Once(IF BorgApp THEN <<"install-borg-app">> ELSE <<>>) \in Seq(UseStep)
    <3>1. <<"install-borg-app">> \in Seq({"install-borg-app"}) /\ <<>> \in Seq({"install-borg-app"})
      BY SMT
    <3>2. Once(IF BorgApp THEN <<"install-borg-app">> ELSE <<>>)
            \in Seq([cmd : {"install-borg-app"}, of : {"host"}])
      BY <3>1, OnceSeq
    <3>3. QED
      BY <3>2, SeqMonotonic DEF UseStep
  <2>2. Each(<<"restore-core">>, Apps) \in Seq(UseStep)
    <3>1. Each(<<"restore-core">>, Apps) \in Seq(CoreStep)
      BY EachOne, PlanTyped DEF CoreStep
    <3>2. QED
      BY <3>1, SeqMonotonic DEF UseStep
  <2>3. QED
    BY <2>1, <2>2, ConcatProperties DEF Restores
<1>4. Samples \in Seq(SampleStep)
  BY SamplesPlaced
<1>5. QED
  BY <1>1, <1>2, <1>3, <1>4

(* One command for one component. *)
LEMMA EachSingle ==
    ASSUME NEW cmd, NEW x
    PROVE  /\ Each(<<cmd>>, <<x>>) \in Seq([cmd : {cmd}, of : {x}])
           /\ Len(Each(<<cmd>>, <<x>>)) = 1
           /\ Each(<<cmd>>, <<x>>)[1] = [cmd |-> cmd, of |-> x]
<1>1. <<x>> \in Seq({x}) /\ Len(<<x>>) = 1 /\ <<x>>[1] = x
  BY SMT
<1> DEFINE comps == <<x>>
<1> HIDE DEF comps
<1>2. comps \in Seq({x}) /\ Len(comps) = 1 /\ comps[1] = x
  BY <1>1 DEF comps
<1>3. /\ Each(<<cmd>>, comps) \in Seq([cmd : {cmd}, of : {x}])
      /\ Len(Each(<<cmd>>, comps)) = 1
      /\ Each(<<cmd>>, comps)[1] = [cmd |-> cmd, of |-> x]
  <2>1. /\ Each(<<cmd>>, comps) \in Seq([cmd : {cmd}, of : {x}])
        /\ Len(Each(<<cmd>>, comps)) = Len(comps)
        /\ \A i \in 1 .. Len(comps) :
              Each(<<cmd>>, comps)[i] = [cmd |-> cmd, of |-> comps[i]]
    BY <1>2, EachOne
  <2>2. 1 \in 1 .. Len(comps)
    BY <1>2
  <2>3. QED
    BY <1>2, <2>1, <2>2
<1>4. QED
  BY <1>3 DEF comps

(* With system configuration, its stage is a quarantine, the restore and the *)
(* listing of the domains.                                                   *)
LEMMA SystemStage ==
    ASSUME SystemParts
    PROVE  /\ System \in Seq([cmd : {"quarantine", "restore-core", "domains"},
                              of : {"host", "system"}])
           /\ Len(System) = 3
           /\ System[1] = [cmd |-> "quarantine", of |-> "host"]
           /\ System[2] = [cmd |-> "restore-core", of |-> "system"]
           /\ System[3] = [cmd |-> "domains", of |-> "host"]
<1> DEFINE q == IsolateFirst
           r == Each(<<"restore-core">>, <<"system">>)
           d == Once(<<"domains">>)
           A == [cmd : {"quarantine", "restore-core", "domains"}, of : {"host", "system"}]
<1>2. /\ q \in Seq([cmd : {"quarantine"}, of : {"host"}]) /\ Len(q) = 1
      /\ q[1] = [cmd |-> "quarantine", of |-> "host"]
  BY EachSingle DEF IsolateFirst, Once
<1>3. /\ r \in Seq([cmd : {"restore-core"}, of : {"system"}]) /\ Len(r) = 1
      /\ r[1] = [cmd |-> "restore-core", of |-> "system"]
  BY EachSingle
<1>4. /\ d \in Seq([cmd : {"domains"}, of : {"host"}]) /\ Len(d) = 1
      /\ d[1] = [cmd |-> "domains", of |-> "host"]
  BY EachSingle DEF Once
<1>5. q \in Seq(A) /\ r \in Seq(A) /\ d \in Seq(A)
  <2>1. /\ [cmd : {"quarantine"}, of : {"host"}] \subseteq A
        /\ [cmd : {"restore-core"}, of : {"system"}] \subseteq A
        /\ [cmd : {"domains"}, of : {"host"}] \subseteq A
    OBVIOUS
  <2> HIDE DEF q, r, d, A
  <2>2. QED
    BY <1>2, <1>3, <1>4, <2>1, SeqMonotonic
<1>6. System = (q \o r) \o d
  BY DEF System
<1> HIDE DEF q, r, d, A
<1>7. /\ q \o r \in Seq(A) /\ Len(q \o r) = 2
      /\ (q \o r)[1] = q[1] /\ (q \o r)[2] = r[1]
  <2>1. Len(q \o r) = Len(q) + Len(r) /\ q \o r \in Seq(A)
    BY <1>5, ConcatProperties
  <2>2. /\ \A i \in 1 .. Len(q) : (q \o r)[i] = q[i]
        /\ \A i \in 1 .. Len(r) : (q \o r)[Len(q) + i] = r[i]
    BY <1>5, ConcatSplit
  <2>3. QED
    BY <1>2, <1>3, <2>1, <2>2
<1>8. /\ (q \o r) \o d \in Seq(A) /\ Len((q \o r) \o d) = 3
      /\ ((q \o r) \o d)[1] = q[1] /\ ((q \o r) \o d)[2] = r[1]
      /\ ((q \o r) \o d)[3] = d[1]
  <2>1. Len((q \o r) \o d) = Len(q \o r) + Len(d) /\ (q \o r) \o d \in Seq(A)
    BY <1>5, <1>7, ConcatProperties
  <2>2. /\ \A i \in 1 .. Len(q \o r) : ((q \o r) \o d)[i] = (q \o r)[i]
        /\ \A i \in 1 .. Len(d) : ((q \o r) \o d)[Len(q \o r) + i] = d[i]
    BY <1>5, <1>7, ConcatSplit, SMTT(20)
  <2>3. QED
    BY <1>4, <1>7, <2>1, <2>2
<1>9. QED
  BY <1>2, <1>3, <1>4, <1>6, <1>8 DEF A

(* The steps before the last quarantine are those of the bootstrap and of   *)
(* the system stage; those after it restore, sample and verify.             *)
LEMMA ScriptPlaces ==
    /\ Len(Bootstrap) \in Nat /\ Len(System) \in Nat
    /\ Len(Prepared) = Len(Bootstrap) + Len(System) + 1
    /\ Len(Prepared) \in Steps /\ Script[Len(Prepared)].cmd = "quarantine"
    /\ \A i \in Steps : i <= Len(Bootstrap) => Script[i] \in BootStep
    /\ \A i \in 1 .. Len(System) : /\ Len(Bootstrap) + i \in Steps
                                   /\ Script[Len(Bootstrap) + i] = System[i]
    /\ \A i \in Steps : i > Len(Prepared) => Script[i] \in UseStep \cup SampleStep \cup VerifyStep
<1> DEFINE b == Len(Bootstrap)
           m == Len(System)
           T == [cmd : {"quarantine", "restore-core", "domains"}, of : {"host", "system"}]
                  \cup PrepareStep
           Q == [cmd : {"quarantine"}, of : {"host"}]
<1>1. Bootstrap \in Seq(BootStep) /\ System \in Seq(T)
  <2>1. CASE SystemParts
    BY <2>1, StagesTyped, SystemStage, SeqMonotonic
  <2>2. CASE ~SystemParts
    BY <2>2, StagesTyped, SeqMonotonic
  <2>3. QED
    BY <2>1, <2>2
<1>2. /\ IsolateAgain \in Seq(Q) /\ Len(IsolateAgain) = 1
      /\ IsolateAgain[1] = [cmd |-> "quarantine", of |-> "host"]
  BY EachSingle DEF IsolateAgain, Once, Q
<1>3. /\ Restores \in Seq(UseStep) /\ Samples \in Seq(SampleStep) /\ Verify \in Seq(VerifyStep)
  BY StagesTyped, VerifyTyped
<1> HIDE DEF T, Q
<1> DEFINE AB == Bootstrap \o System
<1>4. /\ AB \in Seq(BootStep \cup T) /\ Len(AB) = b + m /\ b \in Nat /\ m \in Nat
      /\ \A i \in 1 .. b : AB[i] = Bootstrap[i] /\ AB[i] \in BootStep
      /\ \A i \in 1 .. m : AB[b + i] = System[i]
  BY <1>1, ConcatSplit, ConcatProperties, SeqMonotonic
<1> HIDE DEF AB
<1>5. Prepared = AB \o IsolateAgain
  BY DEF Prepared, AB
<1>6. /\ Prepared \in Seq(BootStep \cup T \cup Q) /\ Len(Prepared) = b + m + 1
      /\ \A i \in 1 .. b + m : Prepared[i] = AB[i]
      /\ Prepared[b + m + 1].cmd = "quarantine"
  <2>1. AB \in Seq(BootStep \cup T \cup Q) /\ IsolateAgain \in Seq(BootStep \cup T \cup Q)
    BY <1>2, <1>4, SeqMonotonic
  <2>2. /\ Prepared \in Seq(BootStep \cup T \cup Q) /\ Len(Prepared) = b + m + 1
        /\ \A i \in 1 .. b + m : Prepared[i] = AB[i]
        /\ Prepared[b + m + 1] = IsolateAgain[1]
    <3>1. /\ Prepared \in Seq(BootStep \cup T \cup Q)
          /\ Len(Prepared) = Len(AB) + Len(IsolateAgain)
      BY <1>5, <2>1, ConcatProperties
    <3>2. /\ \A i \in 1 .. Len(AB) : Prepared[i] = AB[i]
          /\ \A i \in 1 .. Len(IsolateAgain) : Prepared[Len(AB) + i] = IsolateAgain[i]
      BY <1>5, <2>1, ConcatSplit
    <3>3. 1 \in 1 .. Len(IsolateAgain) /\ Len(AB) + 1 = b + m + 1
      BY <1>2, <1>4
    <3>4. QED
      BY <1>2, <1>4, <3>1, <3>2, <3>3
  <2>3. QED
    BY <1>2, <2>2
<1> DEFINE R == UseStep \cup SampleStep \cup VerifyStep
           checked == Samples \o Verify
           tail == Restores \o checked
<1>7. tail \in Seq(R) /\ Script = Prepared \o tail
  <2> DEFINE restored == Prepared \o Restores
             U == BootStep \cup T \cup Q \cup R
  <2>1. /\ Prepared \in Seq(U) /\ Restores \in Seq(U) /\ Samples \in Seq(U)
        /\ Verify \in Seq(U)
    <3>1. Prepared \in Seq(U)
      BY <1>6, SeqMonotonic
    <3>2. Restores \in Seq(U)
      BY <1>3, SeqMonotonic
    <3>3. Samples \in Seq(U)
      BY <1>3, SeqMonotonic
    <3>4. Verify \in Seq(U)
      BY <1>3, SeqMonotonic
    <3>5. QED
      BY <3>1, <3>2, <3>3, <3>4
  <2>2. Restores \in Seq(R) /\ Samples \in Seq(R) /\ Verify \in Seq(R)
    BY <1>3, SeqMonotonic
  <2>3. checked \in Seq(R) /\ checked \in Seq(U)
    BY <2>1, <2>2, ConcatProperties
  <2>4. restored \in Seq(U)
    BY <2>1, ConcatProperties
  <2>5. Script = (restored \o Samples) \o Verify
    BY DEF Script
  <2> HIDE DEF U, R
  <2>6. restored \o checked = Prepared \o tail
    <3> HIDE DEF checked
    <3>1. Prepared \in Seq(U) /\ Restores \in Seq(U) /\ checked \in Seq(U)
      BY <2>1, <2>3
    <3>2. (Prepared \o Restores) \o checked = Prepared \o (Restores \o checked)
      BY <3>1, ConcatAssociative, SMTT(20)
    <3>3. QED
      BY <3>2
  <2>7. tail \in Seq(R)
    <3> HIDE DEF checked
    <3>1. QED
      BY <2>2, <2>3, ConcatProperties
  <2> HIDE DEF restored
  <2>8. (restored \o Samples) \o Verify = restored \o checked
    <3>1. restored \in Seq(U) /\ Samples \in Seq(U) /\ Verify \in Seq(U)
      BY <2>1, <2>4
    <3>2. QED
      BY <3>1, ConcatAssociative
  <2>9. QED
    BY <2>5, <2>6, <2>7, <2>8, Zenon
<1> HIDE DEF R, checked, tail
<1>8. /\ Steps = 1 .. Len(Prepared) + Len(tail) /\ Len(tail) \in Nat
      /\ \A i \in 1 .. Len(Prepared) : Script[i] = Prepared[i]
      /\ \A i \in Steps : i > Len(Prepared) => Script[i] \in R
  <2>1. /\ DOMAIN Script = 1 .. Len(Prepared) + Len(tail) /\ Len(tail) \in Nat
        /\ \A i \in 1 .. Len(Prepared) : Script[i] = Prepared[i]
        /\ \A i \in 1 .. Len(tail) : Script[Len(Prepared) + i] = tail[i] /\ tail[i] \in R
        /\ \A i \in DOMAIN Script : i > Len(Prepared) => i - Len(Prepared) \in 1 .. Len(tail)
    <3> DEFINE V == BootStep \cup T \cup Q
    <3>1. Prepared \in Seq(V)
      BY <1>6
    <3> HIDE DEF V
    <3>2. QED
      BY <1>7, <3>1, ConcatSplit
  <2>2. ASSUME NEW i \in DOMAIN Script, i > Len(Prepared) PROVE Script[i] \in R
    <3>1. Len(Prepared) + (i - Len(Prepared)) = i
      BY <1>4, <1>6, <2>1, SMT
    <3>2. QED
      BY <2>1, <2>2, <3>1
  <2>3. QED
    BY <2>1, <2>2 DEF Steps
<1>9. Len(Prepared) \in Steps /\ Script[Len(Prepared)].cmd = "quarantine"
  BY <1>4, <1>6, <1>8, SMT
<1>10. ASSUME NEW i \in Steps, i <= b PROVE Script[i] \in BootStep
  <2>1. i \in 1 .. b /\ i \in 1 .. b + m /\ i \in 1 .. Len(Prepared)
    BY <1>4, <1>6, <1>8, <1>10, SMT
  <2>2. QED
    BY <1>4, <1>6, <1>8, <2>1
<1>11. ASSUME NEW i \in 1 .. m PROVE b + i \in Steps /\ Script[b + i] = System[i]
  <2>1. b + i \in Steps /\ b + i \in 1 .. b + m /\ b + i \in 1 .. Len(Prepared)
    BY <1>4, <1>6, <1>8, SMT
  <2>2. QED
    BY <1>4, <1>6, <1>8, <2>1
<1>12. QED
  BY <1>4, <1>6, <1>8, <1>9, <1>10, <1>11 DEF R

(* What kind of step stands where: before the last quarantine no application *)
(* is restored, after it nothing but applications and their samples change.  *)
LEMMA StepPlace ==
    ASSUME NEW i \in Steps
    PROVE  \/ i <= Len(Bootstrap) /\ Script[i] \in BootStep
           \/ /\ i > Len(Bootstrap) /\ i < Len(Prepared)
              /\ i - Len(Bootstrap) \in 1 .. Len(System)
              /\ Script[i] = System[i - Len(Bootstrap)]
           \/ i = Len(Prepared) /\ Script[i].cmd = "quarantine"
           \/ i > Len(Prepared) /\ Script[i] \in UseStep \cup SampleStep \cup VerifyStep
<1>1. i \in Nat
  BY ScriptTyped
<1>2. CASE i > Len(Bootstrap) /\ i < Len(Prepared)
  <2>1. i - Len(Bootstrap) \in 1 .. Len(System) /\ Len(Bootstrap) + (i - Len(Bootstrap)) = i
    BY <1>1, <1>2, ScriptPlaces, SMT
  <2>2. QED
    BY <1>2, <2>1, ScriptPlaces
<1>3. CASE ~(i > Len(Bootstrap) /\ i < Len(Prepared))
  <2>1. i <= Len(Bootstrap) \/ i = Len(Prepared) \/ i > Len(Prepared)
    BY <1>1, <1>3, ScriptPlaces, SMT
  <2>2. QED
    BY <2>1, ScriptPlaces
<1>4. QED
  BY <1>2, <1>3

(* The steps of the system stage. *)
LEMMA SystemPlace ==
    ASSUME SystemParts
    PROVE  /\ Len(Prepared) = Len(Bootstrap) + 4
           /\ Len(Bootstrap) + 1 \in Steps /\ Len(Bootstrap) + 2 \in Steps
           /\ Len(Bootstrap) + 3 \in Steps
           /\ Script[Len(Bootstrap) + 1].cmd = "quarantine"
           /\ Script[Len(Bootstrap) + 2] = [cmd |-> "restore-core", of |-> "system"]
           /\ Script[Len(Bootstrap) + 3].cmd = "domains"
<1>1. /\ Len(System) = 3
      /\ System[1].cmd = "quarantine"
      /\ System[2] = [cmd |-> "restore-core", of |-> "system"]
      /\ System[3].cmd = "domains"
  BY SystemStage
<1>2. 1 \in 1 .. Len(System) /\ 2 \in 1 .. Len(System) /\ 3 \in 1 .. Len(System)
  BY <1>1
<1>3. Len(Bootstrap) + 3 + 1 = Len(Bootstrap) + 4
  BY ScriptPlaces, SMT
<1>4. Len(Prepared) = Len(Bootstrap) + 4
  BY <1>1, <1>3, ScriptPlaces
<1>5. QED
  BY <1>1, <1>2, <1>4, ScriptPlaces

(* The system configuration is restored in its stage and after a quarantine. *)
LEMMA SystemAfterQuarantine ==
    ASSUME NEW j \in Steps, Script[j].cmd = "restore-core", Script[j].of = "system"
    PROVE  /\ SystemParts /\ j < Len(Prepared)
           /\ \E i \in Steps : i < j /\ Script[i].cmd = "quarantine"
<1>1. "system" \notin AppSet
  BY PlanAssumption DEF Parts
<1>2. j \in Nat /\ Len(Bootstrap) \in Nat
  BY ScriptTyped, ScriptPlaces
<1>3. Script[j] \notin BootStep \cup PrepareStep \cup UseStep \cup SampleStep \cup VerifyStep
  BY <1>1 DEF BootStep, BootstrapCmds, PrepareStep, PrepareCmds, UseStep, CoreStep,
              SampleStep, VerifyStep
<1>4. /\ j > Len(Bootstrap) /\ j < Len(Prepared)
      /\ j - Len(Bootstrap) \in 1 .. Len(System)
      /\ Script[j] = System[j - Len(Bootstrap)]
  BY <1>3, StepPlace
<1>5. SystemParts
  <2>1. SUFFICES ASSUME ~SystemParts PROVE FALSE
    OBVIOUS
  <2>2. System[j - Len(Bootstrap)] \in PrepareStep
    BY <1>4, <2>1, StagesTyped, ElementOfSeq
  <2>3. QED
    BY <1>3, <1>4, <2>2
<1>6. Len(Bootstrap) + 1 # j
  BY <1>5, SystemPlace
<1>7. Len(Bootstrap) + 1 < j
  BY <1>2, <1>4, <1>6, SMT
<1>8. QED
  BY <1>4, <1>5, <1>7, SystemPlace

(* After the domains were listed no command adds one. *)
AddsDomains(s) ==
    \/ s.cmd \in {"postinstall", "add-domain"}
    \/ s.cmd = "restore-core" /\ s.of = "system"

LEMMA DomainsListedLast ==
    ASSUME NEW i \in Steps, NEW j \in Steps, Script[i].cmd = "domains", i <= j
    PROVE  ~AddsDomains(Script[j])
<1>1. "system" \notin AppSet
  BY PlanAssumption DEF Parts
<1>2. i \in Nat /\ j \in Nat /\ Len(Bootstrap) \in Nat /\ Len(System) \in Nat
      /\ Len(Prepared) = Len(Bootstrap) + Len(System) + 1
  BY ScriptTyped, ScriptPlaces
<1>3. Script[i] \notin BootStep \cup PrepareStep \cup UseStep \cup SampleStep \cup VerifyStep
  BY <1>1 DEF BootStep, BootstrapCmds, PrepareStep, PrepareCmds, UseStep, CoreStep,
              SampleStep, VerifyStep
<1>4. /\ i > Len(Bootstrap) /\ i < Len(Prepared)
      /\ i - Len(Bootstrap) \in 1 .. Len(System)
      /\ Script[i] = System[i - Len(Bootstrap)]
  BY <1>3, StepPlace
<1>5. SystemParts
  <2>1. SUFFICES ASSUME ~SystemParts PROVE FALSE
    OBVIOUS
  <2>2. System[i - Len(Bootstrap)] \in PrepareStep
    BY <1>4, <2>1, StagesTyped, ElementOfSeq
  <2>3. QED
    BY <1>3, <1>4, <2>2
<1>6. i = Len(Bootstrap) + 3
  <2>1. i # Len(Bootstrap) + 1 /\ i # Len(Bootstrap) + 2
    BY <1>5, SystemPlace
  <2>2. Len(System) = 3
    BY <1>5, SystemStage
  <2>3. QED
    BY <1>2, <1>4, <2>1, <2>2, SMT
<1>7. j = i \/ j = Len(Prepared) \/ j > Len(Prepared)
  BY <1>2, <1>5, <1>6, SystemPlace, SMT
<1>8. CASE j > Len(Prepared)
  <2>1. Script[j] \in UseStep \cup SampleStep \cup VerifyStep
    BY <1>8, ScriptPlaces
  <2>2. QED
    BY <1>1, <2>1 DEF AddsDomains, UseStep, CoreStep, SampleStep, VerifyStep
<1>9. QED
  BY <1>7, <1>8, ScriptPlaces DEF AddsDomains

(* After the last quarantine no command touches what it isolated. *)
LEMMA UseOnly ==
    ASSUME NEW j \in Steps, j > Len(Prepared)
    PROVE  /\ ~AddsDomains(Script[j])
           /\ Script[j].cmd \notin {"quarantine", "domains", "install-yunohost"}
<1>1. "system" \notin AppSet
  BY PlanAssumption DEF Parts
<1>2. Script[j] \in UseStep \cup SampleStep \cup VerifyStep
  BY ScriptPlaces
<1>3. QED
  BY <1>1, <1>2 DEF AddsDomains, UseStep, CoreStep, SampleStep, VerifyStep

PreparedStep ==
    BootStep \cup PrepareStep
      \cup [cmd : {"quarantine", "restore-core", "domains"}, of : {"host", "system"}]

LEMMA PreparedTyped == Prepared \in Seq(PreparedStep)
<1>1. BootStep \subseteq PreparedStep /\ PrepareStep \subseteq PreparedStep
  BY DEF PreparedStep
<1>2. /\ [cmd : {"quarantine", "restore-core", "domains"}, of : {"host", "system"}]
            \subseteq PreparedStep
      /\ [cmd : {"quarantine"}, of : {"host"}] \subseteq PreparedStep
  BY DEF PreparedStep
<1>3. Bootstrap \in Seq(PreparedStep)
  BY <1>1, StagesTyped, SeqMonotonic
<1>4. System \in Seq(PreparedStep)
  <2>1. CASE SystemParts
    BY <1>2, <2>1, SystemStage, SeqMonotonic
  <2>2. CASE ~SystemParts
    BY <1>1, <2>2, StagesTyped, SeqMonotonic
  <2>3. QED
    BY <2>1, <2>2
<1>5. IsolateAgain \in Seq(PreparedStep)
  <2>1. IsolateAgain \in Seq([cmd : {"quarantine"}, of : {"host"}])
    BY EachSingle DEF IsolateAgain, Once
  <2>2. QED
    BY <1>2, <2>1, SeqMonotonic
<1>6. QED
  BY <1>3, <1>4, <1>5, ConcatProperties DEF Prepared

(* Every application is restored, and before its samples are laid into it;   *)
(* the data of every component is extracted and described.                   *)
LEMMA RestoredBeforeSampled ==
    /\ \A a \in AppSet : \E i \in Steps : Script[i] = [cmd |-> "restore-core", of |-> a]
    /\ \A j \in Steps : Script[j].cmd = "extract-payload" /\ Script[j].of \in AppSet =>
          \E i \in Steps : i < j /\ Script[i] = [cmd |-> "restore-core", of |-> Script[j].of]
    /\ \A c \in Parts, cmd \in {"extract-payload", "describe"} :
          \E i \in Steps : Script[i] = [cmd |-> cmd, of |-> c]
<1> DEFINE borg == Once(IF BorgApp THEN <<"install-borg-app">> ELSE <<>>)
           cores == Each(<<"restore-core">>, Apps)
           H == Prepared \o Restores
           F == H \o Samples
           h == Len(H)
<1>1. borg \in Seq(UseStep) /\ cores \in Seq(UseStep) /\ Len(cores) = Len(Apps)
      /\ \A k \in 1 .. Len(Apps) : cores[k] = [cmd |-> "restore-core", of |-> Apps[k]]
  <2>1. <<"install-borg-app">> \in Seq({"install-borg-app"}) /\ <<>> \in Seq({"install-borg-app"})
    BY SMT
  <2>2. borg \in Seq([cmd : {"install-borg-app"}, of : {"host"}])
    BY <2>1, OnceSeq
  <2>3. cores \in Seq(CoreStep) /\ Len(cores) = Len(Apps)
        /\ \A k \in 1 .. Len(Apps) : cores[k] = [cmd |-> "restore-core", of |-> Apps[k]]
    BY EachOne, PlanTyped DEF CoreStep
  <2>4. QED
    BY <2>2, <2>3, SeqMonotonic DEF UseStep
<1>2. /\ Samples \in Seq(SampleStep) /\ Restores \in Seq(UseStep)
      /\ \A k \in 1 .. Len(Apps \o DataParts), c \in {"extract-payload", "describe"} :
            \E i \in 1 .. Len(Samples) :
               Samples[i] = [cmd |-> c, of |-> (Apps \o DataParts)[k]]
  BY SamplesPlaced, StagesTyped
<1> HIDE DEF borg, cores
<1>3. Restores = borg \o cores
  BY DEF Restores, borg, cores
<1> DEFINE U == PreparedStep \cup UseStep
           V == U \cup SampleStep
<1>4. Prepared \in Seq(U) /\ Restores \in Seq(U) /\ H \in Seq(U)
  <2>1. Prepared \in Seq(U) /\ Restores \in Seq(U)
    BY <1>2, PreparedTyped, SeqMonotonic
  <2>2. QED
    BY <2>1, ConcatProperties
<1>5. H \in Seq(V) /\ Samples \in Seq(V) /\ F \in Seq(V)
  <2>1. H \in Seq(V) /\ Samples \in Seq(V)
    BY <1>2, <1>4, SeqMonotonic
  <2>2. QED
    BY <2>1, ConcatProperties
<1>6. \A s \in U : s.cmd \notin {"extract-payload", "describe"}
  BY DEF PreparedStep, BootStep, BootstrapCmds, PrepareStep, PrepareCmds, UseStep, CoreStep
<1>7. Script = F \o Verify
  BY DEF Script
<1> HIDE DEF U, V, H, F, h
<1>8. /\ Len(F) \in Nat /\ Len(Verify) \in Nat /\ Steps = 1 .. Len(F) + Len(Verify)
      /\ \A i \in 1 .. Len(F) : Script[i] = F[i]
      /\ \A i \in Steps : i > Len(F) => Script[i] \in VerifyStep
  <2>1. /\ Len(F) \in Nat /\ Len(Verify) \in Nat
        /\ DOMAIN Script = 1 .. Len(F) + Len(Verify)
        /\ \A i \in 1 .. Len(F) : Script[i] = F[i]
        /\ \A i \in 1 .. Len(Verify) : Script[Len(F) + i] = Verify[i] /\ Verify[i] \in VerifyStep
        /\ \A i \in DOMAIN Script : i > Len(F) => i - Len(F) \in 1 .. Len(Verify)
    BY <1>5, <1>7, VerifyTyped, ConcatSplit
  <2>2. ASSUME NEW i \in DOMAIN Script, i > Len(F) PROVE Script[i] \in VerifyStep
    <3>1. Len(F) + (i - Len(F)) = i
      BY <2>1, SMT
    <3>2. QED
      BY <2>1, <2>2, <3>1
  <2>3. QED
    BY <2>1, <2>2 DEF Steps
<1>9. /\ Len(H) \in Nat /\ Len(Samples) \in Nat /\ Len(F) = Len(H) + Len(Samples)
      /\ \A i \in 1 .. Len(H) : F[i] = H[i] /\ H[i] \in U
      /\ \A i \in 1 .. Len(Samples) : F[Len(H) + i] = Samples[i]
  <2>1. /\ Len(H \o Samples) = Len(H) + Len(Samples) /\ Len(H) \in Nat /\ Len(Samples) \in Nat
        /\ \A i \in 1 .. Len(H) : (H \o Samples)[i] = H[i] /\ H[i] \in U
        /\ \A i \in 1 .. Len(Samples) : (H \o Samples)[Len(H) + i] = Samples[i]
    <3>1. H \in Seq(U) /\ Samples \in Seq(SampleStep)
      BY <1>2, <1>4
    <3>2. QED
      BY <3>1, ConcatSplit
  <2>2. F = H \o Samples
    BY DEF F
  <2>3. QED
    BY <2>1, <2>2, Zenon
<1>10. /\ Len(Prepared) \in Nat /\ Len(Restores) \in Nat
       /\ Len(H) = Len(Prepared) + Len(Restores)
       /\ \A i \in 1 .. Len(Restores) : H[Len(Prepared) + i] = Restores[i]
  <2>1. /\ Len(Prepared \o Restores) = Len(Prepared) + Len(Restores)
        /\ Len(Prepared) \in Nat /\ Len(Restores) \in Nat
        /\ \A i \in 1 .. Len(Restores) :
              (Prepared \o Restores)[Len(Prepared) + i] = Restores[i]
    <3>1. Prepared \in Seq(PreparedStep) /\ Restores \in Seq(UseStep)
      BY <1>2, PreparedTyped
    <3>2. QED
      BY <3>1, ConcatSplit
  <2>2. H = Prepared \o Restores
    BY DEF H
  <2>3. QED
    BY <2>1, <2>2, Zenon
<1>11. /\ Len(borg) \in Nat /\ Len(Apps) \in Nat /\ Len(Restores) = Len(borg) + Len(Apps)
       /\ \A i \in 1 .. Len(Apps) : Restores[Len(borg) + i] = cores[i]
  <2>1. /\ Len(borg) \in Nat /\ Len(cores) \in Nat
        /\ Len(borg \o cores) = Len(borg) + Len(cores)
        /\ \A i \in 1 .. Len(cores) : (borg \o cores)[Len(borg) + i] = cores[i]
    <3>1. borg \in Seq(UseStep) /\ cores \in Seq(UseStep)
      BY <1>1
    <3>2. QED
      BY <3>1, ConcatSplit
  <2>2. QED
    BY <1>1, <1>3, <2>1, PlanTyped, LenProperties, Zenon
<1>12. ASSUME NEW a \in AppSet
       PROVE  \E i \in Steps : i <= Len(H) /\ Script[i] = [cmd |-> "restore-core", of |-> a]
  <2>1. PICK k \in DOMAIN Apps : Apps[k] = a
    BY DEF AppSet
  <2>2. k \in 1 .. Len(Apps)
    BY <2>1, PlanTyped, LenProperties
  <2> DEFINE i == Len(Prepared) + (Len(borg) + k)
  <2>3. Len(borg) + k \in 1 .. Len(Restores)
    BY <1>11, <2>2, SMT
  <2>4. i \in 1 .. Len(H) /\ i \in 1 .. Len(F) /\ i \in Steps
    BY <1>8, <1>9, <1>10, <2>3, SMT
  <2>5. Script[i] = cores[k]
    BY <1>8, <1>9, <1>10, <1>11, <2>2, <2>3, <2>4
  <2>6. i <= Len(H)
    BY <1>9, <2>4
  <2>7. Script[i] = [cmd |-> "restore-core", of |-> a]
    BY <1>1, <2>1, <2>2, <2>5
  <2> HIDE DEF i
  <2>8. QED
    BY <2>4, <2>6, <2>7
<1>13. ASSUME NEW j \in Steps, Script[j].cmd = "extract-payload" PROVE j > Len(H)
  <2>1. SUFFICES ASSUME ~(j > Len(H)) PROVE FALSE
    OBVIOUS
  <2>2. j \in 1 .. Len(H) /\ j \in 1 .. Len(F)
    BY <1>8, <1>9, <2>1, SMT
  <2>3. Script[j] \in U
    BY <1>8, <1>9, <2>2
  <2>4. QED
    BY <1>6, <1>13, <2>3
<1>14. ASSUME NEW j \in Steps, Script[j].cmd = "extract-payload", Script[j].of \in AppSet
       PROVE  \E i \in Steps : i < j /\ Script[i] = [cmd |-> "restore-core", of |-> Script[j].of]
  <2>1. PICK i \in Steps : i <= Len(H) /\ Script[i] = [cmd |-> "restore-core", of |-> Script[j].of]
    BY <1>12, <1>14
  <2>2. i < j
    BY <1>8, <1>9, <1>13, <1>14, <2>1, SMT
  <2>3. QED
    BY <2>1, <2>2
<1>15. ASSUME NEW c \in Parts, NEW cmd \in {"extract-payload", "describe"}
       PROVE  \E i \in Steps : Script[i] = [cmd |-> cmd, of |-> c]
  <2>1. \E k \in 1 .. Len(Apps \o DataParts) : (Apps \o DataParts)[k] = c
    <3>1. /\ Len(Apps \o DataParts) = Len(Apps) + Len(DataParts)
          /\ Len(Apps) \in Nat /\ Len(DataParts) \in Nat
          /\ \A i \in 1 .. Len(Apps) : (Apps \o DataParts)[i] = Apps[i]
          /\ \A i \in 1 .. Len(DataParts) : (Apps \o DataParts)[Len(Apps) + i] = DataParts[i]
      BY PlanTyped, ConcatSplit
    <3>2. DOMAIN Apps = 1 .. Len(Apps) /\ DOMAIN DataParts = 1 .. Len(DataParts)
      BY PlanTyped, LenProperties
    <3>3. CASE c \in AppSet
      <4>1. PICK k \in 1 .. Len(Apps) : Apps[k] = c
        BY <3>2, <3>3 DEF AppSet
      <4>2. k \in 1 .. Len(Apps \o DataParts)
        BY <3>1, SMT
      <4>3. QED
        BY <3>1, <4>1, <4>2
    <3>4. CASE c \notin AppSet
      <4>1. PICK k \in 1 .. Len(DataParts) : DataParts[k] = c
        BY <3>2, <3>4 DEF Parts
      <4>2. Len(Apps) + k \in 1 .. Len(Apps \o DataParts)
        BY <3>1, SMT
      <4>3. QED
        BY <3>1, <4>1, <4>2
    <3>5. QED
      BY <3>3, <3>4
  <2>2. PICK k \in 1 .. Len(Samples) : Samples[k] = [cmd |-> cmd, of |-> c]
    BY <1>2, <2>1
  <2>3. Len(H) + k \in 1 .. Len(F) /\ Len(H) + k \in Steps
    BY <1>8, <1>9, SMT
  <2>4. Script[Len(H) + k] = [cmd |-> cmd, of |-> c]
    BY <1>8, <1>9, <2>2, <2>3
  <2>5. QED
    BY <2>3, <2>4
<1>16. QED
  BY <1>12, <1>14, <1>15

-----------------------------------------------------------------------------
(* What a command does to the server.                                      *)

(* The assumption of the isolation: a quarantine does what it is for, and the *)
(* domains are listed; the orchestrator looks at neither answer.              *)
IsolationWorks == {"quarantine", "domains"} \cap (MayFail \cup MayRaise) = {}

(* The servers a helper may leave, however it ends. *)
LEMMA HostAfter ==
    ASSUME NEW s, NEW h, NEW ds, NEW o \in Outcomes(s, h, ds)
    PROVE  /\ s.cmd = "restore-core" =>
                \/ o.host \in CoreLeftovers(s, h) /\ "restore-core" \in MayRaise
                \/ o.host = CoreRestored(s, h)
                \/ \E g \in CoreLeftovers(s, h) : o.host = Reverted(g, h.sources)
           /\ s.cmd = "quarantine" =>
                o.host \in {h, HostsWritten(h, ds), KeysRemoved(h, ds), Quarantined(h, ds)}
           /\ s.cmd \notin {"restore-core", "quarantine"} => o.host \in {h, Done(s, h, ds)}
           /\ s.cmd \notin MayFail \cup MayRaise /\ s.cmd # "restore-core" =>
                o.host = Done(s, h, ds) /\ o.says \in Answers(s, h)
           /\ o.says \notin {"failed", "raised"} =>
                o.host = Done(s, h, ds) /\ o.says \in Answers(s, h)
<1>1. \/ o.host = Done(s, h, ds) /\ o.says \in Answers(s, h)
      \/ o.says = "failed" /\ Fails(s, h) /\ o.host \in Undone(s, h)
      \/ o.says = "raised" /\ s.cmd \in MayRaise /\ o.host \in Halfway(s, h, ds)
  BY DEF Outcomes
<1>2. CASE o.host = Done(s, h, ds) /\ o.says \in Answers(s, h)
  BY <1>2 DEF Done
<1>3. CASE o.says = "failed" /\ Fails(s, h) /\ o.host \in Undone(s, h)
  BY <1>3 DEF Undone, Fails
<1>4. CASE o.says = "raised" /\ s.cmd \in MayRaise /\ o.host \in Halfway(s, h, ds)
  BY <1>4 DEF Halfway, Done
<1>5. QED
  BY <1>1, <1>2, <1>3, <1>4

(* A quarantine that works, field by field. *)
LEMMA QuarantineEffect ==
    ASSUME NEW h \in HostType, NEW ds
    PROVE  /\ Quarantined(h, ds).blocked /\ ~Quarantined(h, ds).keys
           /\ Quarantined(h, ds).sink
           /\ Quarantined(h, ds).mapped = ds
           /\ \A g \in {HostsWritten(h, ds), KeysRemoved(h, ds), Quarantined(h, ds)} :
                 /\ g.blocked /\ (g.keys => h.keys)
                 /\ g.domains = h.domains /\ g.sources = h.sources
                 /\ g.restored = h.restored /\ g.placed = h.placed
BY DEF Quarantined, KeysRemoved, HostsWritten, HostType

(* What only a quarantine or a command that adds domains changes. *)
Isolation(h) == <<h.blocked, h.keys, h.sink, h.mapped, h.domains>>

(* A core restore, field by field. *)
LEMMA CoreEffect ==
    ASSUME NEW h \in HostType, NEW s, s.of \in AppSet \cup {"system"}, s.cmd = "restore-core",
           NEW g \in CoreLeftovers(s, h) \cup {CoreRestored(s, h)}
    PROVE  /\ h.restored \subseteq g.restored /\ g.placed = h.placed
           /\ g.blocked = h.blocked /\ (g.keys => h.keys \/ s.of = "system")
           /\ s.of # "system" => Isolation(g) = Isolation(h)
           /\ g = CoreRestored(s, h) =>
                 /\ s.of \in g.restored
                 /\ g.sources \subseteq h.sources \cup {s.of}
           /\ Reverted(g, h.sources).sources = h.sources
           /\ Reverted(g, h.sources).restored = g.restored
           /\ Reverted(g, h.sources).placed = g.placed
           /\ Reverted(g, h.sources).keys = g.keys
           /\ Isolation(Reverted(g, h.sources)) = Isolation(g)
<1>1. g \in HostType
  <2>1. Unpacked(h) \in HostType
    BY DomainsTyped DEF Unpacked, HostType
  <2>2. s.of # "system" => WithSources(h, s.of) \in HostType
    BY DEF WithSources, HostType
  <2>3. CoreRestored(s, h) \in HostType
    BY <2>1, <2>2 DEF CoreRestored, HostType
  <2>4. QED
    BY <2>1, <2>2, <2>3 DEF CoreLeftovers
<1>2. /\ Unpacked(h).restored = h.restored /\ Unpacked(h).placed = h.placed
      /\ Unpacked(h).blocked = h.blocked /\ Unpacked(h).sources = h.sources
      /\ Unpacked(h) \in HostType
  BY DomainsTyped DEF Unpacked, HostType
<1>3. ASSUME s.of # "system"
      PROVE  LET w == WithSources(h, s.of) IN
             /\ w.restored = h.restored /\ w.placed = h.placed /\ w.keys = h.keys
             /\ w.sources \subseteq h.sources \cup {s.of}
             /\ Isolation(w) = Isolation(h) /\ w.blocked = h.blocked /\ w \in HostType
  BY <1>3 DEF WithSources, HostType, Isolation
<1>4. CASE s.of = "system"
  <2>1. CASE g \in {h, Unpacked(h)}
    BY <1>2, <1>4, <2>1, <1>1 DEF Reverted, HostType, Isolation, CoreRestored
  <2>2. CASE g = CoreRestored(s, h)
    BY <1>2, <1>4, <2>2, <1>1 DEF CoreRestored, Reverted, HostType, Isolation
  <2>3. QED
    BY <1>4, <2>1, <2>2 DEF CoreLeftovers
<1>5. CASE s.of # "system"
  <2>1. CASE g = h
    BY <1>5, <2>1, <1>1 DEF Reverted, HostType, Isolation, CoreRestored
  <2>2. CASE g = WithSources(h, s.of)
    BY <1>3, <1>5, <2>2, <1>1 DEF Reverted, HostType, Isolation, CoreRestored
  <2>3. CASE g = CoreRestored(s, h)
    BY <1>3, <1>5, <2>3, <1>1 DEF CoreRestored, Reverted, HostType, Isolation
  <2>4. QED
    BY <1>5, <2>1, <2>2, <2>3 DEF CoreLeftovers
<1>6. QED
  BY <1>4, <1>5

(* The commands that change the record of the server: the mail directories    *)
(* that `mail-verify` makes are not in it.                                    *)
Alters(s) == s.cmd \in Changing /\ ~Caught(s)

(* What every command keeps, whatever it answers. *)
LEMMA Effects ==
    ASSUME NEW s \in ScriptStep, NEW h \in HostType, NEW ds \in SUBSET Domains,
           NEW o \in Outcomes(s, h, ds)
    PROVE  /\ h.restored \subseteq o.host.restored /\ h.placed \subseteq o.host.placed
           /\ h.blocked => o.host.blocked
           /\ o.host.keys => h.keys \/ (s.cmd = "restore-core" /\ s.of = "system")
           /\ s.cmd # "quarantine" /\ ~AddsDomains(s) => Isolation(o.host) = Isolation(h)
           /\ ~AddsDomains(s) => o.host.domains = h.domains
           /\ s.cmd = "add-domain" => o.host.domains \subseteq h.domains \cup AppSet
           /\ s.cmd = "postinstall" => o.host.domains \subseteq h.domains \cup FirstDomain
           /\ ~Alters(s) => o.host = h
<1>1. CASE s.cmd = "restore-core"
  <2>1. s.of \in AppSet \cup {"system"}
    BY <1>1, ComponentTyped
  <2>2. PICK g \in CoreLeftovers(s, h) \cup {CoreRestored(s, h)} :
           o.host = g \/ o.host = Reverted(g, h.sources)
    BY <1>1, HostAfter
  <2>3. /\ h.restored \subseteq g.restored /\ g.placed = h.placed
        /\ g.blocked = h.blocked /\ (g.keys => h.keys \/ s.of = "system")
        /\ s.of # "system" => Isolation(g) = Isolation(h)
        /\ Reverted(g, h.sources).restored = g.restored
        /\ Reverted(g, h.sources).placed = g.placed
        /\ Reverted(g, h.sources).keys = g.keys
        /\ Isolation(Reverted(g, h.sources)) = Isolation(g)
    BY <1>1, <2>1, CoreEffect
  <2>4. Isolation(o.host) = Isolation(g) /\ o.host.restored = g.restored
        /\ o.host.placed = g.placed
    BY <2>2, <2>3
  <2>5. QED
    BY <1>1, <2>3, <2>4 DEF AddsDomains, Isolation, Alters, Changing, Caught
<1>2. CASE s.cmd = "quarantine"
  <2>1. o.host \in {h, HostsWritten(h, ds), KeysRemoved(h, ds), Quarantined(h, ds)}
    BY <1>2, HostAfter
  <2>2. QED
    BY <1>2, <2>1, QuarantineEffect DEF AddsDomains, Alters, Changing, Caught
<1>3. CASE s.cmd \notin {"restore-core", "quarantine"}
  <2>1. o.host \in {h, Done(s, h, ds)}
    BY <1>3, HostAfter
  <2>2. CASE o.host = h
    BY <1>3, <2>2 DEF AddsDomains
  <2>3. CASE o.host = Done(s, h, ds)
    <3>1. CASE s.cmd \in {"install-yunohost", "extract-payload"}
      BY <1>3, <2>3, <3>1 DEF Done, HostType, AddsDomains, Isolation, Alters, Changing, Caught
    <3>2. CASE s.cmd = "postinstall"
      <4>1. o.host = [h EXCEPT !.yunohost = "ready", !.domains = @ \cup FirstDomain]
        BY <2>3, <3>2 DEF Done
      <4>2. /\ o.host.domains = h.domains \cup FirstDomain
            /\ o.host.restored = h.restored /\ o.host.placed = h.placed
            /\ o.host.blocked = h.blocked /\ o.host.keys = h.keys
        BY <4>1 DEF HostType
      <4>3. QED
        BY <3>2, <4>2 DEF AddsDomains, Alters, Changing, Caught
    <3>3. CASE s.cmd = "add-domain"
      <4>1. s.of \in AppSet
        BY <3>3, ComponentTyped
      <4>2. QED
        BY <1>3, <2>3, <3>3, <4>1 DEF Done, HostType, AddsDomains, Alters, Changing, Caught
    <3>4. CASE s.cmd \notin {"install-yunohost", "extract-payload", "postinstall",
                             "add-domain"}
      BY <1>3, <2>3, <3>4 DEF Done, AddsDomains
    <3>5. QED
      BY <3>1, <3>2, <3>3, <3>4
  <2>4. QED
    BY <2>1, <2>2, <2>3
<1>4. QED
  BY <1>1, <1>2, <1>3

(* What an answer says of the server. *)
LEMMA Tells ==
    ASSUME NEW s \in ScriptStep, NEW h \in HostType, NEW ds \in SUBSET Domains,
           NEW o \in Outcomes(s, h, ds)
    PROVE  /\ s.cmd = "restore-core" /\ o.says \in {"ok", "warning"} =>
                s.of \in o.host.restored
           /\ s.cmd = "describe" /\ o.says \notin {"unreadable", "failed", "raised"} =>
                s.of \in o.host.placed
           /\ s.cmd = "extract-payload" =>
                \/ o.says = "ok" /\ s.of \in o.host.placed
                \/ o.says = "failed"
                \/ s.cmd \in MayRaise
           /\ IsolationWorks /\ s.cmd = "quarantine" => o.host = Quarantined(h, ds)
           /\ IsolationWorks /\ s.cmd = "domains" => o.says = "ok"
<1>1. ASSUME s.cmd = "restore-core", o.says \in {"ok", "warning"}
      PROVE  s.of \in o.host.restored
  <2>1. o.host = CoreRestored(s, h)
    <3>1. o.host = Done(s, h, ds)
      BY <1>1, HostAfter
    <3>2. QED
      BY <1>1, <3>1 DEF Done
  <2>2. s.of \in AppSet \cup {"system"}
    BY <1>1, ComponentTyped
  <2>3. QED
    BY <1>1, <2>1, <2>2, CoreEffect
<1>2. ASSUME s.cmd = "describe", o.says \notin {"unreadable", "failed", "raised"}
      PROVE  s.of \in o.host.placed
  <2>1. o.host = h /\ o.says \in Answers(s, h)
    <3>1. o.host = Done(s, h, ds) /\ o.says \in Answers(s, h)
      BY <1>2, HostAfter
    <3>2. QED
      BY <1>2, <3>1 DEF Done
  <2>2. QED
    BY <1>2, <2>1 DEF Answers
<1>3. ASSUME IsolationWorks, s.cmd = "quarantine" PROVE o.host = Quarantined(h, ds)
  <2>1. s.cmd \notin MayFail \cup MayRaise
    BY <1>3 DEF IsolationWorks
  <2>2. o.host = Done(s, h, ds)
    BY <1>3, <2>1, HostAfter
  <2>3. QED
    BY <1>3, <2>2 DEF Done
<1>4. ASSUME IsolationWorks, s.cmd = "domains" PROVE o.says = "ok"
  <2>1. s.cmd \notin MayFail \cup MayRaise
    BY <1>4 DEF IsolationWorks
  <2>2. QED
    BY <1>4, <2>1, HostAfter DEF Answers
<1>5. ASSUME s.cmd = "extract-payload", o.says # "failed", s.cmd \notin MayRaise
      PROVE  o.says = "ok" /\ s.of \in o.host.placed
  <2>1. o.host = Done(s, h, ds) /\ o.says \in Answers(s, h)
    BY <1>5 DEF Outcomes
  <2>2. QED
    BY <1>5, <2>1 DEF Done, Answers, HostType
<1>6. QED
  BY <1>1, <1>2, <1>3, <1>4, <1>5

(* The apt sources of a failed restore are taken back, unless an exception    *)
(* ends the helper in between.                                                *)
LEMMA SourcesReverted ==
    ASSUME NEW s \in ScriptStep, NEW h \in HostType, NEW ds \in SUBSET Domains,
           NEW o \in Outcomes(s, h, ds), "restore-core" \notin MayRaise,
           h.sources \subseteq h.restored
    PROVE  o.host.sources \subseteq o.host.restored
<1>1. CASE s.cmd = "restore-core"
  <2>1. s.of \in AppSet \cup {"system"}
    BY <1>1, ComponentTyped
  <2>2. CASE o.host = CoreRestored(s, h)
    BY <1>1, <2>1, <2>2, CoreEffect
  <2>3. CASE o.host # CoreRestored(s, h)
    <3>1. PICK g \in CoreLeftovers(s, h) : o.host = Reverted(g, h.sources)
      BY <1>1, <2>3, HostAfter
    <3>2. QED
      BY <1>1, <2>1, <3>1, CoreEffect
  <2>4. QED
    BY <2>2, <2>3
<1>2. CASE s.cmd = "quarantine"
  BY <1>2, HostAfter, QuarantineEffect
<1>3. CASE s.cmd \notin {"restore-core", "quarantine"}
  <2>1. o.host \in {h, Done(s, h, ds)}
    BY <1>3, HostAfter
  <2>2. Done(s, h, ds).sources = h.sources /\ Done(s, h, ds).restored = h.restored
    BY <1>3 DEF Done, HostType
  <2>3. QED
    BY <2>1, <2>2
<1>4. QED
  BY <1>1, <1>2, <1>3

-----------------------------------------------------------------------------
(* What the report and the server have to do with each other.              *)

(* A helper that is neither of the verification nor the `echo` belongs to    *)
(* the current step, also after an error.                                    *)
Behind ==
    \A p \in procs : NotPoll(p.step) /\ ~Caught(Script[p.step]) => p.step = at

(* There is a command only for a step that is not skipped. *)
Committed == call # "idle" => ~Skips(Current)

(* What the answer that has come, but was not looked at, says of the server. *)
Told ==
    reply # "none" =>
        /\ Current.cmd = "restore-core" /\ reply \in {"ok", "warning"}
             => Current.of \in host.restored
        /\ Current.cmd = "describe" /\ reply \notin {"unreadable", "failed", "raised"}
             => Current.of \in host.placed
        /\ Current.cmd = "extract-payload" =>
             \/ reply = "ok" /\ Current.of \in host.placed
             \/ reply = "failed"
             \/ "extract-payload" \in MayRaise

(* What was restored failed in the report or is on the server; the same for  *)
(* what was described, and for what was extracted without a description.     *)
RestoredOrFailed(s) ==
    s.cmd = "restore-core" => CoreFailed(s.of) \/ s.of \in host.restored

PlacedOrFailed(s) ==
    s.cmd = "describe" /\ s.of \in HasObjects =>
        CoreFailed(s.of) \/ samples[s.of] = "unreadable" \/ s.of \in host.placed

ExtractedOrFailed(s) ==
    s.cmd = "extract-payload" /\ s.of \in HasRoots \ HasObjects =>
        \/ CoreFailed(s.of) \/ "payload-fail" \in checks[s.of]
        \/ s.of \in host.placed
        \/ "extract-payload" \in MayRaise

InPlace(s) == RestoredOrFailed(s) /\ PlacedOrFailed(s) /\ ExtractedOrFailed(s)

Passed == \A i \in Steps : i < at => InPlace(Script[i])

(* A helper of the verification runs under the session that started it, or   *)
(* it was abandoned and its component is reported as unreachable.            *)
Abandoned ==
    fatal = "none" =>
        \A p \in procs : Caught(Script[p.step]) =>
            \/ p.step = at /\ call = "open" /\ reply = "none"
            \/ p.step < at /\ "unreachable" \in checks[Script[p.step].of]

(* After the report nothing happens any more but that helpers end. *)
Over == ended # "no" => call = "idle" /\ (fatal # "none" \/ at \notin Steps)

Judged ==
    /\ Behind /\ Committed /\ Told /\ Passed /\ Abandoned
    /\ Over /\ SampledWhereRestored

(* Only a connection starts a helper, and only a helper changes the server. *)
LEMMA WorldKept ==
    ASSUME [Next]_vars
    PROVE  \/ UNCHANGED world
           \/ Connect /\ host' = host /\ UNCHANGED findings
           \/ \E p \in procs : HelperEnds(p)
<1>1. CASE UNCHANGED vars
  BY <1>1 DEF vars, world
<1>2. CASE Walk \/ Signal
  BY <1>2 DEF Walk, NoticeSignal, Skip, Dial, Report, Signal, world
<1>3. CASE Talk
  BY <1>3 DEF Talk, Refuse, Connect, Break, world
<1>4. CASE Judge
  BY <1>4 DEF Judge, AnswerIgnored, AnswerRequired, AnswerBestEffort, AnswerDomains,
       AnswerRestore, AnswerExtract, AnswerDescribe, AnswerHealth, AnswerMail, world
<1>5. QED
  BY <1>1, <1>2, <1>3, <1>4 DEF Next, Orchestrate

(* No check leaves the report, and an object is judged again only by another  *)
(* description of its component.                                              *)
LEMMA ReportKept ==
    ASSUME TypeOK, [Next]_vars
    PROVE  /\ \A c \in Reported : checks[c] \subseteq checks'[c]
           /\ samples' = samples \/ AnswerDescribe
<1>1. ASSUME NEW c, NEW names, Check(c, names)
      PROVE  \A d \in Reported : checks[d] \subseteq checks'[d]
  BY <1>1 DEF Check, TypeOK
<1>2. CASE UNCHANGED vars
  BY <1>2 DEF vars, findings
<1>3. CASE Walk \/ Signal
  BY <1>3 DEF Walk, NoticeSignal, Skip, Dial, Report, Signal, findings
<1>4. ASSUME Errs PROVE (\A c \in Reported : checks[c] \subseteq checks'[c]) /\ samples' = samples
  BY <1>1, <1>4 DEF Errs
<1>5. CASE Talk
  <2>1. Errs \/ Redial \/ Connect
    BY <1>5 DEF Talk, Refuse, Break
  <2>2. QED
    BY <1>4, <2>1 DEF Redial, Connect, findings
<1>6. CASE Judge
  BY <1>1, <1>6 DEF Judge, AnswerIgnored, AnswerRequired, AnswerBestEffort, AnswerDomains,
       AnswerRestore, AnswerExtract, AnswerDescribe, AnswerHealth, AnswerMail, findings
<1>7. ASSUME NEW p \in procs, HelperEnds(p)
      PROVE  checks' = checks /\ samples' = samples
  BY <1>7 DEF HelperEnds, findings
<1>8. QED
  BY <1>2, <1>3, <1>5, <1>6, <1>7 DEF Next, Orchestrate

(* How a step of the script that is neither caught nor the `echo` is left: it *)
(* is skipped or it was answered.                                             *)
LEMMA Leaves ==
    ASSUME TypeOK, Position, [Next]_vars, at' # at
    PROVE  /\ at \in Steps /\ at' = at + 1 /\ UNCHANGED world
           /\ call' = "idle" /\ reply' = "none" /\ fatal = "none" /\ fatal' = "none"
           /\ \/ Skip /\ call = "idle"
              \/ Judge /\ reply # "none"
              \/ /\ Caught(Current) /\ UNCHANGED <<known, samples>>
                 /\ Current.of \in Reported => "unreachable" \in checks'[Current.of]
           /\ Current.cmd = "restore-core" => AnswerRestore
           /\ Current.cmd = "describe" => Skip \/ AnswerDescribe
           /\ Current.cmd = "extract-payload" => Skip \/ AnswerExtract
           /\ Current.cmd = "quarantine" => reply # "none"
           /\ Current.cmd = "domains" => AnswerDomains
<1> DEFINE G == /\ at \in Steps /\ at' = at + 1 /\ UNCHANGED world
                /\ call' = "idle" /\ reply' = "none" /\ fatal = "none" /\ fatal' = "none"
<1>1. CASE Skip
  BY <1>1 DEF Skip, Idle, Skips, Proceed, outcome, world
<1>2. CASE Judge
  <2>1. G
    BY <1>2 DEF Judge, AnswerIgnored, AnswerRequired, AnswerBestEffort, AnswerDomains,
       AnswerRestore, AnswerExtract, AnswerDescribe, AnswerHealth, AnswerMail,
       Answered, Position, Proceed, Stop, SaveRestoreLogFails, outcome, world
  <2>2. reply # "none"
    BY <1>2 DEF Judge, AnswerIgnored, AnswerRequired, AnswerBestEffort, AnswerDomains,
       AnswerRestore, AnswerExtract, AnswerDescribe, AnswerHealth, AnswerMail, Answered
  <2>3. /\ Current.cmd = "restore-core" => AnswerRestore
        /\ Current.cmd = "describe" => AnswerDescribe
        /\ Current.cmd = "extract-payload" => AnswerExtract
        /\ Current.cmd = "domains" => AnswerDomains
    BY <1>2 DEF Judge, AnswerIgnored, AnswerRequired, AnswerBestEffort, AnswerDomains,
       AnswerRestore, AnswerExtract, AnswerDescribe, AnswerHealth, AnswerMail, Answered
  <2>4. QED
    BY <1>2, <2>1, <2>2, <2>3
<1>3. CASE Errs /\ UNCHANGED world /\ call # "idle"
  <2>1. Caught(Current) /\ Proceed /\ UNCHANGED outcome
    BY <1>3 DEF Errs, Stop
  <2>2. G
    BY <1>3, <2>1 DEF Position, Proceed, outcome
  <2>3. Current.of \in Reported => "unreachable" \in checks'[Current.of]
    BY <1>3, <2>1 DEF Errs, Check, TypeOK
  <2>4. QED
    BY <1>3, <2>1, <2>2, <2>3 DEF Errs, Caught
<1>4. ASSUME Walk, ~Skip PROVE FALSE
  BY <1>4 DEF Walk, NoticeSignal, Stop, Dial, Report
<1>5. CASE Talk
  <2>1. (Errs /\ UNCHANGED world /\ call # "idle") \/ Redial \/ Connect
    BY <1>5 DEF Talk, Refuse, Break
  <2>2. QED
    BY <1>3, <2>1 DEF Redial, Connect
<1>6. ASSUME UNCHANGED vars \/ Signal \/ \E p \in procs : HelperEnds(p) PROVE FALSE
  BY <1>6 DEF vars, Signal, HelperEnds
<1>7. QED
  BY <1>1, <1>2, <1>4, <1>5, <1>6 DEF Next, Orchestrate

(* The helper of a step runs on the server of a step of the script. *)
LEMMA HelperTyped ==
    ASSUME TypeOK, NEW p \in procs
    PROVE  /\ p.step \in Steps /\ Script[p.step] \in ScriptStep
           /\ host \in HostType /\ known \in SUBSET Domains
BY ScriptTyped DEF TypeOK

(* What was restored or placed on the server stays there. *)
LEMMA ServerGrows ==
    ASSUME TypeOK, [Next]_vars
    PROVE  host.restored \subseteq host'.restored /\ host.placed \subseteq host'.placed
<1>1. CASE UNCHANGED host
  BY <1>1
<1>2. ASSUME NEW p \in procs, HelperEnds(p)
      PROVE  host.restored \subseteq host'.restored /\ host.placed \subseteq host'.placed
  <2>1. PICK o \in Outcomes(Script[p.step], host, known) : host' = o.host
    BY <1>2 DEF HelperEnds
  <2>2. QED
    BY <2>1, HelperTyped, Effects
<1>3. QED
  BY <1>1, <1>2, WorldKept DEF world

LEMMA BehindKept ==
    ASSUME SessionInv, Behind, [Next]_vars
    PROVE  Behind'
<1>1. TypeOK /\ Position /\ Attended /\ procs \subseteq [step : Steps, run : Nat]
  BY DEF SessionInv, Control, TypeOK
<1>2. CASE Advances
  <2>1. procs' = procs
    BY <1>2 DEF Advances
  <2>2. ASSUME NEW p \in procs, NotPoll(p.step), ~Caught(Script[p.step]) PROVE FALSE
    BY <1>1, <1>2, <2>2 DEF Attended, Advances, Current
  <2>3. QED
    BY <2>1, <2>2 DEF Behind, NotPoll
<1>3. CASE Halts \/ Dials \/ Stays
  BY <1>3 DEF Halts, Dials, Stays, Behind, NotPoll
<1>4. CASE Connect
  BY <1>4 DEF Connect, Behind, NotPoll
<1>5. CASE \E p \in procs : HelperEnds(p)
  BY <1>5 DEF HelperEnds, Behind, NotPoll
<1>6. QED
  BY <1>1, <1>2, <1>3, <1>4, <1>5, Kinds

LEMMA CommittedKept ==
    ASSUME Committed, [Next]_vars
    PROVE  Committed'
<1>1. ASSUME at' = at, UNCHANGED <<checks, samples>>, call' # "idle" => ~Skips(Current)
      PROVE  Committed'
  BY <1>1 DEF Committed, Skips, CoreFailed, Current
<1>2. CASE UNCHANGED vars \/ Signal
  BY <1>1, <1>2 DEF vars, wire, findings, Signal, Committed
<1>3. CASE Walk
  <2>1. CASE Dial
    BY <1>1, <2>1 DEF Dial, findings
  <2>2. CASE ~Dial
    BY <1>3, <2>2 DEF Walk, NoticeSignal, Skip, Report, Stop, Proceed, Committed, wire
  <2>3. QED
    BY <2>1, <2>2
<1>4. CASE Talk
  <2>1. CASE Errs
    BY <2>1 DEF Errs, Stop, Proceed, Committed
  <2>2. CASE call # "idle" /\ (Redial \/ Connect)
    BY <1>1, <2>2 DEF Redial, Connect, findings, Committed
  <2>3. QED
    BY <1>4, <2>1, <2>2 DEF Talk, Refuse, Break, Connect
<1>5. CASE Judge
  BY <1>5 DEF Judge, AnswerIgnored, AnswerRequired, AnswerBestEffort, AnswerDomains,
       AnswerRestore, AnswerExtract, AnswerDescribe, AnswerHealth, AnswerMail,
       SaveRestoreLogFails, Stop, Proceed, Committed
<1>6. CASE \E p \in procs : HelperEnds(p)
  BY <1>1, <1>6 DEF HelperEnds, findings, Committed
<1>7. QED
  BY <1>2, <1>3, <1>4, <1>5, <1>6 DEF Next, Orchestrate

(* An answer comes only from the helper of the current step. *)
LEMMA ReplyComes ==
    ASSUME [Next]_vars, reply' # "none"
    PROVE  /\ at' = at /\ UNCHANGED findings
           /\ \/ reply' = reply /\ UNCHANGED host
              \/ \E p \in procs : /\ HelperEnds(p)
                                  /\ reply' = reply \/ p.step = at
                                  /\ \E o \in Outcomes(Script[p.step], host, known) :
                                        /\ host' = o.host
                                        /\ reply' \in {reply, o.says}
                                        /\ reply' # reply => reply' = o.says
<1>1. CASE UNCHANGED vars \/ Signal
  BY <1>1 DEF vars, wire, findings, world, Signal
<1>2. CASE Walk
  BY <1>2 DEF Walk, NoticeSignal, Skip, Dial, Report, Stop, Proceed, wire, findings, world
<1>3. CASE Talk
  <2>1. Errs \/ Redial \/ Connect
    BY <1>3 DEF Talk, Refuse, Break
  <2>2. QED
    BY <2>1 DEF Errs, Redial, Connect, Stop, Proceed, findings
<1>4. CASE Judge
  BY <1>4 DEF Judge, AnswerIgnored, AnswerRequired, AnswerBestEffort, AnswerDomains,
       AnswerRestore, AnswerExtract, AnswerDescribe, AnswerHealth, AnswerMail,
       SaveRestoreLogFails, Stop, Proceed
<1>5. ASSUME NEW p \in procs, HelperEnds(p)
      PROVE  /\ at' = at /\ UNCHANGED findings
             /\ reply' = reply \/ p.step = at
             /\ \E o \in Outcomes(Script[p.step], host, known) :
                   /\ host' = o.host
                   /\ reply' \in {reply, o.says}
                   /\ reply' # reply => reply' = o.says
  BY <1>5 DEF HelperEnds
<1>6. QED
  BY <1>1, <1>2, <1>3, <1>4, <1>5 DEF Next, Orchestrate

LEMMA ToldKept ==
    ASSUME TypeOK, Told, [Next]_vars
    PROVE  Told'
<1> SUFFICES ASSUME reply' # "none"
             PROVE  /\ Current.cmd = "restore-core" /\ reply' \in {"ok", "warning"}
                         => Current.of \in host'.restored
                    /\ Current.cmd = "describe" /\ reply' \notin {"unreadable", "failed", "raised"}
                         => Current.of \in host'.placed
                    /\ Current.cmd = "extract-payload" =>
                         \/ reply' = "ok" /\ Current.of \in host'.placed
                         \/ reply' = "failed"
                         \/ "extract-payload" \in MayRaise
  BY ReplyComes DEF Told, Current
<1>1. CASE reply' = reply
  BY <1>1, ServerGrows DEF Told
<1>2. CASE reply' # reply
  <2>1. PICK p \in procs : /\ p.step = at
                           /\ \E o \in Outcomes(Script[p.step], host, known) :
                                 host' = o.host /\ reply' = o.says
    BY <1>2, ReplyComes
  <2>2. PICK o \in Outcomes(Current, host, known) : host' = o.host /\ reply' = o.says
    BY <2>1 DEF Current
  <2>3. Current \in ScriptStep /\ host \in HostType /\ known \in SUBSET Domains
    BY <2>1, HelperTyped DEF Current
  <2>4. QED
    BY <2>2, <2>3, Tells
<1>3. QED
  BY <1>1, <1>2

(* A component that the description called readable was extracted. *)
LEMMA DescribedIsPlaced ==
    ASSUME TypeOK, Position, Told, AnswerDescribe
    PROVE  /\ Current.of \in Reported
           /\ samples'[Current.of] = "unreadable" \/ Current.of \in host.placed
           /\ \A c \in Reported : c # Current.of => samples'[c] = samples[c]
<1>1. at \in Steps /\ Current \in ScriptStep /\ Current.cmd = "describe" /\ reply # "none"
  BY ScriptTyped DEF AnswerDescribe, Answered, Position, Current
<1>2. Current.of \in Reported
  BY <1>1, ComponentTyped DEF Reported
<1>3. samples \in [Reported -> {"none", "readable", "some", "unreadable"}]
  BY DEF TypeOK
<1>4. samples' = [samples EXCEPT ![Current.of] = SampleResult(payload, reply)]
  BY DEF AnswerDescribe
<1>5. SampleResult(payload, reply) = "unreadable" \/ reply \notin {"unreadable", "failed", "raised"}
  BY DEF SampleResult
<1>6. QED
  BY <1>1, <1>2, <1>3, <1>4, <1>5 DEF Told

LEMMA PassedKept ==
    ASSUME TypeOK, TypeOK', Position, Told, Passed, [Next]_vars
    PROVE  Passed'
<1>1. \A i \in Steps : Script[i] \in ScriptStep /\ i \in Nat
  BY ScriptTyped
<1>2. at' = at \/ at' = at + 1
  BY Leaves
<1>3. at \in Nat
  BY ScriptTyped DEF TypeOK
<1>4. ASSUME NEW i \in Steps, i < at
      PROVE  InPlace(Script[i])'
  <2> DEFINE s == Script[i]
  <2>1. s \in ScriptStep /\ RestoredOrFailed(s) /\ PlacedOrFailed(s) /\ ExtractedOrFailed(s)
    BY <1>1, <1>4 DEF Passed, InPlace
  <2>2. s.cmd \in {"restore-core", "describe", "extract-payload"} => s.of \in Reported
    BY <2>1, ComponentTyped DEF Reported, Parts
  <2> HIDE DEF s
  <2>3. s.cmd \in {"restore-core", "describe", "extract-payload"} /\ CoreFailed(s.of)
          => CoreFailed(s.of)'
    BY <2>2, ReportKept DEF CoreFailed
  <2>4. RestoredOrFailed(s)'
    BY <2>1, <2>3, ServerGrows DEF RestoredOrFailed
  <2>5. PlacedOrFailed(s)'
    <3>1. CASE samples' = samples
      BY <2>1, <2>3, <3>1, ServerGrows DEF PlacedOrFailed
    <3>2. CASE AnswerDescribe
      <4>1. UNCHANGED host
        BY <3>2 DEF AnswerDescribe, world
      <4>2. QED
        BY <2>1, <2>2, <2>3, <3>2, <4>1, DescribedIsPlaced DEF PlacedOrFailed
    <3>3. QED
      BY <3>1, <3>2, ReportKept
  <2>6. ExtractedOrFailed(s)'
    BY <2>1, <2>2, <2>3, ReportKept, ServerGrows DEF ExtractedOrFailed
  <2>7. QED
    BY <2>4, <2>5, <2>6 DEF InPlace, s
<1>5. ASSUME at' # at, NEW i \in Steps, i = at
      PROVE  InPlace(Script[i])'
  <2> DEFINE s == Script[i]
  <2>1. UNCHANGED host
    BY <1>5, Leaves DEF world
  <2>2. s = Current /\ s \in ScriptStep
    BY <1>1, <1>5 DEF Current
  <2> HIDE DEF s
  <2>3. ASSUME s.cmd = "restore-core"
        PROVE  CoreFailed(s.of)' \/ s.of \in host'.restored
    <3>1. AnswerRestore /\ reply # "none"
      BY <1>5, <2>2, <2>3, Leaves DEF AnswerRestore, Answered
    <3>2. s.of \in Reported
      BY <2>2, <2>3, ComponentTyped DEF Reported, Parts
    <3>3. CoreCheck(reply) \in checks'[s.of]
      BY <2>2, <3>1, <3>2 DEF AnswerRestore, Check, TypeOK
    <3>4. CoreCheck(reply) = "core-fail" \/ reply \in {"ok", "warning"}
      BY DEF CoreCheck
    <3>5. QED
      BY <2>1, <2>2, <2>3, <3>1, <3>3, <3>4 DEF Told, CoreFailed
  <2>4. ASSUME s.cmd = "describe", s.of \in HasObjects
        PROVE  CoreFailed(s.of)' \/ samples'[s.of] = "unreadable" \/ s.of \in host'.placed
    <3>1. CASE Skip
      <4>1. s.of \in HasRoots
        BY <2>4, SessionAssumption
      <4>2. CoreFailed(s.of) /\ UNCHANGED findings
        BY <2>2, <2>4, <3>1, <4>1 DEF Skip, Skips
      <4>3. QED
        BY <4>2 DEF CoreFailed, findings
    <3>2. CASE AnswerDescribe
      BY <2>1, <2>2, <3>2, DescribedIsPlaced
    <3>3. QED
      BY <1>5, <2>2, <2>4, <3>1, <3>2, Leaves
  <2>5. ASSUME s.cmd = "extract-payload", s.of \in HasRoots \ HasObjects
        PROVE  \/ CoreFailed(s.of)' \/ "payload-fail" \in checks'[s.of]
               \/ s.of \in host'.placed \/ "extract-payload" \in MayRaise
    <3>1. CASE Skip
      <4>1. CoreFailed(s.of) /\ UNCHANGED findings
        BY <2>2, <2>5, <3>1 DEF Skip, Skips
      <4>2. QED
        BY <4>1 DEF CoreFailed, findings
    <3>2. CASE AnswerExtract
      <4>1. s.of \in Reported /\ reply # "none"
        BY <2>2, <2>5, <3>2, ComponentTyped DEF Reported, AnswerExtract, Answered
      <4>2. RetrievalChecks(reply) \subseteq checks'[s.of]
        BY <2>2, <2>5, <3>2, <4>1 DEF AnswerExtract, Check, TypeOK
      <4>3. reply = "failed" => "payload-fail" \in checks'[s.of]
        BY <4>2 DEF RetrievalChecks
      <4>4. QED
        BY <2>1, <2>2, <2>5, <4>1, <4>3 DEF Told
    <3>3. QED
      BY <1>5, <2>2, <2>5, <3>1, <3>2, Leaves
  <2>6. QED
    BY <2>3, <2>4, <2>5 DEF InPlace, RestoredOrFailed, PlacedOrFailed, ExtractedOrFailed, s
<1>6. ASSUME NEW i \in Steps, i < at'
      PROVE  InPlace(Script[i])'
  <2>1. i < at \/ (at' # at /\ i = at)
    BY <1>1, <1>2, <1>3, <1>6, SMT
  <2>2. QED
    BY <1>4, <1>5, <2>1
<1>7. QED
  BY <1>6 DEF Passed

LEMMA AbandonedKept ==
    ASSUME SessionInv, Abandoned, [Next]_vars
    PROVE  Abandoned'
<1>1. TypeOK /\ Position /\ AtMostOnce
  BY DEF SessionInv, Control
<1>2. ASSUME NEW p \in procs, Caught(Script[p.step])
      PROVE  /\ p.step \in Steps /\ NotPoll(p.step) /\ Script[p.step].of \in Reported
             /\ checks[Script[p.step].of] \subseteq checks'[Script[p.step].of]
  <2>1. p.step \in Steps /\ Script[p.step] \in ScriptStep
    BY <1>1, HelperTyped
  <2>2. Script[p.step].of \in Reported
    BY <1>2, <2>1, ComponentTyped DEF Caught, Reported, Parts
  <2>3. QED
    BY <1>1, <1>2, <2>1, <2>2, ReportKept DEF Caught, NotPoll
<1>3. CASE at' # at
  <2>1. /\ at \in Nat /\ at' = at + 1 /\ procs' = procs /\ fatal = "none"
        /\ \/ call = "idle" \/ reply # "none"
           \/ Current.of \in Reported => "unreachable" \in checks'[Current.of]
    BY <1>1, <1>3, Leaves, ScriptTyped DEF world
  <2>2. ASSUME NEW p \in procs, Caught(Script[p.step])
        PROVE  p.step < at + 1 /\ "unreachable" \in checks'[Script[p.step].of]
    <3>1. p.step \in Nat
      BY <1>2, <2>2, ScriptTyped
    <3>2. CASE p.step < at /\ "unreachable" \in checks[Script[p.step].of]
      BY <1>2, <2>1, <2>2, <3>1, <3>2, SMT
    <3>3. CASE p.step = at /\ call = "open" /\ reply = "none"
      BY <1>2, <2>1, <2>2, <3>3, SMT DEF Current
    <3>4. QED
      BY <2>1, <2>2, <3>2, <3>3 DEF Abandoned
  <2>3. QED
    BY <2>1, <2>2 DEF Abandoned, Caught
<1>4. CASE at' = at /\ (Halts \/ Dials \/ Stays)
  <2>1. procs' = procs /\ (fatal' = "none" => fatal = "none" /\ (Dials \/ Stays))
    BY <1>4 DEF Halts, Dials, Stays
  <2>2. ASSUME NEW p \in procs, Caught(Script[p.step]), fatal = "none", Dials \/ Stays
        PROVE  \/ p.step = at /\ call' = "open" /\ reply' = "none"
               \/ p.step < at /\ "unreachable" \in checks'[Script[p.step].of]
    BY <1>2, <2>2 DEF Abandoned, Dials, Stays
  <2>3. QED
    BY <1>4, <2>1, <2>2 DEF Abandoned, Caught
<1>5. CASE Connect
  <2>1. /\ at' = at /\ call = "dialing" /\ call' = "open" /\ reply' = "none"
        /\ fatal' = fatal /\ checks' = checks
    BY <1>1, <1>5 DEF Connect, Position, outcome, findings
  <2>2. \A p \in procs' : p \in procs \/ p.step = at
    BY <1>5 DEF Connect
  <2>3. QED
    BY <2>1, <2>2 DEF Abandoned, Caught
<1>6. ASSUME NEW q \in procs, HelperEnds(q) PROVE Abandoned'
  <2>1. /\ at' = at /\ call' = call /\ fatal' = fatal /\ checks' = checks
        /\ procs' = procs \ {q}
        /\ reply' # reply => q = [step |-> at, run |-> started[at]]
    BY <1>6 DEF HelperEnds, outcome, findings
  <2>2. ASSUME NEW p \in procs, p # q, Caught(Script[p.step]), p.step = at, reply = "none"
        PROVE  reply' = "none"
    <3>1. SUFFICES ASSUME q = [step |-> at, run |-> started[at]] PROVE FALSE
      BY <2>1, <2>2
    <3>2. /\ at \in Steps /\ NotPoll(at) /\ started[at] \in Nat /\ started[at] <= 1
          /\ p = [step |-> at, run |-> p.run] /\ p.run \in Nat
          /\ p.run \in 1 .. started[at]
          /\ q.run \in 1 .. started[at]
      BY <1>1, <1>2, <2>2, <3>1 DEF TypeOK, AtMostOnce, NotPoll
    <3>3. p.run = started[at]
      BY <3>2, SMT
    <3>4. QED
      BY <2>2, <3>1, <3>2, <3>3
  <2>3. QED
    BY <2>1, <2>2 DEF Abandoned, Caught
<1>7. CASE Advances
  BY <1>1, <1>3, <1>7, SMT DEF Advances, Proceed, TypeOK
<1>8. QED
  BY <1>1, <1>3, <1>4, <1>5, <1>6, <1>7, Kinds

LEMMA OverKept ==
    ASSUME TypeOK, Position, Over, [Next]_vars
    PROVE  Over'
<1>1. ASSUME UNCHANGED <<at, call, fatal>>, ended' # ended => call = "idle" /\ (fatal # "none" \/ at \notin Steps)
      PROVE  Over'
  BY <1>1 DEF Over
<1>2. CASE UNCHANGED vars \/ Signal \/ \E p \in procs : HelperEnds(p)
  BY <1>1, <1>2 DEF vars, wire, outcome, Signal, HelperEnds
<1>3. CASE Report
  BY <1>1, <1>3 DEF Report, wire
<1>4. ASSUME NoticeSignal \/ Skip \/ Dial \/ Talk \/ Judge PROVE ended = "no" /\ ended' = ended
  <2>1. ended' = ended
    BY <1>4 DEF NoticeSignal, Skip, Dial, Talk, Refuse, Connect, Break, Redial, Errs, Judge,
         AnswerIgnored, AnswerRequired, AnswerBestEffort, AnswerDomains, AnswerRestore,
         AnswerExtract, AnswerDescribe, AnswerHealth, AnswerMail, SaveRestoreLogFails,
         Stop, outcome
  <2>2. (call = "idle" /\ fatal = "none" /\ at \in Steps) \/ call # "idle"
    BY <1>4 DEF NoticeSignal, Skip, Dial, Idle, Talk, Refuse, Connect, Break, Judge,
         AnswerIgnored, AnswerRequired, AnswerBestEffort, AnswerDomains, AnswerRestore,
         AnswerExtract, AnswerDescribe, AnswerHealth, AnswerMail, Answered
  <2>3. QED
    BY <2>1, <2>2 DEF Over
<1>5. QED
  BY <1>2, <1>3, <1>4 DEF Over, Next, Orchestrate, Walk

LEMMA SampledKept ==
    ASSUME TypeOK, Position, Committed, Passed, SampledWhereRestored, [Next]_vars
    PROVE  SampledWhereRestored'
<1>1. CASE UNCHANGED world \/ \E p \in procs : HelperEnds(p)
  <2>1. procs' \subseteq procs
    BY <1>1 DEF world, HelperEnds
  <2>2. QED
    BY <2>1, ServerGrows DEF SampledWhereRestored
<1>2. CASE Connect
  <2> SUFFICES ASSUME NEW p \in procs', Script[p.step].cmd = "extract-payload",
                      Script[p.step].of \in AppSet
               PROVE  Script[p.step].of \in host'.restored
    BY DEF SampledWhereRestored
  <2>1. CASE p \in procs
    BY <2>1, ServerGrows DEF SampledWhereRestored
  <2>2. CASE p \notin procs
    <3>1. p.step = at /\ at \in Steps /\ call # "idle" /\ Script[at] = Current
      BY <1>2, <2>2 DEF Connect, Position, Current
    <3>2. ~CoreFailed(Current.of)
      BY <3>1 DEF Committed, Skips
    <3>3. PICK i \in Steps : i < at /\ Script[i] = [cmd |-> "restore-core", of |-> Current.of]
      BY <3>1, RestoredBeforeSampled
    <3>4. Current.of \in host.restored
      BY <3>2, <3>3 DEF Passed, InPlace, RestoredOrFailed
    <3>5. QED
      BY <3>1, <3>4, ServerGrows
  <2>3. QED
    BY <2>1, <2>2
<1>3. QED
  BY <1>1, <1>2, WorldKept

LEMMA JudgedInit == Init => Judged
<1> SUFFICES ASSUME Init PROVE Judged
  OBVIOUS
<1>1. \A i \in Steps : ~(i < 1)
  BY ScriptTyped, SMT
<1>2. QED
  BY <1>1 DEF Init, Judged, Behind, Committed, Told, Passed, Abandoned, Over,
              SampledWhereRestored

(* The history of the judgements: together with the invariant of the session  *)
(* it is inductive.                                                           *)
THEOREM JudgementsTrue == Spec => []Judged
<1>1. SessionInv /\ SessionInv' /\ Judged /\ [Next]_vars => Judged'
  BY BehindKept, CommittedKept, ToldKept, PassedKept, AbandonedKept, OverKept, SampledKept
     DEF Judged, SessionInv
<1>2. QED
  BY <1>1, JudgedInit, SessionInvariant, PTL DEF Spec

(* Samples are only laid into applications that were restored, whatever fails *)
(* and whatever connection breaks.                                            *)
THEOREM SamplesWhereRestored == Spec => []SampledWhereRestored
BY JudgementsTrue, PTL DEF Judged

LEMMA FinishedIsRestored ==
    ASSUME SessionInv, Judged, Mode = "full" => "extract-payload" \notin MayRaise
    PROVE  PassMeansRestored
<1> SUFFICES ASSUME ended # "no", Overall # "FAIL"
             PROVE  /\ AppSet \cup (IF SystemParts THEN {"system"} ELSE {}) \subseteq host.restored
                    /\ ToPlace \subseteq host.placed
                    /\ ~ \E p \in procs : Script[p.step].cmd \in Changing
  BY DEF PassMeansRestored
<1>1. fatal = "none" /\ \A c \in Reported : Status(c) # "FAIL"
  BY DEF Overall
<1>2. \A c \in Reported : /\ ~CoreFailed(c) /\ samples[c] # "unreadable"
                          /\ checks[c] \cap {"payload-fail", "unreachable"} = {}
  BY <1>1 DEF Status, CoreFailed, FailChecks
<1>3. at \notin Steps
  BY <1>1 DEF Judged, Over
<1>4. \A i \in Steps : i < at
  BY <1>3, ScriptTyped, SMT DEF SessionInv, TypeOK
<1>5. \A i \in Steps : InPlace(Script[i])
  BY <1>4 DEF Judged, Passed
<1>6. ASSUME NEW c \in AppSet \cup (IF SystemParts THEN {"system"} ELSE {})
      PROVE  c \in host.restored
  <2>1. PICK i \in Steps : Script[i] = [cmd |-> "restore-core", of |-> c]
    BY RestoredBeforeSampled, SystemPlace
  <2>2. c \in Reported
    BY DEF Reported, Parts
  <2>3. QED
    BY <1>2, <1>5, <2>1, <2>2 DEF InPlace, RestoredOrFailed
<1>7. ASSUME NEW c \in ToPlace PROVE c \in host.placed
  <2>1. c \in HasRoots /\ c \in Parts /\ c \in Reported
    BY SessionAssumption DEF ToPlace, Reported
  <2>2. CASE c \in HasObjects
    <3>1. PICK i \in Steps : Script[i] = [cmd |-> "describe", of |-> c]
      BY <2>1, RestoredBeforeSampled
    <3>2. QED
      BY <1>2, <1>5, <2>1, <2>2, <3>1 DEF InPlace, PlacedOrFailed
  <2>3. CASE c \notin HasObjects
    <3>1. "extract-payload" \notin MayRaise
      BY <2>3 DEF ToPlace
    <3>2. PICK i \in Steps : Script[i] = [cmd |-> "extract-payload", of |-> c]
      BY <2>1, RestoredBeforeSampled
    <3>3. QED
      BY <1>2, <1>5, <2>1, <2>3, <3>1, <3>2 DEF InPlace, ExtractedOrFailed
  <2>4. QED
    BY <2>2, <2>3
<1>8. ASSUME NEW p \in procs, Script[p.step].cmd \in Changing PROVE FALSE
  <2>1. p.step \in Steps /\ NotPoll(p.step) /\ Script[p.step] \in ScriptStep
    BY <1>8, HelperTyped, NotBoth DEF SessionInv
  <2>2. CASE ~Caught(Script[p.step])
    BY <1>3, <2>1, <2>2 DEF Judged, Behind
  <2>3. CASE Caught(Script[p.step])
    <3>1. "unreachable" \in checks[Script[p.step].of]
      BY <1>1, <1>3, <2>1, <2>3 DEF Judged, Abandoned
    <3>2. Script[p.step].of \in Reported
      BY <2>1, <2>3, ComponentTyped DEF Caught, Reported, Parts
    <3>3. QED
      BY <1>2, <3>1, <3>2
  <2>4. QED
    BY <2>2, <2>3
<1>9. QED
  BY <1>6, <1>7, <1>8

(* A report that does not say FAIL describes a server on which the core of    *)
(* everything planned was restored and its samples or, in full mode, its      *)
(* large roots were extracted, and which nothing changes any more. In full    *)
(* mode an `extract-payload` that ends in an exception is left out: the       *)
(* report does not tell it from a success (FullMeansRestored).                *)
THEOREM PassIsRestored ==
    ASSUME Mode = "full" => "extract-payload" \notin MayRaise
    PROVE  Spec => []PassMeansRestored
<1>1. SessionInv /\ Judged => PassMeansRestored
  BY FinishedIsRestored
<1>2. QED
  BY <1>1, JudgementsTrue, SessionInvariant, PTL

-----------------------------------------------------------------------------
(* Isolation.                                                              *)

(* The sources of failed restores were taken back. *)
Clean == host.sources \subseteq host.restored

(* An application is restored among the apt sources of applications that were *)
(* restored, as long as no exception ends the restore of one.                 *)
THEOREM RestoredAlone ==
    ASSUME "restore-core" \notin MayRaise
    PROVE  Spec => []JudgedAlone
<1>1. Init => Clean
  BY DEF Init, Clean, FreshHost
<1>2. ASSUME TypeOK, Clean, [Next]_vars PROVE Clean'
  <2>1. CASE UNCHANGED host
    BY <1>2, <2>1 DEF Clean
  <2>2. ASSUME NEW p \in procs, HelperEnds(p) PROVE Clean'
    <3>1. PICK o \in Outcomes(Script[p.step], host, known) : host' = o.host
      BY <2>2 DEF HelperEnds
    <3>2. QED
      BY <1>2, <3>1, HelperTyped, SourcesReverted DEF Clean
  <2>3. QED
    BY <1>2, <2>1, <2>2, WorldKept DEF world
<1>3. Clean => JudgedAlone
  BY DEF Clean, JudgedAlone
<1>4. QED
  BY <1>1, <1>2, <1>3, SessionTyped, PTL DEF Spec

(* A step that has been answered. *)
Reached(i) == i < at \/ (i = at /\ reply # "none")

(* After the first quarantine the server cannot reach the DynDNS service. *)
Blocked == \A i \in Steps : Script[i].cmd = "quarantine" /\ Reached(i) => host.blocked

(* The orchestrator knows every domain the server had when it was asked. *)
Listed ==
    /\ AppSet \cup MainDomain \subseteq known
    /\ ~SystemParts => host.domains \subseteq AppSet \cup MainDomain
    /\ \A i \in Steps : Script[i].cmd = "domains" =>
          /\ i = at /\ reply # "none" => Good
          /\ i < at => host.domains \subseteq known

SealedInUse == Reached(Len(Prepared)) => Isolated

IsolationInv == Blocked /\ ProductionDnsSafe /\ Listed /\ SealedInUse

(* A step is reached because it was before, or because its helper answered. *)
LEMMA ReachedBefore ==
    ASSUME TypeOK, Position, [Next]_vars, NEW i \in Steps, Reached(i)',
           Script[i].cmd = "quarantine"
    PROVE  \/ Reached(i)
           \/ /\ i = at /\ at' = at
              /\ \E p \in procs : p.step = at /\ HelperEnds(p)
<1>1. i \in Nat /\ at \in Nat
  BY ScriptTyped DEF TypeOK
<1>2. CASE at' = at
  <2>1. CASE i < at
    BY <2>1 DEF Reached
  <2>2. CASE ~(i < at)
    <3>1. i = at /\ reply' # "none"
      BY <1>2, <2>2 DEF Reached
    <3>2. CASE reply' = reply
      BY <3>1, <3>2 DEF Reached
    <3>3. CASE reply' # reply
      BY <1>2, <3>1, <3>3, ReplyComes
    <3>4. QED
      BY <3>2, <3>3
  <2>3. QED
    BY <2>1, <2>2
<1>3. CASE at' # at
  <2>1. at' = at + 1 /\ reply' = "none"
    BY <1>3, Leaves
  <2>2. i < at \/ i = at
    BY <1>1, <2>1, SMT DEF Reached
  <2>3. CASE i = at
    BY <1>3, <2>3, Leaves DEF Reached, Current
  <2>4. QED
    BY <2>2, <2>3 DEF Reached
<1>4. QED
  BY <1>2, <1>3

(* A helper that changes the server is the one the orchestrator waits for, or *)
(* the last one of a run that an error has ended.                             *)
LEMMA ChangerIsCurrent ==
    ASSUME SessionInv, Behind, NEW p \in procs, Alters(Script[p.step])
    PROVE  p.step \in Steps /\ p.step = at /\ reply = "none"
<1>1. p.step \in Steps
  BY DEF SessionInv, TypeOK
<1>2. NotPoll(p.step) /\ ~Caught(Script[p.step])
  BY <1>1, NotBoth DEF Alters
<1>3. QED
  BY <1>1, <1>2 DEF Behind, SessionInv, Control, Attended, Position

(* How the server looks after a helper ended. *)
LEMMA HelperEffect ==
    ASSUME SessionInv, Behind, NEW p \in procs, HelperEnds(p)
    PROVE  /\ p.step \in Steps /\ p.step <= at
           /\ host.blocked => host'.blocked
           /\ host'.keys => \/ host.keys
                            \/ Script[p.step].cmd = "restore-core" /\ Script[p.step].of = "system"
           /\ ~AddsDomains(Script[p.step]) => host'.domains = host.domains
           /\ Script[p.step].cmd = "add-domain" => host'.domains \subseteq host.domains \cup AppSet
           /\ Script[p.step].cmd = "postinstall" =>
                host'.domains \subseteq host.domains \cup FirstDomain
           /\ \/ UNCHANGED host
              \/ /\ p.step = at /\ reply = "none"
                 /\ Script[p.step].cmd # "quarantine" /\ ~AddsDomains(Script[p.step])
                      => Isolation(host') = Isolation(host)
           /\ IsolationWorks /\ Script[p.step].cmd = "quarantine" =>
                host' = Quarantined(host, known)
<1>1. PICK o \in Outcomes(Script[p.step], host, known) : host' = o.host
  BY DEF HelperEnds
<1>2. /\ p.step \in Steps /\ Script[p.step] \in ScriptStep
      /\ host \in HostType /\ known \in SUBSET Domains /\ p.step <= at
  BY HelperTyped DEF SessionInv, Control, Attended
<1> DEFINE s == Script[p.step]
<1> HIDE DEF s
<1>3. /\ host.blocked => o.host.blocked
      /\ o.host.keys => host.keys \/ (s.cmd = "restore-core" /\ s.of = "system")
      /\ s.cmd # "quarantine" /\ ~AddsDomains(s) => Isolation(o.host) = Isolation(host)
      /\ ~AddsDomains(s) => o.host.domains = host.domains
      /\ s.cmd = "add-domain" => o.host.domains \subseteq host.domains \cup AppSet
      /\ s.cmd = "postinstall" => o.host.domains \subseteq host.domains \cup FirstDomain
      /\ ~Alters(s) => o.host = host
      /\ IsolationWorks /\ s.cmd = "quarantine" => o.host = Quarantined(host, known)
  BY <1>1, <1>2, Effects, Tells DEF s
<1>4. Alters(s) => p.step = at /\ reply = "none"
  BY ChangerIsCurrent DEF s
<1>5. QED
  BY <1>1, <1>2, <1>3, <1>4 DEF s

LEMMA BlockedKept ==
    ASSUME IsolationWorks, SessionInv, Behind, Blocked, ProductionDnsSafe, [Next]_vars
    PROVE  Blocked' /\ ProductionDnsSafe'
<1>1. TypeOK /\ Position /\ host \in HostType
  BY DEF SessionInv, TypeOK
<1>2. host.blocked => host'.blocked
  BY HelperEffect, WorldKept DEF world
<1>3. ASSUME NEW i \in Steps, Script[i].cmd = "quarantine", Reached(i)'
      PROVE  host'.blocked
  <2>1. CASE Reached(i)
    BY <1>2, <1>3, <2>1 DEF Blocked
  <2>2. CASE ~Reached(i)
    <3>1. PICK p \in procs : p.step = i /\ HelperEnds(p)
      BY <1>1, <1>3, <2>2, ReachedBefore
    <3>2. host' = Quarantined(host, known)
      BY <1>3, <3>1, HelperEffect
    <3>3. QED
      BY <1>1, <3>2, QuarantineEffect
  <2>3. QED
    BY <2>1, <2>2
<1>4. ProductionDnsSafe'
  <2>1. CASE UNCHANGED host
    BY <2>1 DEF ProductionDnsSafe
  <2>2. ASSUME NEW p \in procs, HelperEnds(p) PROVE ProductionDnsSafe'
    <3>1. CASE Script[p.step].cmd = "restore-core" /\ Script[p.step].of = "system"
      <4>1. p.step \in Steps /\ p.step <= at
        BY <2>2, HelperEffect
      <4>2. PICK i \in Steps : i < p.step /\ Script[i].cmd = "quarantine"
        BY <3>1, <4>1, SystemAfterQuarantine
      <4>3. i < at
        BY <1>1, <4>1, <4>2, ScriptTyped, SMT DEF TypeOK
      <4>4. QED
        BY <1>2, <4>2, <4>3 DEF Blocked, Reached, ProductionDnsSafe
    <3>2. CASE ~(Script[p.step].cmd = "restore-core" /\ Script[p.step].of = "system")
      BY <1>2, <2>2, <3>2, HelperEffect DEF ProductionDnsSafe
    <3>3. QED
      BY <3>1, <3>2
  <2>3. QED
    BY <2>1, <2>2, WorldKept DEF world
<1>5. QED
  BY <1>3, <1>4 DEF Blocked

(* The orchestrator forgets no domain. *)
LEMMA KnownGrows ==
    ASSUME [Next]_vars
    PROVE  known \subseteq known'
<1>1. CASE UNCHANGED vars \/ Signal
  BY <1>1 DEF vars, findings, Signal
<1>2. CASE Walk \/ Talk
  BY <1>2 DEF Walk, NoticeSignal, Skip, Dial, Report, Talk, Refuse, Connect, Break, Errs,
       Redial, findings
<1>3. CASE Judge
  BY <1>3 DEF Judge, AnswerIgnored, AnswerRequired, AnswerBestEffort, AnswerDomains,
       AnswerRestore, AnswerExtract, AnswerDescribe, AnswerHealth, AnswerMail, findings
<1>4. CASE \E p \in procs : HelperEnds(p)
  BY <1>4 DEF HelperEnds, findings
<1>5. QED
  BY <1>1, <1>2, <1>3, <1>4 DEF Next, Orchestrate

LEMMA ListedKept ==
    ASSUME IsolationWorks, SessionInv, Behind, Listed, [Next]_vars
    PROVE  Listed'
<1>1. TypeOK /\ Position /\ host \in HostType /\ at \in Nat
  BY ScriptTyped DEF SessionInv, TypeOK
<1>2. (AppSet \cup MainDomain \subseteq known)'
  BY KnownGrows DEF Listed
<1>3. ASSUME ~SystemParts PROVE host'.domains \subseteq AppSet \cup MainDomain
  <2>1. CASE UNCHANGED host
    BY <1>3, <2>1 DEF Listed
  <2>2. ASSUME NEW p \in procs, HelperEnds(p)
        PROVE  host'.domains \subseteq AppSet \cup MainDomain
    <3>1. p.step \in Steps
      BY <2>2, HelperEffect
    <3>2. ~(Script[p.step].cmd = "restore-core" /\ Script[p.step].of = "system")
      BY <1>3, <3>1, SystemAfterQuarantine
    <3>3. FirstDomain \subseteq AppSet \cup MainDomain
      <4>1. CASE MainDomain # {} \/ Apps = <<>>
        BY <4>1 DEF FirstDomain
      <4>2. CASE ~ (MainDomain # {} \/ Apps = <<>>)
        <5>1. 1 \in DOMAIN Apps
          BY <4>2, PlanTyped, EmptySeq, LenProperties, SMT
        <5>2. Apps[1] \in AppSet
          BY <5>1 DEF AppSet
        <5>3. QED
          BY <4>2, <5>2 DEF FirstDomain
      <4>3. QED
        BY <4>1, <4>2
    <3>4. QED
      BY <1>3, <2>2, <3>2, <3>3, HelperEffect DEF Listed, AddsDomains
  <2>3. QED
    BY <2>1, <2>2, WorldKept DEF world
<1>4. ASSUME NEW i \in Steps, Script[i].cmd = "domains", i = at', reply' # "none"
      PROVE  Good'
  <2>1. at' = at
    BY <1>4, ReplyComes
  <2>2. CASE reply' = reply
    BY <1>4, <2>1, <2>2 DEF Listed, Good
  <2>3. CASE reply' # reply
    <3>1. PICK p \in procs : /\ p.step = at
                             /\ \E o \in Outcomes(Script[p.step], host, known) : reply' = o.says
      BY <1>4, <2>3, ReplyComes
    <3>2. PICK o \in Outcomes(Script[p.step], host, known) : reply' = o.says
      BY <3>1
    <3>3. Script[p.step].cmd = "domains"
      BY <1>4, <2>1, <3>1
    <3>4. reply' = "ok"
      BY <1>1, <3>2, <3>3, HelperTyped, Tells
    <3>5. QED
      BY <3>4 DEF Good
  <2>4. QED
    BY <2>2, <2>3
<1>5. ASSUME NEW i \in Steps, Script[i].cmd = "domains", i < at'
      PROVE  host'.domains \subseteq known'
  <2>1. CASE i < at
    <3>1. host.domains \subseteq known'
      BY <1>5, <2>1, KnownGrows DEF Listed
    <3>2. CASE UNCHANGED host
      BY <3>1, <3>2
    <3>3. ASSUME NEW p \in procs, HelperEnds(p), host' # host
          PROVE  host'.domains = host.domains
      <4>1. p.step \in Steps /\ p.step = at
        BY <3>3, HelperEffect
      <4>2. i <= p.step
        BY <2>1, <4>1, ScriptTyped, SMT
      <4>3. ~AddsDomains(Script[p.step])
        BY <1>5, <4>1, <4>2, DomainsListedLast
      <4>4. QED
        BY <3>3, <4>3, HelperEffect
    <3>4. QED
      BY <3>1, <3>2, <3>3, WorldKept DEF world
  <2>2. CASE ~(i < at)
    <3>1. at' # at
      BY <1>5, <2>2
    <3>2. i = at
      BY <1>1, <1>5, <2>2, <3>1, Leaves, ScriptTyped, SMT
    <3>3. AnswerDomains /\ UNCHANGED host
      BY <1>1, <1>5, <3>1, <3>2, Leaves DEF Current, world
    <3>4. Good
      BY <1>5, <3>2, <3>3 DEF AnswerDomains, Answered, Listed
    <3>5. QED
      BY <3>3, <3>4 DEF AnswerDomains
  <2>3. QED
    BY <2>1, <2>2
<1>6. QED
  BY <1>2, <1>3, <1>4, <1>5 DEF Listed

LEMMA SealedKept ==
    ASSUME IsolationWorks, SessionInv, Behind, Listed, SealedInUse, [Next]_vars
    PROVE  SealedInUse'
<1> DEFINE P == Len(Prepared)
<1>1. TypeOK /\ Position /\ host \in HostType /\ at \in Nat
  BY ScriptTyped DEF SessionInv, TypeOK
<1>2. P \in Steps /\ P \in Nat /\ Script[P].cmd = "quarantine"
  BY ScriptTyped, ScriptPlaces
<1> SUFFICES ASSUME Reached(P)' PROVE Isolated'
  BY DEF SealedInUse
<1>3. CASE Reached(P)
  <2>1. Isolated
    BY <1>3 DEF SealedInUse
  <2>2. CASE UNCHANGED host
    BY <2>1, <2>2 DEF Isolated
  <2>3. ASSUME NEW p \in procs, HelperEnds(p), host' # host PROVE Isolated'
    <3>1. p.step \in Steps /\ p.step = at /\ reply = "none"
      BY <2>3, HelperEffect
    <3>2. p.step > P
      BY <1>1, <1>2, <1>3, <3>1, SMT DEF Reached
    <3>3. Script[p.step].cmd # "quarantine" /\ ~AddsDomains(Script[p.step])
      BY <3>1, <3>2, UseOnly
    <3>4. Isolation(host') = Isolation(host)
      BY <2>3, <3>3, HelperEffect
    <3>5. QED
      BY <2>1, <3>4 DEF Isolation, Isolated
  <2>4. QED
    BY <2>2, <2>3, WorldKept DEF world
<1>4. CASE ~Reached(P)
  <2>1. at = P /\ \E p \in procs : p.step = at /\ HelperEnds(p)
    BY <1>1, <1>2, <1>4, ReachedBefore
  <2>2. PICK p \in procs : p.step = P /\ HelperEnds(p)
    BY <2>1
  <2>3. host' = Quarantined(host, known)
    BY <1>2, <2>2, HelperEffect
  <2>4. host.domains \subseteq known
    <3>1. CASE SystemParts
      <4>1. /\ Len(Bootstrap) + 3 \in Steps /\ Script[Len(Bootstrap) + 3].cmd = "domains"
            /\ P = Len(Bootstrap) + 4 /\ Len(Bootstrap) \in Nat
        BY <3>1, SystemPlace, ScriptPlaces
      <4>2. Len(Bootstrap) + 3 < at
        BY <2>1, <4>1, SMT
      <4>3. QED
        BY <4>1, <4>2 DEF Listed
    <3>2. CASE ~SystemParts
      BY <3>2 DEF Listed
    <3>3. QED
      BY <3>1, <3>2
  <2>5. host'.domains = host.domains
    BY <1>1, <2>3, QuarantineEffect
  <2>6. QED
    BY <1>1, <2>3, <2>4, <2>5, QuarantineEffect DEF Isolated
<1>5. QED
  BY <1>3, <1>4

(* The inductive invariant of the isolation, when the quarantine and the      *)
(* listing of the domains work: what was blocked, what is known and, after    *)
(* the last quarantine, that nothing is undone.                               *)
THEOREM IsolationInvariant ==
    ASSUME IsolationWorks
    PROVE  Spec => []IsolationInv
<1>1. Init => IsolationInv
  <2> SUFFICES ASSUME Init PROVE IsolationInv
    OBVIOUS
  <2>1. \A i \in Steps : ~(i < 1)
    BY ScriptTyped, SMT
  <2>2. Blocked /\ ProductionDnsSafe
    BY <2>1 DEF Init, FreshHost, Blocked, Reached, ProductionDnsSafe
  <2>3. Listed
    BY <2>1 DEF Init, FreshHost, Listed
  <2>4. SealedInUse
    BY <2>1, ScriptPlaces DEF Init, SealedInUse, Reached
  <2>5. QED
    BY <2>2, <2>3, <2>4 DEF IsolationInv
<1>2. SessionInv /\ Judged /\ IsolationInv /\ [Next]_vars => IsolationInv'
  BY BlockedKept, ListedKept, SealedKept DEF IsolationInv, Judged
<1>3. QED
  BY <1>1, <1>2, SessionInvariant, JudgementsTrue, PTL DEF Spec

(* Whenever the server holds the DynDNS keys of production, it cannot reach   *)
(* the DynDNS service with them.                                             *)
THEOREM KeysHarmless ==
    ASSUME IsolationWorks
    PROVE  Spec => []ProductionDnsSafe
BY IsolationInvariant, PTL DEF IsolationInv

(* From the first application on the server is isolated. *)
THEOREM IsolatedFromUse ==
    ASSUME IsolationWorks
    PROVE  Spec => []IsolatedInUse
<1>1. IsolationInv => IsolatedInUse
  BY DEF IsolationInv, SealedInUse, IsolatedInUse, Reached
<1>2. QED
  BY <1>1, IsolationInvariant, PTL
=============================================================================
