--------------------------- MODULE RestoreSession ---------------------------
(***************************************************************************)
(* What a check run does with its temporary server once it is booted: the  *)
(* stages bootstrap, restore core, samples and verify of                    *)
(* run/orchestrator.py as one sequence of helper commands (Script), each    *)
(* sent over an ssh connection (restore/ssh.py, restore/agent.py) that may  *)
(* be refused, break or time out while the helper goes on running, and what *)
(* the report says of the answers (report/models.py).                       *)
(***************************************************************************)
EXTENDS RestoreHost

CONSTANTS
    SystemParts,    \* does the plan restore system configuration?
    HasRoots,       \* components with a large root
    HasObjects,     \* those for which the sampler found objects
    MailParts,      \* those whose objects are e-mails
    Mode,           \* "sampled" or "full"
    WithVolume,     \* was a volume attached?
    BorgApp,        \* setting restore_borg_app
    Keep,           \* "never", "on-failure" (keep_host_on_failure) or "always"
    RetryBudget,    \* connect_retry_budget, in seconds
    ReadyPolls,     \* polls of wait_ready before its deadline
    MayBreak,       \* commands whose connection may break or time out
    LocalDiskFull,  \* may the disk of the production server fill up meanwhile?
    Interruptible   \* may a signal arrive?

ASSUME SessionAssumption ==
    /\ SystemParts \in BOOLEAN /\ WithVolume \in BOOLEAN /\ BorgApp \in BOOLEAN
    /\ LocalDiskFull \in BOOLEAN
    /\ HasObjects \subseteq HasRoots /\ HasRoots \subseteq Parts
    /\ MailParts \subseteq HasObjects
    /\ RetryBudget \in Nat /\ ReadyPolls \in Nat

VARIABLES
    at,         \* position in Script
    call,       \* "idle" | "dialing" | "open": the ssh command of step `at`
    attempt,    \* connections refused so far
    waited,     \* seconds slept for them
    reply,      \* what the helper printed, "none" until it ends
    known,      \* the domains the orchestrator knows
    payload,    \* answer of the last extract-payload
    checks,     \* component -> names of the checks in its report
    samples,    \* component -> "none" | "readable" | "some" | "unreadable"
    warned,     \* is there a warning in the report?
    fatal,      \* "none" | "error" | "interrupted"
    asked,      \* the signal handler's flag
    ended,      \* "no", then what happens to the server: "retained" | "released"
    procs,      \* helper processes running on the server
    started,    \* history: how often each step's command was started
    host        \* the server

wire == <<call, attempt, waited, reply>>
findings == <<known, payload, checks, samples, warned>>
outcome == <<fatal, asked, ended>>
world == <<procs, started, host>>
vars == <<at, wire, findings, outcome, world>>

-----------------------------------------------------------------------------
(* The sequence of commands.                                               *)

(* For each component in turn, each command in turn. *)
Each(cmds, comps) ==
    [i \in 1 .. Len(cmds) * Len(comps) |->
        [cmd |-> cmds[((i - 1) % Len(cmds)) + 1],
         of  |-> comps[((i - 1) \div Len(cmds)) + 1]]]

Once(cmds) == Each(cmds, <<"host">>)

Bootstrap ==
    Once(<<"wait-ready", "deploy", "wait-cloud-init">>)
    \o Once(IF WithVolume THEN <<"mount-volume">> ELSE <<>>)
    \o Once(<<"install-yunohost", "deploy-credentials", "install-borg-client",
              "borg-test">>)

(* ensure_domains: the first domain came with the placeholder postinstall. *)
AddedDomains == IF MainDomain = {} /\ Apps # <<>> THEN Tail(Apps) ELSE Apps

(* Bug: one of the two quarantines is left out. *)
NoQuarantine == <<>>

(* Quarantine before the system restore too: it brings the DynDNS keys back. *)
IsolateFirst == Once(<<"quarantine">>)

IsolateAgain == Once(<<"quarantine">>)

System ==
    IF SystemParts
    THEN IsolateFirst \o Each(<<"restore-core">>, <<"system">>)
         \o Once(<<"domains">>)
    ELSE Once(<<"postinstall", "reopen-port">>)
         \o Each(<<"add-domain">>, AddedDomains)

Prepared == Bootstrap \o System \o IsolateAgain

Restores ==
    Once(IF BorgApp THEN <<"install-borg-app">> ELSE <<>>)
    \o Each(<<"restore-core">>, Apps)

Samples == Each(<<"extract-payload", "describe">>, Apps \o DataParts)

Verify ==
    Each(<<"app-settings", "health", "mail-verify">>, Apps)
    \o Each(<<"mail-verify">>, DataParts)

Script == Prepared \o Restores \o Samples \o Verify

Steps == DOMAIN Script
Current == Script[at]

-----------------------------------------------------------------------------
(* The report.                                                             *)

FailChecks == {"core-fail", "payload-fail", "full-fail", "health-fail", "unreachable"}
WarnChecks == {"core-warn", "content-warn", "health-warn"}
Checks == FailChecks \cup WarnChecks
            \cup {"core-pass", "full-pass", "health-pass", "skipped", "mail-pass"}

Reported == Parts \cup {"system"}

(* ComponentReport.finalize *)
Status(c) ==
    IF checks[c] \cap FailChecks # {} THEN "FAIL"
    ELSE IF samples[c] = "unreadable" THEN "FAIL"
    ELSE IF samples[c] = "some" \/ checks[c] \cap WarnChecks # {} THEN "WARN"
    ELSE IF checks[c] # {} \/ samples[c] # "none" THEN "PASS"
    ELSE "SKIPPED"

(* RunReport.overall *)
Overall ==
    IF fatal # "none" \/ \E c \in Reported : Status(c) = "FAIL" THEN "FAIL"
    ELSE IF warned \/ \E c \in Reported : Status(c) = "WARN" THEN "PASS WITH WARNINGS"
    ELSE "PASS"

Check(c, names) == checks' = [checks EXCEPT ![c] = @ \cup names]

CoreFailed(c) == "core-fail" \in checks[c]

Good == reply \notin {"failed", "raised"}

-----------------------------------------------------------------------------
(* Going through the script.                                               *)

Proceed ==
    /\ at' = at + 1
    /\ call' = "idle" /\ attempt' = 0 /\ waited' = 0 /\ reply' = "none"

(* An exception leaves the stages: `run` records it and reports. *)
Stop(why) ==
    /\ fatal' = why
    /\ call' = "idle" /\ attempt' = 0 /\ waited' = 0 /\ reply' = "none"
    /\ UNCHANGED <<at, asked, ended>>

Idle == call = "idle" /\ fatal = "none" /\ at \in Steps

(* _check_interrupt runs before each application is restored, each component *)
(* sampled and each application verified.                                    *)
Checkpoint(s) ==
    \/ s.cmd = "restore-core" /\ s.of # "system"
    \/ s.cmd \in {"extract-payload", "app-settings"}

(* Bug: samples of an application whose core restore failed are retrieved. *)
SkipsNoFailed(s) ==
    \/ s.cmd \in {"extract-payload", "describe"} /\ s.of \notin HasRoots
    \/ s.cmd = "describe" /\ s.of \notin HasObjects
    \/ /\ s.cmd \in {"app-settings", "health", "mail-verify"}
       /\ CoreFailed(s.of) \/ "unreachable" \in checks[s.of]
    \/ /\ s.cmd = "mail-verify"
       /\ s.of \notin MailParts \/ samples[s.of] \notin {"readable", "some"}

(* Nothing to retrieve or to verify. *)
Skips(s) ==
    \/ /\ s.cmd \in {"extract-payload", "describe"}
       /\ s.of \notin HasRoots \/ CoreFailed(s.of)
    \/ s.cmd = "describe" /\ s.of \notin HasObjects
    \/ /\ s.cmd \in {"app-settings", "health", "mail-verify"}
       /\ CoreFailed(s.of) \/ "unreachable" \in checks[s.of]
    \/ /\ s.cmd = "mail-verify"
       /\ s.of \notin MailParts \/ samples[s.of] \notin {"readable", "some"}

NoticeSignal ==
    /\ Idle /\ asked /\ Checkpoint(Current)
    /\ Stop("interrupted")
    /\ UNCHANGED <<findings, world>>

(* Bug: the retrieval and the description of a component are skipped as one, *)
(* wherever the component stands.                                            *)
SkipTwo ==
    /\ Idle /\ ~(asked /\ Checkpoint(Current)) /\ Skips(Current)
    /\ at' = at + 2
    /\ UNCHANGED <<wire, findings, outcome, world>>

Skip ==
    /\ Idle /\ ~(asked /\ Checkpoint(Current)) /\ Skips(Current)
    /\ Proceed
    /\ UNCHANGED <<findings, outcome, world>>

Dial ==
    /\ Idle /\ ~(asked /\ Checkpoint(Current)) /\ ~Skips(Current)
    /\ call' = "dialing"
    /\ UNCHANGED <<at, attempt, waited, reply, findings, outcome, world>>

-----------------------------------------------------------------------------
(* The ssh session.                                                        *)

(* Bug: a failed connection costs an application, not the run. *)
CaughtRestores(s) == s.cmd \in {"restore-core", "app-settings", "health", "mail-verify"}

(* A RestoreHostError while an application or a data part is verified is    *)
(* caught there; anywhere else it ends the run.                             *)
Caught(s) == s.cmd \in {"app-settings", "health", "mail-verify"}

Errs ==
    /\ UNCHANGED <<known, payload, samples, warned>>
    /\ \/ /\ Caught(Current)
          /\ Check(Current.of, {"unreachable"})
          /\ Proceed
          /\ UNCHANGED outcome
       \/ /\ ~Caught(Current)
          /\ Stop("error")
          /\ UNCHANGED checks

(* 5, 15, then 30 seconds. *)
Delay == IF attempt = 0 THEN 5 ELSE IF attempt = 1 THEN 15 ELSE 30

(* wait_ready dials again until its deadline; every other command as long as *)
(* the time slept stays within the budget.                                   *)
MayRetry(s) ==
    IF s.cmd = "wait-ready" THEN attempt < ReadyPolls
                            ELSE waited + Delay <= RetryBudget

Redial ==
    /\ call' = "dialing" /\ reply' = "none"
    /\ attempt' = attempt + 1
    /\ waited' = IF Current.cmd = "wait-ready" THEN waited ELSE waited + Delay
    /\ UNCHANGED <<at, findings, outcome>>

(* ssh failed before the session existed: the command never ran. *)
Refuse ==
    /\ call = "dialing"
    /\ IF MayRetry(Current) THEN Redial ELSE Errs
    /\ UNCHANGED world

Connect ==
    /\ call = "dialing"
    /\ call' = "open"
    /\ started' = [started EXCEPT ![at] = @ + 1]
    /\ procs' = procs \cup {[step |-> at, run |-> started[at] + 1]}
    /\ UNCHANGED <<at, attempt, waited, reply, findings, outcome, host>>

(* Bug: a session that dropped is taken for one that never was. *)
RepeatsDropped(s) == MayRetry(s)

(* Only the harmless `echo` of wait_ready is repeated after a session that   *)
(* existed: any other command may have run.                                  *)
Repeats(s) == s.cmd = "wait-ready" /\ MayRetry(s)

(* Bug: ssh has neither a local timeout nor a keep-alive: a session ends     *)
(* only after its answer.                                                    *)
BreakAnswered ==
    /\ call = "open" /\ reply # "none" /\ Current.cmd \in MayBreak
    /\ IF Repeats(Current) THEN Redial ELSE Errs
    /\ UNCHANGED world

(* The session drops, or the local timeout ends ssh: the helper, if it still *)
(* runs, goes on running.                                                    *)
Break ==
    /\ call = "open" /\ Current.cmd \in MayBreak
    /\ IF Repeats(Current) THEN Redial ELSE Errs
    /\ UNCHANGED world

(* The helper process p ends; only the session that started it hears of it. *)
HelperEnds(p) ==
    /\ \E o \in Outcomes(Script[p.step], host, known) :
         /\ host' = o.host
         /\ reply' = IF call = "open" /\ p = [step |-> at, run |-> started[at]]
                     THEN o.says ELSE reply
    /\ procs' = procs \ {p}
    /\ UNCHANGED <<at, call, attempt, waited, findings, outcome, started>>

-----------------------------------------------------------------------------
(* What the orchestrator makes of the answers.                             *)

Answered(cmds) == call = "open" /\ reply # "none" /\ Current.cmd \in cmds

(* Nobody looks at the answer. *)
AnswerIgnored ==
    /\ Answered({"wait-ready", "wait-cloud-init", "quarantine", "reopen-port",
                 "app-settings"})
    /\ Proceed
    /\ UNCHANGED <<findings, outcome, world>>

(* The bootstrap cannot do without. *)
AnswerRequired ==
    /\ Answered({"deploy", "mount-volume", "install-yunohost", "deploy-credentials",
                 "install-borg-client", "borg-test"})
    /\ IF Good THEN Proceed /\ UNCHANGED outcome ELSE Stop("error")
    /\ UNCHANGED <<findings, world>>

(* A failure is a warning in the report. *)
AnswerBestEffort ==
    /\ Answered({"postinstall", "add-domain", "install-borg-app"})
    /\ warned' = (warned \/ ~Good)
    /\ Proceed
    /\ UNCHANGED <<known, payload, checks, samples, outcome, world>>

AnswerDomains ==
    /\ Answered({"domains"})
    /\ known' = known \cup (IF Good THEN host.domains ELSE {})
    /\ Proceed
    /\ UNCHANGED <<payload, checks, samples, warned, outcome, world>>

(* Bug: only an exception fails the component. *)
CoreCheckLenient(says) == IF says = "raised" THEN "core-fail" ELSE "core-pass"

(* CoreRestoreEngine.apply_outcome *)
CoreCheck(says) ==
    CASE says = "ok" -> "core-pass"
      [] says = "warning" -> "core-warn"
      [] OTHER -> "core-fail"

(* _save_restore_log catches a full disk when it writes the log of a failed  *)
(* restore, not when it makes the directory for it.                          *)
SaveRestoreLogFails == LocalDiskFull /\ ~Good /\ Stop("error")

AnswerRestore ==
    /\ Answered({"restore-core"})
    /\ Check(Current.of, {CoreCheck(reply)})
    /\ \/ Proceed /\ UNCHANGED outcome
       \/ SaveRestoreLogFails
    /\ UNCHANGED <<known, payload, samples, warned, world>>

(* Bug: the error of a root is not looked at. *)
RetrievalChecksUnseen(got) == IF Mode = "full" THEN {"full-pass"} ELSE {}

(* A root that failed is an error; without an answer for the root there is   *)
(* none.  A full restore counts the roots that failed.                       *)
RetrievalChecks(got) ==
    (IF got = "failed" THEN {"payload-fail"} ELSE {})
    \cup (IF Mode # "full" THEN {}
          ELSE IF got = "failed" THEN {"full-fail"} ELSE {"full-pass"})

(* An object counts when the extraction says so and its description is       *)
(* readable; a full extraction speaks of the roots, not of their objects.    *)
SampleResult(got, seen) ==
    IF Mode = "full" \/ got # "ok" \/ seen \in {"unreadable", "failed", "raised"}
    THEN "unreadable"
    ELSE IF seen = "some" THEN "some" ELSE "readable"

AnswerExtract ==
    /\ Answered({"extract-payload"})
    /\ payload' = reply
    /\ IF Current.of \in HasObjects THEN UNCHANGED checks
                                    ELSE Check(Current.of, RetrievalChecks(reply))
    /\ Proceed
    /\ UNCHANGED <<known, samples, warned, outcome, world>>

AnswerDescribe ==
    /\ Answered({"describe"})
    /\ Check(Current.of, RetrievalChecks(payload)
                           \cup (IF reply = "alarm" THEN {"content-warn"} ELSE {}))
    /\ samples' = [samples EXCEPT ![Current.of] = SampleResult(payload, reply)]
    /\ Proceed
    /\ UNCHANGED <<known, payload, warned, outcome, world>>

(* ApplicationHealthChecker: a web server that answers 5xx is a warning when *)
(* the bulk data was left out on purpose; without an answer nothing is known *)
(* and every check is skipped.                                               *)
HealthChecks(says) ==
    CASE says = "ok" -> {"health-pass"}
      [] says = "http" -> {IF Mode = "full" THEN "health-fail" ELSE "health-warn"}
      [] says = "broken" -> {"health-fail"}
      [] OTHER -> {"skipped"}

AnswerHealth ==
    /\ Answered({"health"})
    /\ Check(Current.of, HealthChecks(reply))
    /\ Proceed
    /\ UNCHANGED <<known, payload, samples, warned, outcome, world>>

AnswerMail ==
    /\ Answered({"mail-verify"})
    /\ Check(Current.of, {IF reply = "ok" THEN "mail-pass" ELSE "skipped"})
    /\ Proceed
    /\ UNCHANGED <<known, payload, samples, warned, outcome, world>>

-----------------------------------------------------------------------------
(* _retention_hours *)
Retains ==
    \/ Keep = "always"
    \/ Keep = "on-failure" /\ Overall = "FAIL" /\ fatal # "interrupted"

Report ==
    /\ ended = "no" /\ call = "idle"
    /\ fatal # "none" \/ at \notin Steps
    /\ ended' = IF Retains THEN "retained" ELSE "released"
    /\ UNCHANGED <<at, wire, findings, fatal, asked, world>>

Signal ==
    /\ Interruptible /\ ~asked /\ ended = "no"
    /\ asked' = TRUE
    /\ UNCHANGED <<at, wire, findings, fatal, ended, world>>

Init ==
    /\ at = 1
    /\ call = "idle" /\ attempt = 0 /\ waited = 0 /\ reply = "none"
    /\ known = AppSet \cup MainDomain
    /\ payload = "none"
    /\ checks = [c \in Reported |-> {}]
    /\ samples = [c \in Reported |-> "none"]
    /\ warned = FALSE
    /\ fatal = "none" /\ asked = FALSE /\ ended = "no"
    /\ procs = {}
    /\ started = [i \in Steps |-> 0]
    /\ host = FreshHost

Walk == NoticeSignal \/ Skip \/ Dial \/ Report

Talk == Refuse \/ Connect \/ Break

Judge ==
    \/ AnswerIgnored \/ AnswerRequired \/ AnswerBestEffort \/ AnswerDomains
    \/ AnswerRestore \/ AnswerExtract \/ AnswerDescribe \/ AnswerHealth
    \/ AnswerMail

Orchestrate == Walk \/ Talk \/ Judge

Next ==
    \/ Orchestrate
    \/ Signal
    \/ \E p \in procs : HelperEnds(p)

Spec == Init /\ [][Next]_vars

(* The orchestrator goes on; ssh ends by its answer, its keep-alive or the   *)
(* local timeout.                                                            *)
FairSpec == Spec /\ WF_vars(Orchestrate)

-----------------------------------------------------------------------------
(* Correctness.                                                            *)

Replies == {"none", "ok", "warning", "alarm", "some", "unreadable", "http",
            "broken", "unconfirmed", "failed", "raised"}

(* Every variable keeps its type; the helpers running are helpers that were *)
(* started (orchestrator.py:552-804, ssh.py:113-174).                        *)
TypeOK ==
    /\ at \in 1 .. Len(Script) + 1
    /\ call \in {"idle", "dialing", "open"}
    /\ attempt \in Nat /\ waited \in Nat
    /\ reply \in Replies /\ payload \in Replies
    /\ known \subseteq Domains
    /\ checks \in [Reported -> SUBSET Checks]
    /\ samples \in [Reported -> {"none", "readable", "some", "unreadable"}]
    /\ warned \in BOOLEAN /\ asked \in BOOLEAN
    /\ fatal \in {"none", "error", "interrupted"}
    /\ ended \in {"no", "retained", "released"}
    /\ started \in [Steps -> Nat]
    /\ procs \subseteq [step : Steps, run : Nat]
    /\ \A p \in procs : p.run \in 1 .. started[p.step]
    /\ host \in HostType

(* No command is started twice, the `echo` of wait_ready excepted: restores, *)
(* quarantines, the formatting of the volume are not repeatable, and ssh     *)
(* alone cannot tell a command that ran from one that did not (ssh.py:19-45, *)
(* 147-157).                                                                 *)
AtMostOnce == \A i \in Steps : Script[i].cmd # "wait-ready" => started[i] <= 1

(* The commands that change the server; `mail-verify` creates and resyncs    *)
(* mail directories.                                                         *)
Changing ==
    {"deploy", "mount-volume", "install-yunohost", "deploy-credentials",
     "install-borg-client", "postinstall", "reopen-port", "add-domain",
     "quarantine", "restore-core", "install-borg-app", "extract-payload",
     "mail-verify"}

Verifying == {"app-settings", "health", "mail-verify"}

(* Up to the verification, nothing runs beside a command that changes the    *)
(* server, although a broken session leaves its helper behind: the stages    *)
(* before it do not survive an error (orchestrator.py:144-152). In the       *)
(* verification, whose errors are caught (orchestrator.py:756-757, 763-764), *)
(* `mail-verify` may run beside what an earlier check left behind; what was  *)
(* started before the verification is over even then.                        *)
NothingBeside ==
    \A p, q \in procs :
        Script[p.step].cmd \in Changing /\ Script[q.step].cmd # "wait-ready"
            => p = q \/ {Script[p.step].cmd, Script[q.step].cmd} \subseteq Verifying

(* Whenever the server holds the DynDNS keys of production, it cannot reach  *)
(* the DynDNS service with them (orchestrator.py:586-589).                   *)
ProductionDnsSafe == host.keys => host.blocked

(* From the first application on the server is isolated: no DynDNS keys, no  *)
(* outbound mail, and every domain it serves resolves to itself              *)
(* (engine.py:89-95, host_helper.py:339-387).                                *)
Isolated ==
    host.blocked /\ ~host.keys /\ host.sink /\ host.domains \subseteq host.mapped

IsolatedInUse == at > Len(Prepared) => Isolated

(* An application is restored among the apt sources of applications that     *)
(* were restored, never of one whose restore failed (host_helper.py:710-719).*)
JudgedAlone ==
    \A p \in procs :
        Script[p.step].cmd = "restore-core" => host.sources \subseteq host.restored

(* Samples are only laid into applications that were restored: below one     *)
(* whose restore failed they would create the directories its next restore   *)
(* or its removal does not expect (orchestrator.py:696-702).                 *)
SampledWhereRestored ==
    \A p \in procs :
        /\ Script[p.step].cmd = "extract-payload"
        /\ Script[p.step].of \in AppSet
        => Script[p.step].of \in host.restored

(* The components whose large data is to be on the server: all of it, or the *)
(* samples of it.                                                            *)
ToPlace == IF Mode = "full" THEN HasRoots ELSE HasObjects

(* A report that does not say FAIL describes a server on which the core of   *)
(* everything planned was restored, its samples or, in full mode, its large  *)
(* roots were extracted, and no command that changes the server is running   *)
(* any more (report/models.py:132-143, 223-237, payload.py:71-79). In full   *)
(* mode it needs that `extract-payload` ends without an exception, see       *)
(* FullMeansRestored.                                                        *)
PassMeansRestored ==
    ended # "no" /\ Overall # "FAIL" =>
        /\ AppSet \cup (IF SystemParts THEN {"system"} ELSE {}) \subseteq host.restored
        /\ ToPlace \subseteq host.placed
        /\ ~ \E p \in procs : Script[p.step].cmd \in Changing

(* The run ends, whatever the connection and the helpers do (ssh.py:129-169, *)
(* 185-199).                                                                 *)
Terminates == <>(ended # "no")

(* A server that is left to an administrator after the system restore is     *)
(* isolated (doc/ADMIN.md:12).                                               *)
RetainedIsolated == ended = "retained" /\ host.yunohost = "ready" => Isolated

(* A full restore that does not say FAIL has restored the large data: the    *)
(* report does not overstate success (doc/ADMIN.md:42), not even when        *)
(* `extract-payload` ends in an exception (payload.py:71-79).                *)
FullMeansRestored ==
    Mode = "full" /\ ended # "no" /\ Overall # "FAIL" => HasRoots \subseteq host.placed

(* A full restore in which nothing went wrong does not say FAIL              *)
(* (doc/APP_COMPATIBILITY.md:63).                                            *)
FullCanPass ==
    /\ Mode = "full" /\ ended # "no" /\ fatal = "none"
    /\ AppSet \subseteq host.restored /\ HasRoots \subseteq host.placed
    /\ \A c \in Reported : checks[c] \cap FailChecks = {}
    => Overall # "FAIL"
=============================================================================
